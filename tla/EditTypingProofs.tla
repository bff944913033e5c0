-------------------------- MODULE EditTypingProofs --------------------------
(***************************************************************************)
(* What EditHistory keeps in every window, with fields that are typed      *)
(* into as well.  There an entry may hold an older value as the one to     *)
(* undo to, so that the content is not what the applied entries make of    *)
(* the opened EDID.  What remains: the first entry of a slot starts from   *)
(* the value that was opened, and a slot without an entry still has it.    *)
(***************************************************************************)
EXTENDS EditTimelineProofs

\* No entry up to n is of this slot.
Free(s, n, slot) == \A i \in 1 .. n : s[i].slot # slot

Rooted(b, l, d) ==
  /\ \A i \in 1 .. Len(l.entries) :
       Free(l.entries, i - 1, l.entries[i].slot) => l.entries[i].before = b[l.entries[i].slot]
  /\ \A slot \in Slots : Free(l.entries, l.position, slot) => d[slot] = b[slot]

\* A field with no entry but that of the focused row had, when it was focused,
\* the value that was opened.
RowRooted(b, l, w) ==
  (/\ w # NoRow
   /\ \A i \in 1 .. l.position : i # w.index => l.entries[i].slot # Value(w.field))
    => w.before = b[Value(w.field)]

(***************************************************************************)
(* The operators.                                                          *)
(***************************************************************************)
LEMMA HistoryIs ==
  ASSUME NEW l \in HistoryType
  PROVE  /\ l.entries \in Seq(EntryType) /\ Len(l.entries) \in Nat
         /\ l.position \in Nat /\ l.position <= Len(l.entries)
         /\ \A i \in 1 .. Len(l.entries) : l.entries[i] \in EntryType /\ l.entries[i].slot \in Slots
<1>1. /\ l.entries \in Seq(EntryType) /\ l.position \in Nat /\ l.position <= Len(l.entries)
  BY DEF HistoryType
<1>2. Len(l.entries) \in Nat /\ \A i \in 1 .. Len(l.entries) : l.entries[i] \in EntryType
  BY <1>1, LenProperties, ElementOfSeq
<1> QED BY <1>1, <1>2 DEF EntryType

LEMMA PushIs ==
  ASSUME NEW l \in HistoryType, NEW entry \in EntryType
  PROVE  LET new == PushHistory(l, entry)
         IN  /\ new \in HistoryType
             /\ new.position = l.position + 1 /\ Len(new.entries) = l.position + 1
             /\ \A i \in 1 .. l.position : new.entries[i] = l.entries[i]
             /\ new.entries[l.position + 1] = entry
<1> DEFINE new == PushHistory(l, entry)
<1>1. /\ new \in HistoryType /\ new.position = l.position + 1
      /\ Len(new.entries) = new.position /\ new.entries[new.position] = entry
  BY PushTyped
<1>2. SamePast(l.entries, new.entries, l.position)
  BY PushKeeps
<1> HIDE DEF new
<1>3. \A i \in 1 .. l.position : l.entries[i] = new.entries[i]
  BY <1>1, <1>2, HistoryIs, SamePastEntries
<1> QED BY <1>1, <1>3 DEF new

LEMMA PushRooted ==
  ASSUME NEW b, NEW l \in HistoryType, NEW entry \in EntryType, NEW d, NEW to,
         Rooted(b, l, d),
         Free(l.entries, l.position, entry.slot) => entry.before = b[entry.slot],
         \A slot \in Slots : slot # entry.slot => to[slot] = d[slot]
  PROVE  LET new == PushHistory(l, entry)
         IN  /\ Rooted(b, new, to)
             /\ Whole(l) /\ (entry.joined => l.position > 0) => Whole(new)
             /\ \A w : RowRooted(b, l, w) /\ w # NoRow /\ Value(w.field) # entry.slot => RowRooted(b, new, w)
<1> DEFINE new == PushHistory(l, entry)
           n == l.position
<1>1. /\ new.position = n + 1 /\ Len(new.entries) = n + 1
      /\ \A i \in 1 .. n : new.entries[i] = l.entries[i]
      /\ new.entries[n + 1] = entry
      /\ n \in Nat /\ n <= Len(l.entries) /\ Len(l.entries) \in Nat
  BY PushIs, HistoryIs
<1> HIDE DEF new
<1>2. ASSUME NEW i \in 1 .. n + 1, Free(new.entries, i - 1, new.entries[i].slot)
      PROVE  new.entries[i].before = b[new.entries[i].slot]
  <2>1. CASE i \in 1 .. n
    <3>1. new.entries[i] = l.entries[i] /\ i \in 1 .. Len(l.entries)
      BY <1>1, <2>1
    <3>2. \A j \in 1 .. i - 1 : j \in 1 .. n
      BY <1>1, <2>1
    <3>3. \A j \in 1 .. i - 1 : new.entries[j] = l.entries[j]
      BY <1>1, <3>2
    <3>4. \A j \in 1 .. i - 1 : new.entries[j].slot # l.entries[i].slot
      BY <1>2, <3>1 DEF Free
    <3>5. Free(l.entries, i - 1, l.entries[i].slot)
      BY <3>3, <3>4 DEF Free
    <3> QED BY <3>1, <3>5 DEF Rooted
  <2>2. CASE i = n + 1
    <3>1. Free(l.entries, n, entry.slot)
      <4>1. i - 1 = n
        BY <1>1, <2>2
      <4>2. \A j \in 1 .. n : new.entries[j].slot # entry.slot
        BY <1>1, <1>2, <2>2, <4>1 DEF Free
      <4> QED BY <1>1, <4>2 DEF Free
    <3> QED BY <1>1, <2>2, <3>1
  <2> QED BY <1>1, <2>1, <2>2
<1>3. ASSUME NEW slot \in Slots, Free(new.entries, n + 1, slot)
      PROVE  to[slot] = b[slot]
  <2>1. Free(l.entries, n, slot) /\ slot # entry.slot
    BY <1>1, <1>3, SMTT(60) DEF Free
  <2> QED BY <2>1 DEF Rooted
<1>4. Rooted(b, new, to)
  BY <1>1, <1>2, <1>3 DEF Rooted
<1>5. ASSUME Whole(l), entry.joined => n > 0 PROVE Whole(new)
  <2>1. ~new.entries[1].joined
    <3>1. CASE n = 0
      BY <1>1, <1>5, <3>1
    <3>2. CASE n > 0
      <4>1. 1 \in 1 .. n /\ Len(l.entries) > 0
        BY <1>1, <3>2
      <4> QED BY <1>1, <1>5, <4>1 DEF Whole
    <3> QED BY <1>1, <3>1, <3>2
  <2> QED BY <1>1, <2>1 DEF Whole
<1>6. ASSUME NEW w, RowRooted(b, l, w), w # NoRow, Value(w.field) # entry.slot
      PROVE  RowRooted(b, new, w)
  <2> SUFFICES ASSUME \A i \in 1 .. n + 1 : i # w.index => new.entries[i].slot # Value(w.field)
               PROVE  w.before = b[Value(w.field)]
    BY <1>1 DEF RowRooted
  <2>1. \A i \in 1 .. n : i # w.index => l.entries[i].slot # Value(w.field)
    BY <1>1
  <2> QED BY <1>6, <2>1 DEF RowRooted
<1> QED BY <1>4, <1>5, <1>6 DEF new

\* The newest entry is taken out of the history again.
LEMMA DropIs ==
  ASSUME NEW l \in HistoryType, l.position > 0, NEW s, s = SubSeq(l.entries, 1, l.position - 1)
  PROVE  Len(s) = l.position - 1 /\ \A i \in 1 .. l.position - 1 : s[i] = l.entries[i]
<1> DEFINE n == l.position - 1
<1>1. n \in 0 .. Len(l.entries) /\ n \in n .. Len(l.entries) /\ l.entries \in Seq(EntryType)
  BY HistoryIs
<1> HIDE DEF n
<1>2. Len(SubSeq(l.entries, 1, n)) = n /\ \A i \in 1 .. n : SubSeq(l.entries, 1, n)[i] = l.entries[i]
  BY <1>1, SplitAt
<1> QED BY <1>2 DEF n

LEMMA DropRooted ==
  ASSUME NEW b, NEW l \in HistoryType, l.position > 0, l.position = Len(l.entries), NEW d, NEW to,
         NEW new, new.position = l.position - 1, new.entries = SubSeq(l.entries, 1, l.position - 1),
         Rooted(b, l, d),
         to[l.entries[l.position].slot] = l.entries[l.position].before,
         \A slot \in Slots : slot # l.entries[l.position].slot => to[slot] = d[slot]
  PROVE  Rooted(b, new, to)
<1> DEFINE n == l.position
           last == l.entries[n]
<1>1. /\ n \in Nat /\ n - 1 \in Nat /\ n - 1 \in 0 .. Len(l.entries) /\ n \in 1 .. Len(l.entries)
      /\ l.entries \in Seq(EntryType) /\ last.slot \in Slots
  BY HistoryIs
<1>2. Len(new.entries) = n - 1 /\ \A i \in 1 .. n - 1 : new.entries[i] = l.entries[i]
  <2> DEFINE s == new.entries
  <2>1. s = SubSeq(l.entries, 1, l.position - 1)
    OBVIOUS
  <2> HIDE DEF s
  <2>2. Len(s) = l.position - 1 /\ \A i \in 1 .. l.position - 1 : s[i] = l.entries[i]
    BY <2>1, DropIs
  <2> QED BY <2>2 DEF s
<1>3. ASSUME NEW i \in 1 .. n - 1, Free(new.entries, i - 1, new.entries[i].slot)
      PROVE  new.entries[i].before = b[new.entries[i].slot]
  <2>1. new.entries[i] = l.entries[i] /\ i \in 1 .. Len(l.entries)
    BY <1>1, <1>2
  <2>2. Free(l.entries, i - 1, l.entries[i].slot)
    BY <1>1, <1>2, <1>3, <2>1 DEF Free
  <2> QED BY <2>1, <2>2 DEF Rooted
<1>4. ASSUME NEW slot \in Slots, Free(new.entries, n - 1, slot)
      PROVE  to[slot] = b[slot]
  <2>1. Free(l.entries, n - 1, slot)
    BY <1>2, <1>4 DEF Free
  <2>2. CASE slot = last.slot
    <3>1. last.before = b[last.slot]
      BY <1>1, <2>1, <2>2 DEF Rooted
    <3> QED BY <2>2, <3>1
  <2>3. CASE slot # last.slot
    <3>1. Free(l.entries, n, slot)
      BY <1>1, <2>1, <2>3 DEF Free
    <3> QED BY <2>3, <3>1 DEF Rooted
  <2> QED BY <2>2, <2>3
<1>5. Rooted(b, new, to)
  BY <1>2, <1>3, <1>4 DEF Rooted
<1> QED BY <1>5

LEMMA DropWhole ==
  ASSUME NEW l \in HistoryType, l.position > 0, Whole(l),
         NEW new, new.position = l.position - 1, new.entries = SubSeq(l.entries, 1, l.position - 1)
  PROVE  Whole(new)
<1> DEFINE s == new.entries
<1>1. Len(s) = l.position - 1 /\ \A i \in 1 .. l.position - 1 : s[i] = l.entries[i]
  <2>1. s = SubSeq(l.entries, 1, l.position - 1)
    OBVIOUS
  <2> HIDE DEF s
  <2> QED BY <2>1, DropIs
<1>2. ASSUME Len(s) > 0 PROVE ~s[1].joined
  <2>1. 1 \in 1 .. l.position - 1 /\ Len(l.entries) > 0
    BY <1>1, <1>2, HistoryIs
  <2> QED BY <1>1, <2>1 DEF Whole
<1> HIDE DEF s
<1>3. ~(new.position < Len(s))
  BY <1>1, HistoryIs
<1> QED BY <1>2, <1>3 DEF Whole, s

(***************************************************************************)
(* A state of the window: what it opened, its history, its content and the *)
(* focused row.                                                            *)
(***************************************************************************)
State(b, l, d, w) ==
  Rooted(b, l, d) /\ RowRooted(b, l, w) /\ (Restorable => Whole(l))

\* Flushing the waiting rebuild appends an entry for it, takes the refused
\* value back, or leaves everything as it is.
LEMMA FlushState ==
  ASSUME NEW b, NEW l \in HistoryType, NEW d \in Content, NEW r \in RefreshType, NEW w \in RowType,
         State(b, l, d, w)
  PROVE  LET done == Flush(l, d, r, w)
         IN  \A x \in done.rows : State(b, done.l, done.d, x)
<1> DEFINE outcome == RebuildOutcome(d, r)
           joined  == JoinsLast(l, r)
           last    == l.entries[l.position]
           undone  == [l EXCEPT !.position = @ - 1]
           done    == Flush(l, d, r, w)
<1>0. RowRooted(b, l, NoRow) /\ \A any : RowRooted(b, any, NoRow)
  BY DEF RowRooted
<1>1. CASE outcome = "rebuilt"
  <2> DEFINE entry == Entry("replace", Built(r.field), d[Built(r.field)], d[Value(r.field)], joined)
  <2>1. r \in [field : Fields, typeChanged : BOOLEAN, due : BOOLEAN]
    BY <1>1 DEF RebuildOutcome, RefreshType
  <2>2. Built(r.field) \in Slots /\ Value(r.field) \in Slots
    BY <2>1, SlotsOfFields
  <2>3. d[Built(r.field)] \in Values /\ d[Value(r.field)] \in Values /\ joined \in BOOLEAN
    BY <2>2 DEF Content, JoinsLast
  <2>4. entry \in EntryType
    BY <2>2, <2>3, EntryTyped
  <2>5. /\ entry.slot = Built(r.field) /\ entry.before = d[Built(r.field)]
        /\ entry.joined = joined
    BY DEF Entry
  <2>6. /\ done.l = PushHistory(l, entry) /\ done.rows = {NoRow}
        /\ done.d = [d EXCEPT ![Built(r.field)] = d[Value(r.field)]]
    BY <1>1 DEF Flush
  <2>7. entry.joined => l.position > 0
    BY <2>5 DEF JoinsLast
  <2>8. \A slot \in Slots : slot # entry.slot => done.d[slot] = d[slot]
    BY <2>5, <2>6 DEF Content
  <2>9. Free(l.entries, l.position, entry.slot) => entry.before = b[entry.slot]
    BY <2>2, <2>5 DEF Rooted, State
  <2>10. Rooted(b, l, d)
    BY DEF State
  <2> HIDE DEF entry, done
  <2>11. /\ Rooted(b, PushHistory(l, entry), done.d)
         /\ Whole(l) /\ (entry.joined => l.position > 0) => Whole(PushHistory(l, entry))
    BY <2>4, <2>8, <2>9, <2>10, PushRooted
  <2>12. State(b, done.l, done.d, NoRow)
    BY <1>0, <2>6, <2>7, <2>11 DEF State
  <2> QED BY <2>6, <2>12 DEF done
<1>2. CASE outcome = "refused" /\ joined /\ ~CannotRestore(last)
  <2>1. done = [l |-> DropHistory(undone, undone.position),
                d |-> [d EXCEPT ![last.slot] = last.before],
                rows |-> KeptRows({w}, <<last>>)]
    BY <1>2 DEF Flush
  <2>2. l.position > 0 /\ l.position = Len(l.entries)
    BY <1>2 DEF JoinsLast
  <2>3. /\ done.l.entries = SubSeq(l.entries, 1, l.position - 1)
        /\ done.l.position = l.position - 1
    <3>1. undone.entries = l.entries /\ undone.position = l.position - 1
      BY DEF HistoryType
    <3>2. done.l = DropHistory(undone, undone.position)
      BY <2>1
    <3> HIDE DEF undone, done
    <3>3. /\ done.l.entries = SubSeq(undone.entries, 1, undone.position)
          /\ done.l.position = undone.position
      BY <3>2, DropFields
    <3> QED BY <3>1, <3>3
  <2>4. done.d = [d EXCEPT ![last.slot] = last.before] /\ done.rows = KeptRows({w}, <<last>>)
    BY <2>1
  <2>5. /\ l.position \in 1 .. Len(l.entries) /\ l.position \in Nat /\ last \in EntryType /\ last.slot \in Slots
    BY <2>2, HistoryIs
  <2>6. /\ done.d[last.slot] = last.before
        /\ \A slot \in Slots : slot # last.slot => done.d[slot] = d[slot]
    BY <2>4, <2>5 DEF Content
  <2> DEFINE new == done.l
             to  == done.d
  <2>7. Rooted(b, l, d) /\ RowRooted(b, l, w)
    BY DEF State
  <2> HIDE DEF done, last
  <2>8. /\ Rooted(b, new, to) /\ (Whole(l) => Whole(new))
        /\ \A i \in 1 .. l.position - 1 : new.entries[i] = l.entries[i]
    <3> DEFINE s == new.entries
    <3>5. \A i \in 1 .. l.position - 1 : s[i] = l.entries[i]
      <4>1. s = SubSeq(l.entries, 1, l.position - 1)
        BY <2>3
      <4> HIDE DEF s
      <4> QED BY <2>2, <4>1, DropIs
    <3>1. new.position = l.position - 1 /\ new.entries = SubSeq(l.entries, 1, l.position - 1)
      BY <2>3
    <3>2. /\ to[l.entries[l.position].slot] = l.entries[l.position].before
          /\ \A slot \in Slots : slot # l.entries[l.position].slot => to[slot] = d[slot]
      BY <2>6 DEF last
    <3> HIDE DEF new, to
    <3>3. Rooted(b, l, d)
      BY <2>7
    <3>4. Rooted(b, new, to)
      BY <2>2, <3>1, <3>2, <3>3, DropRooted
    <3>6. Whole(l) => Whole(new)
      BY <2>2, <3>1, DropWhole
    <3> QED BY <3>4, <3>5, <3>6 DEF s
  <2>9. ASSUME NEW x \in done.rows PROVE RowRooted(b, new, x)
    <3> SUFFICES ASSUME x # NoRow,
                        \A i \in 1 .. new.position : i # x.index => new.entries[i].slot # Value(x.field)
                 PROVE  x.before = b[Value(x.field)]
      BY DEF RowRooted
    <3>1. x = w /\ last.slot # Value(x.field)
      BY <2>4, <2>9 DEF KeptRows
    <3>2. ASSUME NEW i \in 1 .. l.position, i # x.index PROVE l.entries[i].slot # Value(x.field)
      <4>1. CASE i = l.position
        BY <3>1, <4>1 DEF last
      <4>2. CASE i # l.position
        <5>1. i \in 1 .. l.position - 1
          BY <2>5, <4>2
        <5>2. new.entries[i].slot # Value(x.field)
          BY <2>3, <3>2, <5>1
        <5> QED BY <2>8, <5>1, <5>2
      <4> QED BY <4>1, <4>2
    <3> QED BY <2>7, <3>1, <3>2 DEF RowRooted
  <2>10. Restorable => Whole(new)
    BY <2>8 DEF State
  <2> QED BY <2>8, <2>9, <2>10 DEF State, done
<1>3. CASE ~(outcome = "rebuilt") /\ ~(outcome = "refused" /\ joined /\ ~CannotRestore(last))
  <2>1. done = [l |-> l, d |-> d, rows |-> {w}]
    BY <1>3 DEF Flush
  <2> QED BY <2>1
<1> QED BY <1>1, <1>2, <1>3

LEMMA PushState ==
  ASSUME NEW b, NEW l \in HistoryType, NEW entry \in EntryType, NEW d \in Content, NEW to \in Content,
         NEW w, State(b, l, d, w),
         Free(l.entries, l.position, entry.slot) => entry.before = b[entry.slot],
         \A slot \in Slots : slot # entry.slot => to[slot] = d[slot],
         entry.joined => l.position > 0,
         NEW x, x = NoRow \/ (x = w /\ Value(w.field) # entry.slot)
  PROVE  State(b, PushHistory(l, entry), to, x)
<1>1. Rooted(b, l, d) /\ RowRooted(b, l, w) /\ (Restorable => Whole(l))
  BY DEF State
<1>2. /\ Rooted(b, PushHistory(l, entry), to)
      /\ Whole(l) /\ (entry.joined => l.position > 0) => Whole(PushHistory(l, entry))
      /\ \A any : RowRooted(b, l, any) /\ any # NoRow /\ Value(any.field) # entry.slot
                    => RowRooted(b, PushHistory(l, entry), any)
  BY <1>1, PushRooted
<1>3. RowRooted(b, PushHistory(l, entry), x)
  BY <1>1, <1>2 DEF RowRooted
<1> QED BY <1>1, <1>2, <1>3 DEF State

\* Whatever row a rebuild leaves, the history and the content are the same.
RequestState(l, d, w) == State(base, l, d, w) /\ l \in HistoryType /\ d \in Content /\ w \in RowType

LEMMA RequestKeeps ==
  ASSUME TypeOK, NEW l, NEW d, NEW w, RequestState(l, d, w), NEW f, NEW typeChanged, NEW now,
         RequestRefresh(l, d, w, f, typeChanged, now)
  PROVE  State(base, h', doc', row')
<1>1. \/ h' = l /\ doc' = d /\ row' = w
      \/ h' = Flush(l, d, refresh, w).l /\ doc' = Flush(l, d, refresh, w).d /\ row' \in Flush(l, d, refresh, w).rows
  BY DEF RequestRefresh
<1>2. refresh \in RefreshType
  BY DEF TypeOK
<1>3. \A x \in Flush(l, d, refresh, w).rows : State(base, Flush(l, d, refresh, w).l, Flush(l, d, refresh, w).d, x)
  BY <1>2, FlushState DEF RequestState
<1> QED BY <1>1, <1>3 DEF RequestState

LEMMA ChangeKeeps ==
  ASSUME TypeOK, State(base, h, doc, row), NEW f \in Fields, NEW v \in Values, NEW now,
         Change(f, v, now)
  PROVE  State(base, h', doc', row')
<1> DEFINE entry == Entry("field", Value(f), doc[Value(f)], v, FALSE)
           d == [doc EXCEPT ![Value(f)] = v]
<1>0. h \in HistoryType /\ doc \in Content /\ row \in RowType
  BY DEF TypeOK
<1>1. doc[Value(f)] \in Values /\ Value(f) \in Slots
  BY <1>0, SlotsOfFields DEF Content
<1>2. /\ entry \in EntryType
      /\ entry.slot = Value(f) /\ entry.before = doc[Value(f)] /\ entry.joined = FALSE
  BY <1>1, EntryTyped DEF Entry
<1>3. /\ d \in Content /\ \A slot \in Slots : slot # Value(f) => d[slot] = doc[slot]
  BY <1>0, <1>1 DEF Content
<1>4. RequestRefresh(PushHistory(h, entry), d, row, f, f \in TypeFields /\ v \in Retyping, now)
  BY DEF Change
<1>5. row = NoRow \/ Value(row.field) # Value(f)
  BY DEF Change, Value
<1> HIDE DEF entry, d
<1>6. Free(h.entries, h.position, entry.slot) => entry.before = base[entry.slot]
  BY <1>1, <1>2 DEF State, Rooted
<1>7. State(base, PushHistory(h, entry), d, row)
  BY <1>0, <1>2, <1>3, <1>5, <1>6, PushState
<1>8. PushHistory(h, entry) \in HistoryType
  BY <1>0, <1>2, PushTyped
<1> QED BY <1>0, <1>3, <1>4, <1>7, <1>8, RequestKeeps DEF RequestState

\* A keystroke that takes the new value into the entry of its session: typed
\* back to where the session began, the entry goes.
LEMMA CoalescedKeeps ==
  ASSUME TypeOK, State(base, h, doc, row), row # NoRow, CanCoalesce, NEW v \in Values,
         NEW to \in Content, to[Value(row.field)] = v,
         \A slot \in Slots : slot # Value(row.field) => to[slot] = doc[slot]
  PROVE  State(base, Coalesced(v).l, to, [row EXCEPT !.index = Coalesced(v).index])
<1> DEFINE n == h.position
           last == h.entries[n]
           x == [row EXCEPT !.index = Coalesced(v).index]
           new == Coalesced(v).l
<1>0. /\ h \in HistoryType /\ row \in [field : TextFields, index : Nat, before : Values]
      /\ Rooted(base, h, doc) /\ RowRooted(base, h, row) /\ (Restorable => Whole(h))
  BY DEF TypeOK, RowType, State
<1>1. /\ n > 0 /\ n \in Nat /\ n = Len(h.entries) /\ row.index = n /\ last.slot = Value(row.field)
      /\ n \in 1 .. Len(h.entries) /\ h.entries \in Seq(EntryType)
  BY <1>0, HistoryIs DEF CanCoalesce, NewestOfRow
<1>2. x.field = row.field /\ x.before = row.before /\ x.index = Coalesced(v).index
  BY <1>0
<1>3. CASE last.before = v
  <2>1. /\ new.entries = SubSeq(h.entries, 1, h.position - 1) /\ new.position = h.position - 1
        /\ x.index = 0
    BY <1>2, <1>3 DEF Coalesced
  <2> HIDE DEF new, x
  <2>2. /\ to[h.entries[h.position].slot] = h.entries[h.position].before
        /\ \A slot \in Slots : slot # h.entries[h.position].slot => to[slot] = doc[slot]
    BY <1>1, <1>3
  <2>3. Rooted(base, new, to)
    BY <1>0, <1>1, <2>1, <2>2, DropRooted
  <2>4. Restorable => Whole(new)
    BY <1>0, <1>1, <2>1, DropWhole
  <2>5. RowRooted(base, new, x)
    <3> DEFINE s == new.entries
    <3>1. \A i \in 1 .. n - 1 : s[i] = h.entries[i]
      <4>1. s = SubSeq(h.entries, 1, h.position - 1)
        BY <2>1
      <4> HIDE DEF s
      <4> QED BY <1>0, <1>1, <4>1, DropIs
    <3> SUFFICES ASSUME \A i \in 1 .. n - 1 : s[i].slot # Value(row.field)
                 PROVE  row.before = base[Value(row.field)]
      <4>1. \A i \in 1 .. n - 1 : i # x.index
        BY <1>1, <2>1
      <4> QED BY <1>2, <2>1, <4>1 DEF RowRooted, x
    <3>2. \A i \in 1 .. n : i # row.index => h.entries[i].slot # Value(row.field)
      <4> SUFFICES ASSUME NEW i \in 1 .. n, i # row.index PROVE h.entries[i].slot # Value(row.field)
        OBVIOUS
      <4>1. i \in 1 .. n - 1
        BY <1>1
      <4> QED BY <3>1, <4>1
    <3> QED BY <1>0, <3>2 DEF RowRooted
  <2> QED BY <2>3, <2>4, <2>5 DEF State, new, x
<1>4. CASE last.before # v
  <2> DEFINE s == [h.entries EXCEPT ![n].after = v]
  <2>1. Coalesced(v) = [l |-> [h EXCEPT !.entries = s], index |-> row.index]
    BY <1>4 DEF Coalesced
  <2>2. new.entries = s /\ new.position = n /\ x.index = row.index
    <3> HIDE DEF s
    <3>1. new = [h EXCEPT !.entries = s] /\ Coalesced(v).index = row.index
      BY <2>1
    <3> QED BY <1>0, <1>2, <3>1 DEF HistoryType
  <2>3. Len(s) = Len(h.entries)
    BY <1>1
  <2>4. \A i \in 1 .. Len(h.entries) : /\ s[i].slot = h.entries[i].slot
                                       /\ s[i].before = h.entries[i].before
                                       /\ s[i].joined = h.entries[i].joined
    <3> SUFFICES ASSUME NEW i \in 1 .. Len(h.entries)
                 PROVE  /\ s[i].slot = h.entries[i].slot
                        /\ s[i].before = h.entries[i].before
                        /\ s[i].joined = h.entries[i].joined
      OBVIOUS
    <3>1. h.entries[i] \in EntryType
      BY <1>0, HistoryIs
    <3>2. s[i] = IF i = n THEN [h.entries[i] EXCEPT !.after = v] ELSE h.entries[i]
      BY <1>1
    <3> HIDE DEF s
    <3> QED BY <3>1, <3>2 DEF EntryType
  <2> HIDE DEF new, x, s
  <2>5. \A k \in 0 .. n : \A slot : Free(s, k, slot) => Free(h.entries, k, slot)
    <3> SUFFICES ASSUME NEW k \in 0 .. n, NEW slot, Free(s, k, slot), NEW i \in 1 .. k
                 PROVE  h.entries[i].slot # slot
      BY DEF Free
    <3>1. i \in 1 .. Len(h.entries)
      BY <1>1
    <3> QED BY <2>4, <3>1 DEF Free
  <2>6. Rooted(base, new, to)
    <3>1. ASSUME NEW i \in 1 .. Len(s), Free(s, i - 1, s[i].slot) PROVE s[i].before = base[s[i].slot]
      <4>1. i \in 1 .. Len(h.entries) /\ i - 1 \in 0 .. n
        BY <1>1, <2>3
      <4>2. Free(h.entries, i - 1, h.entries[i].slot)
        BY <2>4, <2>5, <3>1, <4>1
      <4> QED BY <1>0, <2>4, <4>1, <4>2 DEF Rooted
    <3>2. ASSUME NEW slot \in Slots, Free(s, n, slot) PROVE to[slot] = base[slot]
      <4>1. Free(h.entries, n, slot)
        BY <1>1, <2>5, <3>2
      <4>2. slot # Value(row.field)
        BY <1>1, <4>1 DEF Free
      <4> QED BY <1>0, <4>1, <4>2 DEF Rooted
    <3> QED BY <2>2, <3>1, <3>2 DEF Rooted
  <2>7. Whole(h) => Whole(new)
    <3>1. 1 \in 1 .. Len(h.entries)
      BY <1>1
    <3> QED BY <1>1, <2>2, <2>3, <2>4, <3>1 DEF Whole
  <2>8. RowRooted(base, new, x)
    <3> SUFFICES ASSUME \A i \in 1 .. n : i # row.index => s[i].slot # Value(row.field)
                 PROVE  row.before = base[Value(row.field)]
      BY <1>2, <2>2 DEF RowRooted, x
    <3>1. \A i \in 1 .. n : i # row.index => h.entries[i].slot # Value(row.field)
      BY <1>1, <2>4
    <3> QED BY <1>0, <3>1 DEF RowRooted
  <2> QED BY <1>0, <2>6, <2>7, <2>8 DEF State, new, x
<1> QED BY <1>3, <1>4

LEMMA RecordedKeeps ==
  ASSUME TypeOK, State(base, h, doc, row), row # NoRow, NEW v \in Values, v # doc[Value(row.field)],
         NEW to \in Content, to[Value(row.field)] = v,
         \A slot \in Slots : slot # Value(row.field) => to[slot] = doc[slot]
  PROVE  State(base, Recorded(v).l, to, [row EXCEPT !.index = Recorded(v).index])
<1> DEFINE slot == Value(row.field)
           before == IF row.index = 0 THEN row.before ELSE doc[slot]
           entry == Entry("field", slot, before, v, FALSE)
           x == [row EXCEPT !.index = Recorded(v).index]
           new == Recorded(v).l
           n == h.position
<1>0. /\ h \in HistoryType /\ row \in [field : TextFields, index : Nat, before : Values]
      /\ doc \in Content /\ base \in Content
      /\ Rooted(base, h, doc) /\ RowRooted(base, h, row) /\ (Restorable => Whole(h))
  BY DEF TypeOK, RowType, State
<1>1. slot \in Slots /\ before \in Values
  BY <1>0, SlotsOfFields, EditAssumption DEF Content
<1>2. x.field = row.field /\ x.before = row.before /\ x.index = Recorded(v).index
  BY <1>0
<1>3. Free(h.entries, n, slot) => before = base[slot]
  <2> SUFFICES ASSUME Free(h.entries, n, slot) PROVE before = base[slot]
    OBVIOUS
  <2>1. doc[slot] = base[slot]
    BY <1>0, <1>1 DEF Rooted
  <2>2. row.before = base[slot]
    BY <1>0 DEF RowRooted, Free
  <2> QED BY <2>1, <2>2
<1>4. CASE before = v
  <2>1. row.index = 0
    BY <1>4
  <2>2. new = h /\ x.index = 0
    BY <1>2, <1>4 DEF Recorded
  <2>3. Rooted(base, h, to)
    <3> SUFFICES ASSUME NEW other \in Slots, Free(h.entries, n, other) PROVE to[other] = base[other]
      BY <1>0 DEF Rooted
    <3>1. CASE other = slot
      BY <1>3, <1>4, <3>1
    <3>2. CASE other # slot
      BY <1>0, <3>2 DEF Rooted
    <3> QED BY <3>1, <3>2
  <2> HIDE DEF new, x
  <2>4. RowRooted(base, h, x)
    BY <1>0, <1>2, <2>1, <2>2 DEF RowRooted, x
  <2> QED BY <1>0, <2>2, <2>3, <2>4 DEF State, new, x
<1>5. CASE before # v
  <2>1. entry \in EntryType
    BY <1>1, EntryTyped
  <2>2. entry.slot = slot /\ entry.before = before /\ entry.joined = FALSE
    BY DEF Entry
  <2>3. new = PushHistory(h, entry)
    BY <1>5 DEF Recorded
  <2>4. x.index = IF Len(new.entries) > Len(h.entries) THEN Len(new.entries) ELSE 0
    BY <1>2 DEF Recorded
  <2> HIDE DEF new, x, entry, before, slot
  <2>5. State(base, new, to, NoRow)
    <3>1. \A other \in Slots : other # entry.slot => to[other] = doc[other]
      BY <2>2 DEF slot
    <3>2. Free(h.entries, h.position, entry.slot) => entry.before = base[entry.slot]
      BY <1>3, <2>2
    <3> QED BY <1>0, <2>1, <2>2, <2>3, <3>1, <3>2, PushState
  <2>6. RowRooted(base, new, x)
    <3>1. /\ new.position = n + 1 /\ Len(new.entries) = n + 1 /\ n \in Nat /\ Len(h.entries) \in Nat
          /\ \A i \in 1 .. n : new.entries[i] = h.entries[i]
          /\ new.entries[n + 1].slot = slot
      BY <1>0, <2>1, <2>2, <2>3, PushIs, HistoryIs
    <3> SUFFICES ASSUME \A i \in 1 .. n + 1 : i # x.index => new.entries[i].slot # slot
                 PROVE  row.before = base[slot]
      BY <1>2, <3>1 DEF RowRooted, x, slot
    <3>2. x.index = n + 1
      BY <2>4, <3>1
    <3>3. \A i \in 1 .. n : h.entries[i].slot # slot
      BY <3>1, <3>2
    <3> QED BY <1>0, <3>3 DEF RowRooted, slot
  <2> QED BY <2>5, <2>6 DEF State, new, x
<1> QED BY <1>4, <1>5

LEMMA TypeTextKeeps ==
  ASSUME TypeOK, State(base, h, doc, row), NEW v \in Values, TypeText(v)
  PROVE  State(base, h', doc', row')
<1> DEFINE typed == IF CanCoalesce THEN Coalesced(v) ELSE Recorded(v)
           to == [doc EXCEPT ![Value(row.field)] = v]
           x == [row EXCEPT !.index = typed.index]
<1>0. /\ row # NoRow /\ v # doc[Value(row.field)]
      /\ row \in [field : TextFields, index : Nat, before : Values] /\ doc \in Content
  BY DEF TypeText, TypeOK, RowType
<1>1. Value(row.field) \in Slots
  BY <1>0, SlotsOfFields, EditAssumption
<1>2. /\ to \in Content /\ to[Value(row.field)] = v
      /\ \A slot \in Slots : slot # Value(row.field) => to[slot] = doc[slot]
  BY <1>0, <1>1 DEF Content
<1>3. RequestRefresh(typed.l, to, x, row.field, row.field \in TypeFields /\ v \in Retyping, FALSE)
  BY DEF TypeText
<1> HIDE DEF to
<1>4. typed.l \in HistoryType /\ typed.index \in Nat
  BY <1>0, CoalescedTyped, RecordedTyped
<1>5. State(base, typed.l, to, x)
  <2>1. CASE CanCoalesce
    BY <1>0, <1>2, <2>1, CoalescedKeeps
  <2>2. CASE ~CanCoalesce
    BY <1>0, <1>2, <2>2, RecordedKeeps
  <2> QED BY <2>1, <2>2
<1> HIDE DEF typed
<1>6. x \in RowType
  BY <1>0, <1>4 DEF RowType
<1> QED BY <1>2, <1>3, <1>4, <1>5, <1>6, RequestKeeps DEF RequestState

(***************************************************************************)
(* Steps that flush the waiting rebuild first.                             *)
(***************************************************************************)
LEMMA FlushedKeeps ==
  ASSUME TypeOK, State(base, h, doc, row)
  PROVE  /\ Flushed.l \in HistoryType /\ Flushed.d \in Content /\ Flushed.rows \subseteq RowType
         /\ \A x \in Flushed.rows : State(base, Flushed.l, Flushed.d, x)
         /\ State(base, Flushed.l, Flushed.d, NoRow)
<1>1. /\ h \in HistoryType /\ doc \in Content /\ refresh \in RefreshType /\ row \in RowType
  BY DEF TypeOK
<1>2. /\ Flushed.l \in HistoryType /\ Flushed.d \in Content /\ Flushed.rows \subseteq RowType
  BY FlushedTyped
<1>3. \A x \in Flushed.rows : State(base, Flushed.l, Flushed.d, x)
  BY <1>1, FlushState DEF Flushed
<1>4. \E x : x \in Flushed.rows
  BY DEF Flushed, Flush, KeptRows
<1>5. State(base, Flushed.l, Flushed.d, NoRow)
  BY <1>3, <1>4 DEF State, RowRooted
<1> QED BY <1>2, <1>3, <1>5

LEMMA ChangeGroupsKeeps ==
  ASSUME TypeOK, State(base, h, doc, row), NEW g \in Values, ChangeGroups(g)
  PROVE  State(base, h', doc', row')
<1> DEFINE l == Flushed.l
           d == Flushed.d
           entry == Entry("structure", Groups, d[Groups], g, FALSE)
<1>1. l \in HistoryType /\ d \in Content /\ State(base, l, d, NoRow)
  BY FlushedKeeps
<1>2. /\ entry \in EntryType
      /\ entry.slot = Groups /\ entry.before = d[Groups] /\ entry.joined = FALSE
  BY <1>1, SlotsOfFields, EntryTyped DEF Entry, Content
<1>3. h' = PushHistory(l, entry) /\ doc' = [d EXCEPT ![Groups] = g] /\ row' = NoRow
  BY DEF ChangeGroups
<1> HIDE DEF entry, l, d
<1>4. doc' \in Content /\ \A slot \in Slots : slot # entry.slot => doc'[slot] = d[slot]
  BY <1>1, <1>2, <1>3, SlotsOfFields DEF Content
<1>5. Free(l.entries, l.position, entry.slot) => entry.before = base[entry.slot]
  BY <1>1, <1>2, SlotsOfFields DEF State, Rooted
<1> QED BY <1>1, <1>2, <1>3, <1>4, <1>5, PushState

LEMMA SwapDataKeeps ==
  ASSUME TypeOK, State(base, h, doc, row), NEW f \in Fields, NEW g \in Fields, SwapData(f, g)
  PROVE  State(base, h', doc', row')
<1> DEFINE l == Flushed.l
           d == Flushed.d
           first  == Entry("data", Value(f), d[Value(f)], d[Value(g)], FALSE)
           second == Entry("data", Value(g), d[Value(g)], d[Value(f)], TRUE)
           half   == PushHistory(l, first)
           mid    == Applied(d, first)
           to     == Applied(mid, second)
<1>1. l \in HistoryType /\ d \in Content /\ State(base, l, d, NoRow)
  BY FlushedKeeps
<1>2. /\ d[Value(f)] \in Values /\ d[Value(g)] \in Values
      /\ Value(f) \in Slots /\ Value(g) \in Slots /\ Value(f) # Value(g)
  BY <1>1, SlotsOfFields DEF Content, SwapData
<1>3. /\ first \in EntryType /\ second \in EntryType
      /\ first.slot = Value(f) /\ first.before = d[Value(f)] /\ first.joined = FALSE
      /\ second.slot = Value(g) /\ second.before = d[Value(g)]
  BY <1>2, EntryTyped DEF Entry
<1>4. h' = PushHistory(half, second) /\ doc' = Reapply(d, <<first, second>>) /\ row' = NoRow
  BY DEF SwapData
<1> HIDE DEF first, second, l, d
<1>5. /\ mid \in Content /\ \A slot \in Slots : slot # first.slot => mid[slot] = d[slot]
  BY <1>1, <1>2, <1>3 DEF Applied, Content, EntryType
<1>6. /\ half \in HistoryType /\ half.position > 0
  <2>1. half \in HistoryType /\ half.position = l.position + 1
    BY <1>1, <1>3, PushTyped
  <2>2. l.position \in Nat
    BY <1>1 DEF HistoryType
  <2> QED BY <2>1, <2>2
<1>7. Free(l.entries, l.position, first.slot) => first.before = base[first.slot]
  BY <1>1, <1>2, <1>3 DEF State, Rooted
<1> HIDE DEF mid
<1>8. State(base, half, mid, NoRow)
  BY <1>1, <1>3, <1>5, <1>7, PushState
<1>9. to \in Content /\ \A slot \in Slots : slot # second.slot => to[slot] = mid[slot]
  BY <1>3, <1>5 DEF Applied, Content, EntryType
<1> HIDE DEF half
<1>10. Free(half.entries, half.position, second.slot) => second.before = base[second.slot]
  BY <1>2, <1>3, <1>5, <1>8 DEF State, Rooted
<1> HIDE DEF to
<1>11. State(base, PushHistory(half, second), to, NoRow)
  BY <1>3, <1>5, <1>6, <1>8, <1>9, <1>10, PushState
<1>12. doc' = to
  BY <1>1, <1>3, <1>4, ReapplyTwo DEF to, mid
<1> QED BY <1>4, <1>11, <1>12

\* The position moves: an undo brings every slot it touches back to what it
\* held before, which for the first entry of a slot is what was opened.
LEMMA MovedRow ==
  ASSUME NEW b, NEW l \in HistoryType, NEW w, RowRooted(b, l, w), NEW new, new.entries = l.entries,
         new.position \in Nat,
         NEW from \in Nat, NEW to \in Nat, to <= Len(l.entries), NEW rows, from <= to,
         from <= new.position, l.position <= to,
         w \in KeptRows(rows, SubSeq(l.entries, from + 1, to))
  PROVE  RowRooted(b, new, w)
<1> DEFINE s == SubSeq(l.entries, from + 1, to)
<1> SUFFICES ASSUME w # NoRow,
                    \A i \in 1 .. new.position : i # w.index => l.entries[i].slot # Value(w.field)
             PROVE  w.before = b[Value(w.field)]
  BY DEF RowRooted
<1>1. s \in Seq(EntryType) /\ Len(s) = to - from /\ \A i \in 1 .. to - from : s[i] = l.entries[from + i]
  <2>1. from \in 0 .. Len(l.entries) /\ to \in from .. Len(l.entries) /\ l.entries \in Seq(EntryType)
    BY HistoryIs
  <2> QED BY <2>1, SplitAt
<1>2. \A i \in 1 .. to - from : s[i].slot # Value(w.field)
  <2>1. \A i \in DOMAIN s : s[i].slot # Value(w.field)
    BY DEF KeptRows
  <2>2. DOMAIN s = 1 .. Len(s)
    BY <1>1
  <2> HIDE DEF s
  <2> QED BY <1>1, <2>1, <2>2
<1>3. \A i \in from + 1 .. to : l.entries[i].slot # Value(w.field)
  <2> SUFFICES ASSUME NEW i \in from + 1 .. to PROVE l.entries[i].slot # Value(w.field)
    OBVIOUS
  <2>1. i - from \in 1 .. to - from /\ from + (i - from) = i
    OBVIOUS
  <2> HIDE DEF s
  <2> QED BY <1>1, <1>2, <2>1
<1>4. \A i \in 1 .. l.position : i # w.index => l.entries[i].slot # Value(w.field)
  <2> SUFFICES ASSUME NEW i \in 1 .. l.position, i # w.index PROVE l.entries[i].slot # Value(w.field)
    OBVIOUS
  <2>1. i \in 1 .. new.position \/ i \in from + 1 .. to
    BY HistoryIs
  <2> QED BY <1>3, <2>1
<1> QED BY <1>4 DEF RowRooted

LEMMA UndoneRooted ==
  ASSUME NEW b, NEW l \in HistoryType, NEW d, Rooted(b, l, d), NEW new, new.entries = l.entries,
         new.position \in 0 .. l.position
  PROVE  Rooted(b, new, Revert(d, SubSeq(l.entries, new.position + 1, l.position)))
<1> DEFINE stop == new.position
           n == l.position
           s == SubSeq(l.entries, stop + 1, n)
<1>1. /\ n \in Nat /\ stop \in Nat /\ stop <= n /\ n <= Len(l.entries) /\ Len(l.entries) \in Nat
      /\ l.entries \in Seq(EntryType)
  BY HistoryIs
<1>2. s \in Seq(EntryType) /\ Len(s) = n - stop /\ \A i \in 1 .. n - stop : s[i] = l.entries[stop + i]
  <2>1. stop \in 0 .. Len(l.entries) /\ n \in stop .. Len(l.entries)
    BY <1>1
  <2> HIDE DEF stop, n
  <2> QED BY <1>1, <2>1, SplitAt
<1> HIDE DEF s, stop, n
<1>3. ASSUME NEW slot \in Slots, Free(l.entries, stop, slot) PROVE Revert(d, s)[slot] = b[slot]
  <2>1. CASE Untouched(s, slot)
    <3>1. Free(l.entries, n, slot)
      <4> SUFFICES ASSUME NEW i \in 1 .. n PROVE l.entries[i].slot # slot
        BY DEF Free
      <4>1. CASE i \in 1 .. stop
        BY <1>3, <4>1 DEF Free
      <4>2. CASE i > stop
        <5>1. i - stop \in 1 .. n - stop /\ stop + (i - stop) = i
          BY <1>1, <4>2
        <5> QED BY <1>2, <2>1, <5>1 DEF Untouched
      <4> QED BY <1>1, <4>1, <4>2
    <3>2. Revert(d, s)[slot] = d[slot]
      BY <1>2, <2>1, RevertAt
    <3> QED BY <3>1, <3>2 DEF Rooted, n
  <2>2. CASE \E i : FirstOn(s, slot, i)
    <3>1. PICK i : FirstOn(s, slot, i)
      BY <2>2
    <3>2. i \in 1 .. n - stop /\ s[i].slot = slot /\ \A j \in 1 .. n - stop : j < i => s[j].slot # slot
      BY <1>2, <3>1 DEF FirstOn
    <3>3. s[i] = l.entries[stop + i] /\ stop + i \in 1 .. Len(l.entries)
      BY <1>1, <1>2, <3>2
    <3>4. Free(l.entries, stop + i - 1, slot)
      <4> SUFFICES ASSUME NEW k \in 1 .. stop + i - 1 PROVE l.entries[k].slot # slot
        BY DEF Free
      <4>1. CASE k \in 1 .. stop
        BY <1>3, <4>1 DEF Free
      <4>2. CASE k > stop
        <5>1. k - stop \in 1 .. n - stop /\ k - stop < i /\ stop + (k - stop) = k
          BY <1>1, <3>2, <4>2
        <5> QED BY <1>2, <3>2, <5>1
      <4> QED BY <1>1, <3>2, <4>1, <4>2
    <3>5. l.entries[stop + i].before = b[slot]
      <4> DEFINE k == stop + i
      <4>1. k \in 1 .. Len(l.entries) /\ l.entries[k].slot = slot
        BY <3>2, <3>3
      <4>3. Free(l.entries, k - 1, slot)
        <5>1. k - 1 = stop + i - 1
          BY <1>1, <3>2
        <5> HIDE DEF k
        <5> QED BY <3>4, <5>1
      <4> HIDE DEF k
      <4>2. l.entries[k].before = b[slot]
        BY <4>1, <4>3 DEF Rooted
      <4> QED BY <4>2 DEF k
    <3>6. Revert(d, s)[slot] = s[i].before
      BY <1>2, <3>1, RevertAt
    <3> QED BY <3>3, <3>5, <3>6
  <2> QED BY <1>2, <2>1, <2>2, RevertAt
<1> QED BY <1>3 DEF Rooted, s, stop, n

LEMMA RedoneRooted ==
  ASSUME NEW b, NEW l \in HistoryType, NEW d, Rooted(b, l, d), NEW new, new.entries = l.entries,
         new.position \in l.position .. Len(l.entries)
  PROVE  Rooted(b, new, Reapply(d, SubSeq(l.entries, l.position + 1, new.position)))
<1> DEFINE stop == new.position
           n == l.position
           s == SubSeq(l.entries, n + 1, stop)
<1>1. /\ n \in Nat /\ stop \in Nat /\ n <= stop /\ stop <= Len(l.entries) /\ Len(l.entries) \in Nat
      /\ l.entries \in Seq(EntryType)
  BY HistoryIs
<1>2. s \in Seq(EntryType) /\ Len(s) = stop - n /\ \A i \in 1 .. stop - n : s[i] = l.entries[n + i]
  <2>1. n \in 0 .. Len(l.entries) /\ stop \in n .. Len(l.entries)
    BY <1>1
  <2> HIDE DEF stop, n
  <2> QED BY <1>1, <2>1, SplitAt
<1> HIDE DEF s, stop, n
<1>3. ASSUME NEW slot \in Slots, Free(l.entries, stop, slot) PROVE Reapply(d, s)[slot] = b[slot]
  <2>1. Free(l.entries, n, slot)
    BY <1>1, <1>3 DEF Free
  <2>2. Untouched(s, slot)
    <3> SUFFICES ASSUME NEW i \in 1 .. stop - n PROVE s[i].slot # slot
      BY <1>2 DEF Untouched
    <3>1. n + i \in 1 .. stop
      BY <1>1
    <3> QED BY <1>2, <1>3, <3>1 DEF Free
  <2>3. Reapply(d, s)[slot] = d[slot]
    BY <1>2, <2>2, ReapplyAt
  <2> QED BY <2>1, <2>3 DEF Rooted, n
<1> QED BY <1>3 DEF Rooted, s, stop, n

LEMMA UndoKeeps ==
  ASSUME TypeOK, State(base, h, doc, row), Undo
  PROVE  State(base, h', doc', row')
<1> DEFINE l == Flushed.l
           d == Flushed.d
           rows == Flushed.rows
           stop == UndoStop(l)
           entries == SubSeq(l.entries, stop + 1, l.position)
<1>1. l \in HistoryType /\ (\A x \in rows : State(base, l, d, x)) /\ State(base, l, d, NoRow)
  BY FlushedKeeps
<1>2. \/ h' = l /\ doc' = d /\ row' \in rows
      \/ /\ l.position # 0
         /\ h' = [l EXCEPT !.position = stop] /\ doc' = Revert(d, entries)
         /\ row' \in KeptRows(rows, entries)
  BY DEF Undo
<1> HIDE DEF l, d, rows
<1>3. CASE h' = l /\ doc' = d /\ row' \in rows
  BY <1>1, <1>3
<1>4. CASE /\ l.position # 0
           /\ h' = [l EXCEPT !.position = stop] /\ doc' = Revert(d, entries)
           /\ row' \in KeptRows(rows, entries)
  <2>1. l.position \in Nat /\ l.position > 0 /\ l.position <= Len(l.entries) /\ Len(l.entries) \in Nat
    BY <1>1, <1>4, HistoryIs
  <2>2. stop \in 0 .. l.position
    BY <1>1, <2>1, StopsInHistory
  <2>3. Restorable => stop \in 0 .. l.position - 1 /\ (stop = 0 \/ ~l.entries[stop + 1].joined)
    BY <1>1, <2>1, UndoStopIs
  <2> HIDE DEF stop
  <2>4. h'.entries = l.entries /\ h'.position = stop
    BY <1>1, <1>4 DEF HistoryType
  <2>5. Rooted(base, h', doc')
    <3> DEFINE new == h'
    <3>1. new.entries = l.entries /\ new.position \in 0 .. l.position /\ new.position = stop
      BY <2>2, <2>4
    <3> HIDE DEF new
    <3>2. Rooted(base, new, Revert(d, SubSeq(l.entries, new.position + 1, l.position)))
      BY <1>1, <3>1, UndoneRooted DEF State
    <3> QED BY <1>4, <3>1, <3>2 DEF new
  <2>6. Restorable => Whole(h')
    BY <1>1, <2>1, <2>3, <2>4 DEF Whole, State
  <2>7. RowRooted(base, h', row')
    <3> DEFINE new == h'
               w == row'
    <3>1. CASE w = NoRow
      BY <3>1 DEF RowRooted
    <3>2. CASE w # NoRow
      <4>1. w \in rows
        BY <1>4, <3>2 DEF KeptRows
      <4>2. RowRooted(base, l, w)
        BY <1>1, <4>1 DEF State
      <4>3. /\ new.entries = l.entries /\ stop \in Nat /\ l.position \in Nat
            /\ l.position <= Len(l.entries) /\ stop <= l.position /\ new.position \in Nat
            /\ stop <= new.position /\ l.position <= l.position
            /\ w \in KeptRows(rows, SubSeq(l.entries, stop + 1, l.position))
        BY <1>4, <2>1, <2>2, <2>4
      <4> HIDE DEF new, w
      <4>4. l \in HistoryType
        BY <1>1
      <4>5. RowRooted(base, new, w)
        BY <4>2, <4>3, <4>4, MovedRow
      <4> QED BY <4>5 DEF new, w
    <3> QED BY <3>1, <3>2
  <2> QED BY <2>5, <2>6, <2>7 DEF State
<1> QED BY <1>2, <1>3, <1>4

LEMMA RedoKeeps ==
  ASSUME TypeOK, State(base, h, doc, row), Redo
  PROVE  State(base, h', doc', row')
<1> DEFINE l == Flushed.l
           d == Flushed.d
           rows == Flushed.rows
           stop == RedoStop(l)
           entries == SubSeq(l.entries, l.position + 1, stop)
<1>1. l \in HistoryType /\ (\A x \in rows : State(base, l, d, x)) /\ State(base, l, d, NoRow)
  BY FlushedKeeps
<1>2. \/ h' = l /\ doc' = d /\ row' \in rows
      \/ /\ l.position # Len(l.entries)
         /\ h' = [l EXCEPT !.position = stop] /\ doc' = Reapply(d, entries)
         /\ row' \in KeptRows(rows, entries)
  BY DEF Redo
<1> HIDE DEF l, d, rows
<1>3. CASE h' = l /\ doc' = d /\ row' \in rows
  BY <1>1, <1>3
<1>4. CASE /\ l.position # Len(l.entries)
           /\ h' = [l EXCEPT !.position = stop] /\ doc' = Reapply(d, entries)
           /\ row' \in KeptRows(rows, entries)
  <2>1. l.position \in Nat /\ l.position < Len(l.entries) /\ Len(l.entries) \in Nat
    BY <1>1, <1>4, HistoryIs
  <2>2. /\ stop \in l.position + 1 .. Len(l.entries)
        /\ stop = Len(l.entries) \/ ~l.entries[stop + 1].joined
    BY <1>1, <2>1, RedoStopIs
  <2> HIDE DEF stop
  <2>3. h'.entries = l.entries /\ h'.position = stop
    BY <1>1, <1>4 DEF HistoryType
  <2>4. Rooted(base, h', doc')
    <3> DEFINE new == h'
    <3>1. /\ new.entries = l.entries /\ new.position \in l.position .. Len(l.entries)
          /\ new.position = stop
      BY <2>1, <2>2, <2>3
    <3> HIDE DEF new
    <3>2. Rooted(base, new, Reapply(d, SubSeq(l.entries, l.position + 1, new.position)))
      BY <1>1, <3>1, RedoneRooted DEF State
    <3> QED BY <1>4, <3>1, <3>2 DEF new
  <2>5. Restorable => Whole(h')
    BY <1>1, <2>1, <2>2, <2>3 DEF Whole, State
  <2>6. RowRooted(base, h', row')
    <3> DEFINE new == h'
               w == row'
    <3>1. CASE w = NoRow
      BY <3>1 DEF RowRooted
    <3>2. CASE w # NoRow
      <4>1. w \in rows
        BY <1>4, <3>2 DEF KeptRows
      <4>2. RowRooted(base, l, w)
        BY <1>1, <4>1 DEF State
      <4>3. /\ new.entries = l.entries /\ stop \in Nat /\ l.position \in Nat
            /\ stop <= Len(l.entries) /\ l.position <= stop /\ new.position \in Nat
            /\ l.position <= new.position
            /\ w \in KeptRows(rows, SubSeq(l.entries, l.position + 1, stop))
        BY <1>4, <2>1, <2>2, <2>3
      <4> HIDE DEF new, w
      <4>4. l \in HistoryType
        BY <1>1
      <4>5. RowRooted(base, new, w)
        BY <4>2, <4>3, <4>4, MovedRow
      <4> QED BY <4>5 DEF new, w
    <3> QED BY <3>1, <3>2
  <2> QED BY <2>4, <2>5, <2>6 DEF State
<1> QED BY <1>2, <1>3, <1>4

(***************************************************************************)
(* Every step, and the theorems.                                           *)
(***************************************************************************)
LEMMA InitKept == Init => State(base, h, doc, row)
<1> SUFFICES ASSUME Init PROVE State(base, h, doc, row)
  OBVIOUS
<1>1. h.entries = <<>> /\ h.position = 0 /\ doc = base /\ row = NoRow
  BY DEF Init
<1>2. Len(h.entries) = 0
  BY <1>1
<1> QED BY <1>1, <1>2 DEF State, Rooted, RowRooted, Whole

LEMMA LoadKept ==
  ASSUME NEW v \in Start, NEW adjusted \in BOOLEAN, Load(v, adjusted)
  PROVE  State(base', h', doc', row')
<1>1. h'.entries = <<>> /\ h'.position = 0 /\ doc' = base' /\ row' = NoRow
  BY DEF Load
<1>2. Len(h'.entries) = 0
  BY <1>1
<1> QED BY <1>1, <1>2 DEF State, Rooted, RowRooted, Whole

\* A field that is focused holds what it held when nothing was typed yet.
LEMMA FocusKeeps ==
  ASSUME TypeOK, State(base, h, doc, row), NEW f \in TextFields, FocusRow(f)
  PROVE  State(base, h', doc', row')
<1>1. h' = h /\ doc' = doc /\ row'.field = f /\ row'.index = 0 /\ row'.before = doc[Value(f)]
  BY DEF FocusRow
<1>2. Value(f) \in Slots /\ h \in HistoryType
  BY SlotsOfFields, EditAssumption DEF TypeOK
<1>3. RowRooted(base, h, row')
  <2> SUFFICES ASSUME \A i \in 1 .. h.position : i # 0 => h.entries[i].slot # Value(f)
               PROVE  doc[Value(f)] = base[Value(f)]
    BY <1>1 DEF RowRooted
  <2>1. Free(h.entries, h.position, Value(f))
    BY <1>2, HistoryIs DEF Free
  <2> QED BY <1>2, <2>1 DEF State, Rooted
<1> QED BY <1>1, <1>3 DEF State

LEMMA NextKept ==
  TypeOK /\ State(base, h, doc, row) /\ [Next]_vars => State(base, h, doc, row)'
<1> SUFFICES ASSUME TypeOK, State(base, h, doc, row), [Next]_vars
             PROVE  State(base', h', doc', row')
  OBVIOUS
<1>1. CASE LeaveRow \/ ActivateRow
  BY <1>1 DEF LeaveRow, ActivateRow, State, RowRooted
<1>2. CASE \E f \in TextFields : FocusRow(f)
  BY <1>2, FocusKeeps DEF FocusRow
<1>3. CASE \E v \in Values : TypeText(v)
  BY <1>3, TypeTextKeeps DEF TypeText
<1>4. CASE \E f \in Fields, v \in Values : Choose(f, v) \/ ChangeUnfocused(f, v)
  BY <1>4, ChangeKeeps DEF Choose, ChangeUnfocused, Change
<1>5. CASE \E g \in Values : ChangeGroups(g)
  BY <1>5, ChangeGroupsKeeps DEF ChangeGroups
<1>6. CASE \E f, g \in Fields \ (LayoutFields \cup TypeFields) : SwapData(f, g)
  BY <1>6, SwapDataKeeps DEF SwapData
<1>7. CASE Refresh \/ PrepareOutput
  <2>1. h' = Flushed.l /\ doc' = Flushed.d /\ row' \in Flushed.rows /\ base' = base
    BY <1>7 DEF Refresh, PrepareOutput
  <2> QED BY <2>1, FlushedKeeps
<1>8. CASE Undo
  BY <1>8, UndoKeeps DEF Undo
<1>9. CASE Redo
  BY <1>9, RedoKeeps DEF Redo
<1>10. CASE StartSave
  <2> DEFINE l == Flushed.l
  <2>1. /\ h' = [l EXCEPT !.matches = TRUE] /\ doc' = Flushed.d /\ row' \in Flushed.rows
        /\ base' = base
    BY <1>10 DEF StartSave
  <2>2. l \in HistoryType /\ State(base, l, Flushed.d, row')
    BY <2>1, FlushedKeeps
  <2> HIDE DEF l
  <2>3. h'.entries = l.entries /\ h'.position = l.position
    BY <2>1, <2>2 DEF HistoryType
  <2> QED BY <2>1, <2>2, <2>3 DEF State, Rooted, RowRooted, Whole
<1>11. CASE Written \/ WriteFailed
  <2>1. h'.entries = h.entries /\ h'.position = h.position /\ UNCHANGED <<doc, row, base>>
    BY <1>11 DEF Written, WriteFailed, TypeOK, HistoryType
  <2> QED BY <2>1 DEF State, Rooted, RowRooted, Whole
<1>12. CASE \E v \in Start, adjusted \in BOOLEAN : Load(v, adjusted)
  BY <1>12, LoadKept
<1>13. CASE UNCHANGED vars
  BY <1>13 DEF vars
<1> QED BY <1>1, <1>2, <1>3, <1>4, <1>5, <1>6, <1>7, <1>8, <1>9, <1>10, <1>11, <1>12, <1>13 DEF Next, Edit

LEMMA StateHolds == Spec => [](TypeOK /\ State(base, h, doc, row))
<1>1. Init => TypeOK /\ State(base, h, doc, row)
  BY InitTyped, InitKept
<1>2. (TypeOK /\ State(base, h, doc, row)) /\ [Next]_vars => (TypeOK /\ State(base, h, doc, row))'
  BY NextTyped, NextKept
<1> QED BY <1>1, <1>2, PTL DEF Spec

\* In every window, undoing everything gives back the EDID that was opened:
\* whatever later entries hold, the first entry of a value starts from the one
\* that was opened (wnd_record_edit_history, wnd_apply_history).
THEOREM AllUndoneIsOpened == Spec => []UndoneIsOpened
<1>1. TypeOK /\ State(base, h, doc, row) => UndoneIsOpened
  <2> SUFFICES ASSUME TypeOK, State(base, h, doc, row), h.position = 0 PROVE doc = base
    BY DEF UndoneIsOpened
  <2>1. doc \in Content /\ base \in Content
    BY DEF TypeOK
  <2>2. \A slot \in Slots : doc[slot] = base[slot]
    BY DEF State, Rooted, Free
  <2> QED BY <2>1, <2>2, SameContent
<1> QED BY <1>1, StateHolds, PTL

\* Undo and redo never come to rest between two joined entries, in every window
\* of fields that can all be written again (wnd_apply_history).
THEOREM JoinedStayTogether ==
  ASSUME Restorable
  PROVE  Spec => []NeverBetweenJoined
<1>1. State(base, h, doc, row) => NeverBetweenJoined
  BY DEF State, Whole, NeverBetweenJoined
<1> QED BY <1>1, StateHolds, PTL

(***************************************************************************)
(* The two entries of Make Preferred stay together.                        *)
(***************************************************************************)
Halves(s, p) == {i \in 1 .. p : s[i].kind = "data"}

Even(s, p) == Cardinality(Halves(s, p)) % 2 = 0

\* Wherever the position may come to rest, both halves lie on the same side.
Paired(s) == \A p \in 0 .. Len(s) : (p = Len(s) \/ ~s[p + 1].joined) => Even(s, p)

LEMMA HalvesNone == ASSUME NEW s PROVE Even(s, 0)
<1>1. Halves(s, 0) = {}
  BY DEF Halves
<1> QED BY <1>1, FS_EmptySet DEF Even

LEMMA HalvesNext ==
  ASSUME NEW s, NEW p \in Nat \ {0}
  PROVE  /\ Cardinality(Halves(s, p - 1)) \in Nat
         /\ s[p].kind # "data" => (Even(s, p) <=> Even(s, p - 1))
         /\ s[p].kind = "data" => (Even(s, p) <=> ~Even(s, p - 1))
<1> DEFINE H == Halves(s, p - 1)
           n == Cardinality(H)
<1>1. IsFiniteSet(H)
  <2>1. IsFiniteSet(1 .. p - 1)
    BY FS_Interval
  <2> QED BY <2>1, FS_Subset DEF Halves
<1>2. n \in Nat
  BY <1>1, FS_CardinalityType
<1>3. s[p].kind # "data" => Halves(s, p) = H
  BY DEF Halves
<1>4. s[p].kind = "data" => Halves(s, p) = H \cup {p} /\ p \notin H
  BY DEF Halves
<1>5. s[p].kind = "data" => Cardinality(Halves(s, p)) = n + 1
  <2> HIDE DEF H
  <2> QED BY <1>1, <1>4, FS_AddElement
<1> HIDE DEF n, H
<1>6. (n + 1) % 2 = 0 <=> ~(n % 2 = 0)
  BY <1>2
<1> QED BY <1>2, <1>3, <1>5, <1>6 DEF Even, n, H

LEMMA HalvesPast ==
  ASSUME NEW s \in Seq(EntryType), NEW t \in Seq(EntryType), NEW n \in Nat,
         SamePast(s, t, n), NEW p \in 0 .. n
  PROVE  Even(s, p) <=> Even(t, p)
<1>1. \A i \in 1 .. n : s[i] = t[i]
  BY SamePastEntries
<1>2. Halves(s, p) = Halves(t, p)
  BY <1>1 DEF Halves
<1> QED BY <1>2 DEF Even

LEMMA PositionIsEven ==
  ASSUME NEW l \in HistoryType, Paired(l.entries), Whole(l)
  PROVE  Even(l.entries, l.position)
<1>1. l.position \in 0 .. Len(l.entries) /\ Len(l.entries) \in Nat
  BY LenProperties DEF HistoryType
<1>2. (l.position = Len(l.entries)) \/ ~l.entries[l.position + 1].joined
  BY <1>1 DEF Whole
<1> QED BY <1>1, <1>2 DEF Paired

LEMMA PushEntries ==
  ASSUME NEW l \in HistoryType, NEW entry \in EntryType, NEW n, n = l.position
  PROVE  LET t == PushHistory(l, entry).entries
         IN  /\ t \in Seq(EntryType) /\ Len(t) = n + 1 /\ t[n + 1] = entry
             /\ PushHistory(l, entry).position = n + 1
             /\ l.entries \in Seq(EntryType) /\ n \in Nat
             /\ n <= Len(l.entries) /\ Len(l.entries) \in Nat
<1>1. /\ PushHistory(l, entry) \in HistoryType
      /\ PushHistory(l, entry).position = n + 1
      /\ Len(PushHistory(l, entry).entries) = PushHistory(l, entry).position
      /\ PushHistory(l, entry).entries[PushHistory(l, entry).position] = entry
  BY PushTyped
<1>2. /\ l.entries \in Seq(EntryType) /\ n \in Nat /\ n <= Len(l.entries)
      /\ Len(l.entries) \in Nat
  BY LenProperties DEF HistoryType
<1>3. PushHistory(l, entry).entries \in Seq(EntryType)
  BY <1>1 DEF HistoryType
<1> QED BY <1>1, <1>2, <1>3

LEMMA PushPaired ==
  ASSUME NEW l \in HistoryType, Paired(l.entries), Whole(l),
         NEW entry \in EntryType, entry.kind # "data"
  PROVE  Paired(PushHistory(l, entry).entries)
<1> DEFINE t == PushHistory(l, entry).entries
           s == l.entries
           n == l.position
<1>1. /\ t \in Seq(EntryType) /\ Len(t) = n + 1 /\ t[n + 1] = entry
      /\ s \in Seq(EntryType) /\ n \in Nat
      /\ n <= Len(s) /\ Len(s) \in Nat
  BY PushEntries
<1>2. SamePast(s, t, n)
  BY PushKeeps
<1>3. Even(s, n)
  BY PositionIsEven
<1> HIDE DEF t, s, n
<1>4. ASSUME NEW p \in 0 .. Len(t), (p = Len(t)) \/ ~t[p + 1].joined
      PROVE  Even(t, p)
  <2>1. CASE p = n + 1
    <3>1. n + 1 \in Nat \ {0} /\ (n + 1) - 1 = n
      BY <1>1
    <3>2. Even(t, n)
      <4>1. n \in 0 .. n
        BY <1>1
      <4> QED BY <1>1, <1>2, <1>3, <4>1, HalvesPast
    <3> DEFINE m == n + 1
    <3>3. m \in Nat \ {0} /\ m - 1 = n /\ t[m].kind # "data"
      BY <1>1, <3>1
    <3> HIDE DEF m
    <3>4. Even(t, m)
      BY <3>2, <3>3, HalvesNext
    <3> QED BY <2>1, <3>4 DEF m
  <2>2. CASE p = n
    <3>1. n \in 0 .. n
      BY <1>1
    <3> QED BY <1>1, <1>2, <1>3, <2>2, <3>1, HalvesPast
  <2>3. CASE p # n + 1 /\ p # n
    <3>1. p \in 0 .. n /\ p + 1 \in 1 .. n /\ p \in 0 .. Len(s) /\ p # Len(t)
      BY <1>1, <2>3
    <3>2. s[p + 1] = t[p + 1]
      BY <1>1, <1>2, <3>1, SamePastEntries
    <3>3. Even(s, p)
      BY <1>4, <3>1, <3>2 DEF Paired, s
    <3> QED BY <1>1, <1>2, <3>1, <3>3, HalvesPast
  <2> QED BY <2>1, <2>2, <2>3
<1> QED BY <1>4 DEF Paired, t

LEMMA PairPaired ==
  ASSUME NEW l \in HistoryType, Paired(l.entries), Whole(l),
         NEW first \in EntryType, first.kind = "data",
         NEW second \in EntryType, second.kind = "data", second.joined
  PROVE  Paired(PushHistory(PushHistory(l, first), second).entries)
<1> DEFINE half == PushHistory(l, first)
           t == PushHistory(half, second).entries
           s == l.entries
           n == l.position
           m == n + 1
           k == n + 2
<1>1. /\ half \in HistoryType /\ half.position = m /\ Len(half.entries) = m
      /\ half.entries \in Seq(EntryType) /\ half.entries[m] = first
      /\ s \in Seq(EntryType) /\ n \in Nat /\ n <= Len(s) /\ Len(s) \in Nat
  <2>1. half \in HistoryType
    BY PushTyped
  <2>2. /\ half.position = m /\ Len(half.entries) = m
        /\ half.entries \in Seq(EntryType) /\ half.entries[m] = first
        /\ s \in Seq(EntryType) /\ n \in Nat /\ n <= Len(s) /\ Len(s) \in Nat
    BY PushEntries
  <2> QED BY <2>1, <2>2
<1>2. /\ t \in Seq(EntryType) /\ Len(t) = k /\ t[k] = second
      /\ SamePast(half.entries, t, m)
  <2> HIDE DEF half
  <2>1. t \in Seq(EntryType) /\ Len(t) = m + 1 /\ t[m + 1] = second
    BY <1>1, PushEntries
  <2>2. m + 1 = k
    BY <1>1
  <2>3. SamePast(half.entries, t, half.position)
    BY <1>1, PushKeeps
  <2> HIDE DEF t
  <2> QED BY <1>1, <2>1, <2>2, <2>3
<1>3. SamePast(s, half.entries, n)
  BY PushKeeps
<1>4. Even(s, n)
  BY PositionIsEven
<1> HIDE DEF half, t, s
<1>5. /\ n \in 0 .. m /\ m \in 1 .. m /\ m \in Nat \ {0} /\ k \in Nat \ {0}
      /\ m - 1 = n /\ k - 1 = m /\ n \in 0 .. n /\ m \in Nat
  BY <1>1, SMTT(60)
<1>6. SamePast(half.entries, t, n)
  BY <1>1, <1>2, <1>5, SamePastEntries
<1>7. SamePast(s, t, n)
  BY <1>1, <1>3, <1>6, SamePastAgain
<1>8. t[m] = first
  <2> HIDE DEF m, k
  <2>1. half.entries[m] = t[m]
    BY <1>1, <1>2, <1>5, SamePastEntries
  <2> QED BY <1>1, <2>1
<1>9. Even(t, n)
  BY <1>1, <1>2, <1>4, <1>5, <1>7, HalvesPast
<1> HIDE DEF m, k
<1>10. ~Even(t, m)
  BY <1>5, <1>8, <1>9, HalvesNext
<1>11. Even(t, k)
  BY <1>2, <1>5, <1>10, HalvesNext
<1>12. ASSUME NEW p \in 0 .. k, (p = k) \/ ~t[p + 1].joined
       PROVE  Even(t, p)
  <2>1. CASE p = k
    BY <1>11, <2>1
  <2>2. CASE p = m
    BY <1>2, <1>5, <1>12, <2>2 DEF m, k
  <2>3. CASE p = n
    BY <1>9, <2>3
  <2>4. CASE p # k /\ p # m /\ p # n
    <3>1. p \in 0 .. n /\ p + 1 \in 1 .. n /\ p \in 0 .. Len(s)
      BY <1>1, <2>4 DEF m, k
    <3>2. s[p + 1] = t[p + 1]
      BY <1>1, <1>2, <1>7, <3>1, SamePastEntries
    <3>3. Even(s, p)
      BY <1>12, <2>4, <3>1, <3>2 DEF Paired, s
    <3> QED BY <1>1, <1>2, <1>7, <3>1, <3>3, HalvesPast
  <2> QED BY <2>1, <2>2, <2>3, <2>4
<1>13. Paired(t)
  BY <1>2, <1>12 DEF Paired
<1> QED BY <1>13 DEF t, half

LEMMA BackPaired ==
  ASSUME NEW l \in HistoryType, Paired(l.entries), l.position > 0,
         l.position = Len(l.entries), l.entries[l.position].kind # "data"
  PROVE  Paired(SubSeq(l.entries, 1, l.position - 1))
<1> DEFINE s == l.entries
           n == l.position
           m == n - 1
           t == SubSeq(s, 1, m)
<1>1. /\ s \in Seq(EntryType) /\ Len(s) = n /\ n \in Nat \ {0} /\ m \in Nat
      /\ m \in 0 .. Len(s) /\ n \in 0 .. Len(s)
      /\ s[n].kind # "data"
  BY LenProperties DEF HistoryType
<1>2. t \in Seq(EntryType) /\ Len(t) = m /\ SamePast(s, t, m)
  <2>1. m \in m .. Len(s)
    BY <1>1
  <2> QED BY <1>1, <2>1, SplitAt, SamePastDropped
<1>3. Even(s, m)
  <2>1. Even(s, n)
    BY <1>1 DEF Paired
  <2> QED BY <1>1, <2>1, HalvesNext
<1> HIDE DEF t
<1>4. ASSUME NEW p \in 0 .. m, (p = m) \/ ~t[p + 1].joined
      PROVE  Even(t, p)
  <2>1. Even(s, p)
    <3>1. CASE p = m
      BY <1>3, <3>1
    <3>2. CASE p # m
      <4>1. p + 1 \in 1 .. m /\ p \in 0 .. Len(s)
        BY <1>1, <3>2
      <4>2. s[p + 1] = t[p + 1]
        BY <1>1, <1>2, <4>1, SamePastEntries
      <4> QED BY <1>4, <3>2, <4>1, <4>2 DEF Paired
    <3> QED BY <3>1, <3>2
  <2> HIDE DEF m
  <2> QED BY <1>1, <1>2, <2>1, HalvesPast
<1>5. Paired(t)
  BY <1>2, <1>4 DEF Paired
<1> QED BY <1>5 DEF t

LEMMA FlushPaired ==
  ASSUME NEW l \in HistoryType, NEW d \in Content, NEW r \in RefreshType,
         NEW w \in RowType, Paired(l.entries), Whole(l)
  PROVE  Paired(Flush(l, d, r, w).l.entries)
<1> DEFINE new == Flush(l, d, r, w).l
           undone == [l EXCEPT !.position = @ - 1]
<1>1. \/ new \in FlushResults(l, r)
      \/ r # NoRefresh /\ JoinsLast(l, r) /\ new = DropHistory(undone, l.position - 1)
  BY FlushTyped
<1>2. r = NoRefresh => new = l
  BY DEF Flush, RebuildOutcome
<1> HIDE DEF new
<1>3. CASE new = l
  BY <1>3 DEF new
<1>4. CASE /\ r # NoRefresh
           /\ \E before \in Values, after \in Values, joined \in BOOLEAN :
                new = PushHistory(l, Entry("replace", Built(r.field), before, after, joined))
  <2>1. PICK before \in Values, after \in Values, joined \in BOOLEAN :
          new = PushHistory(l, Entry("replace", Built(r.field), before, after, joined))
    BY <1>4
  <2> DEFINE entry == Entry("replace", Built(r.field), before, after, joined)
  <2>2. Built(r.field) \in Slots
    BY <1>4, SlotsOfFields DEF RefreshType
  <2>3. entry \in EntryType /\ entry.kind # "data"
    BY <2>2, EntryTyped DEF Entry
  <2> HIDE DEF entry
  <2>4. Paired(PushHistory(l, entry).entries)
    BY <2>3, PushPaired
  <2> QED BY <2>1, <2>4 DEF entry, new
<1>5. CASE r # NoRefresh /\ JoinsLast(l, r) /\ new = DropHistory(undone, l.position - 1)
  <2>1. /\ l.position > 0 /\ l.position = Len(l.entries)
        /\ l.entries[l.position].kind # "data"
    BY <1>5 DEF JoinsLast
  <2>2. undone.entries = l.entries
    BY DEF HistoryType
  <2> HIDE DEF undone
  <2>3. new.entries = SubSeq(l.entries, 1, l.position - 1)
    BY <1>5, <2>2, DropFields
  <2> QED BY <2>1, <2>3, BackPaired DEF new
<1> QED BY <1>1, <1>2, <1>3, <1>4, <1>5 DEF FlushResults

LEMMA CoalescedPaired ==
  ASSUME h \in HistoryType, Paired(h.entries), CanCoalesce, NEW v \in Values
  PROVE  Paired(Coalesced(v).l.entries)
<1> DEFINE n == h.position
           s == h.entries
           t == Coalesced(v).l.entries
<1>1. /\ n > 0 /\ n \in Nat /\ n = Len(s) /\ n \in 1 .. Len(s) /\ s \in Seq(EntryType)
      /\ s[n].kind = "field"
  BY HistoryIs DEF CanCoalesce, NewestOfRow
<1>2. CASE s[n].before = v
  <2>1. t = SubSeq(h.entries, 1, h.position - 1)
    BY <1>2 DEF Coalesced
  <2> HIDE DEF t
  <2> QED BY <1>1, <2>1, BackPaired DEF t
<1>3. CASE s[n].before # v
  <2>1. Coalesced(v).l = [h EXCEPT !.entries[n].after = v]
    BY <1>3 DEF Coalesced
  <2>2. t = [s EXCEPT ![n].after = v]
    BY <2>1 DEF HistoryType
  <2>3. Len(t) = Len(s)
    <3> HIDE DEF t
    <3> QED BY <1>1, <2>2
  <2>4. ASSUME NEW i \in 1 .. Len(s) PROVE t[i].kind = s[i].kind /\ t[i].joined = s[i].joined
    <3>1. s[i] \in EntryType
      BY HistoryIs
    <3>2. t[i] = IF i = n THEN [s[i] EXCEPT !.after = v] ELSE s[i]
      <4> HIDE DEF t
      <4> QED BY <1>1, <2>2
    <3> HIDE DEF t, s
    <3> QED BY <3>1, <3>2 DEF EntryType
  <2> HIDE DEF t, s
  <2>5. ASSUME NEW p \in 0 .. Len(s) PROVE Even(t, p) <=> Even(s, p)
    <3>1. \A i \in 1 .. p : i \in 1 .. Len(s)
      BY <1>1
    <3>2. Halves(t, p) = Halves(s, p)
      BY <2>4, <3>1 DEF Halves
    <3> QED BY <3>2 DEF Even
  <2>6. ASSUME NEW p \in 0 .. Len(t), (p = Len(t)) \/ ~t[p + 1].joined PROVE Even(t, p)
    <3>1. p = Len(s) \/ p + 1 \in 1 .. Len(s)
      BY <1>1, <2>3
    <3>2. p = Len(s) \/ ~s[p + 1].joined
      BY <2>3, <2>4, <2>6, <3>1
    <3>3. Even(s, p)
      BY <2>3, <2>6, <3>2 DEF Paired, s
    <3> QED BY <2>3, <2>5, <3>3
  <2> QED BY <2>6 DEF Paired, t
<1> QED BY <1>2, <1>3

LEMMA RecordedPaired ==
  ASSUME TypeOK, row # NoRow, Paired(h.entries), Whole(h), NEW v \in Values
  PROVE  Paired(Recorded(v).l.entries)
<1> DEFINE before == IF row.index = 0 THEN row.before ELSE doc[Value(row.field)]
           entry == Entry("field", Value(row.field), before, v, FALSE)
<1>1. /\ h \in HistoryType /\ doc \in Content
      /\ row \in [field : TextFields, index : Nat, before : Values]
  BY DEF TypeOK, RowType
<1>2. Value(row.field) \in Slots /\ before \in Values
  BY <1>1, SlotsOfFields, EditAssumption DEF Content
<1>3. entry \in EntryType /\ entry.kind # "data"
  BY <1>2, EntryTyped DEF Entry
<1>4. Recorded(v).l = h \/ Recorded(v).l = PushHistory(h, entry)
  BY DEF Recorded
<1> HIDE DEF entry
<1> QED BY <1>1, <1>3, <1>4, PushPaired

\* A write that asks for a rebuild may flush the one waiting for another field.
LEMMA RequestPaired ==
  ASSUME TypeOK, NEW l, NEW d, NEW w, RequestState(l, d, w), Restorable, Paired(l.entries),
         NEW f, NEW typeChanged, NEW now, RequestRefresh(l, d, w, f, typeChanged, now)
  PROVE  Paired(h'.entries)
<1>1. h' = l \/ h' = Flush(l, d, refresh, w).l
  BY DEF RequestRefresh
<1>2. /\ refresh \in RefreshType /\ l \in HistoryType /\ d \in Content /\ w \in RowType
      /\ Whole(l)
  BY DEF TypeOK, RequestState, State
<1>3. Paired(Flush(l, d, refresh, w).l.entries)
  BY <1>2, FlushPaired
<1> QED BY <1>1, <1>3

PairInv ==
  /\ Paired(h.entries)
  /\ Even(savedPrefix, Len(savedPrefix))
  /\ SavePending => Even(write.prefix, Len(write.prefix))

Kept == TypeOK /\ State(base, h, doc, row)

LEMMA EditedPairs ==
  ASSUME Restorable, Kept, Paired(h.entries),
         \/ \E v \in Values : TypeText(v)
         \/ \E f \in Fields, v \in Values : Choose(f, v) \/ ChangeUnfocused(f, v)
  PROVE  Paired(h'.entries)
<1>0. /\ TypeOK /\ State(base, h, doc, row) /\ h \in HistoryType /\ Whole(h) /\ doc \in Content
      /\ row \in RowType
  BY DEF Kept, State, TypeOK
<1>1. ASSUME NEW v \in Values, TypeText(v) PROVE Paired(h'.entries)
  <2> DEFINE typed == IF CanCoalesce THEN Coalesced(v) ELSE Recorded(v)
             to == [doc EXCEPT ![Value(row.field)] = v]
             x == [row EXCEPT !.index = typed.index]
  <2>1. /\ row # NoRow /\ v # doc[Value(row.field)]
        /\ row \in [field : TextFields, index : Nat, before : Values]
    BY <1>0, <1>1 DEF TypeText, RowType
  <2>2. Value(row.field) \in Slots
    BY <2>1, SlotsOfFields, EditAssumption
  <2>3. /\ to \in Content /\ to[Value(row.field)] = v
        /\ \A slot \in Slots : slot # Value(row.field) => to[slot] = doc[slot]
    BY <1>0, <2>2 DEF Content
  <2>4. RequestRefresh(typed.l, to, x, row.field, row.field \in TypeFields /\ v \in Retyping, FALSE)
    BY <1>1 DEF TypeText
  <2> HIDE DEF to
  <2>5. typed.l \in HistoryType /\ typed.index \in Nat
    BY <1>0, <2>1, CoalescedTyped, RecordedTyped
  <2>6. State(base, typed.l, to, x)
    <3>1. CASE CanCoalesce
      BY <1>0, <2>1, <2>3, <3>1, CoalescedKeeps
    <3>2. CASE ~CanCoalesce
      BY <1>0, <2>1, <2>3, <3>2, RecordedKeeps
    <3> QED BY <3>1, <3>2
  <2>7. Paired(typed.l.entries)
    <3>1. CASE CanCoalesce
      BY <1>0, <3>1, CoalescedPaired
    <3>2. CASE ~CanCoalesce
      BY <1>0, <2>1, <3>2, RecordedPaired
    <3> QED BY <3>1, <3>2
  <2> HIDE DEF typed
  <2>8. x \in RowType
    BY <2>1, <2>5 DEF RowType
  <2> HIDE DEF x
  <2>9. RequestState(typed.l, to, x)
    BY <2>3, <2>5, <2>6, <2>8 DEF RequestState
  <2> QED BY <1>0, <2>4, <2>7, <2>9, RequestPaired
<1>2. ASSUME NEW f \in Fields, NEW v \in Values, NEW now, Change(f, v, now)
      PROVE  Paired(h'.entries)
  <2> DEFINE entry == Entry("field", Value(f), doc[Value(f)], v, FALSE)
             d == [doc EXCEPT ![Value(f)] = v]
             l == PushHistory(h, entry)
  <2>1. doc[Value(f)] \in Values /\ Value(f) \in Slots
    BY <1>0, SlotsOfFields DEF Content
  <2>2. /\ entry \in EntryType /\ entry.kind # "data"
        /\ entry.slot = Value(f) /\ entry.before = doc[Value(f)] /\ entry.joined = FALSE
    BY <2>1, EntryTyped DEF Entry
  <2>3. d \in Content /\ \A slot \in Slots : slot # Value(f) => d[slot] = doc[slot]
    BY <1>0, <2>1 DEF Content
  <2>4. RequestRefresh(l, d, row, f, f \in TypeFields /\ v \in Retyping, now)
    BY <1>2 DEF Change
  <2>5. row = NoRow \/ Value(row.field) # Value(f)
    BY <1>2 DEF Change, Value
  <2> HIDE DEF entry, d
  <2>6. Free(h.entries, h.position, entry.slot) => entry.before = base[entry.slot]
    BY <1>0, <2>1, <2>2 DEF State, Rooted
  <2>7. State(base, PushHistory(h, entry), d, row)
    BY <1>0, <2>2, <2>3, <2>5, <2>6, PushState
  <2>8. PushHistory(h, entry) \in HistoryType
    BY <1>0, <2>2, PushTyped
  <2>9. Paired(l.entries)
    BY <1>0, <2>2, PushPaired
  <2>10. RequestState(l, d, row)
    BY <1>0, <2>3, <2>7, <2>8 DEF RequestState
  <2> HIDE DEF l
  <2> QED BY <1>0, <2>4, <2>9, <2>10, RequestPaired
<1> QED BY <1>1, <1>2 DEF Choose, ChangeUnfocused

\* No step changes where the halves lie; only Make Preferred adds any.
LEMMA NextPairs ==
  ASSUME Restorable, Kept, Paired(h.entries), [Next]_vars
  PROVE  Paired(h'.entries)
<1>0. /\ TypeOK /\ State(base, h, doc, row) /\ h \in HistoryType /\ Whole(h) /\ doc \in Content
      /\ refresh \in RefreshType /\ row \in RowType
  BY DEF Kept, State, TypeOK
<1>1. /\ Flushed.l \in HistoryType /\ Flushed.d \in Content /\ Whole(Flushed.l)
      /\ Paired(Flushed.l.entries)
  <2>1. /\ Flushed.l \in HistoryType /\ Flushed.d \in Content
        /\ State(base, Flushed.l, Flushed.d, NoRow)
    BY <1>0, FlushedKeeps
  <2>2. Paired(Flushed.l.entries)
    BY <1>0, FlushPaired DEF Flushed
  <2> QED BY <2>1, <2>2 DEF State
<1>2. CASE LeaveRow \/ ActivateRow \/ (\E f \in TextFields : FocusRow(f)) \/ UNCHANGED vars
  BY <1>2 DEF LeaveRow, ActivateRow, FocusRow, vars
<1>3. CASE \/ \E v \in Values : TypeText(v)
           \/ \E f \in Fields, v \in Values : Choose(f, v) \/ ChangeUnfocused(f, v)
  BY <1>3, EditedPairs
<1>4. ASSUME NEW g \in Values, ChangeGroups(g) PROVE Paired(h'.entries)
  <2> DEFINE entry == Entry("structure", Groups, Flushed.d[Groups], g, FALSE)
  <2>1. entry \in EntryType /\ entry.kind # "data"
    BY <1>1, SlotsOfFields, EntryTyped DEF Content, Entry
  <2>2. h' = PushHistory(Flushed.l, entry)
    BY <1>4 DEF ChangeGroups
  <2> HIDE DEF entry
  <2> QED BY <1>1, <2>1, <2>2, PushPaired
<1>5. ASSUME NEW f \in Fields, NEW g \in Fields, SwapData(f, g) PROVE Paired(h'.entries)
  <2> DEFINE first  == Entry("data", Value(f), Flushed.d[Value(f)], Flushed.d[Value(g)], FALSE)
             second == Entry("data", Value(g), Flushed.d[Value(g)], Flushed.d[Value(f)], TRUE)
  <2>1. Flushed.d[Value(f)] \in Values /\ Flushed.d[Value(g)] \in Values
    BY <1>1, SlotsOfFields DEF Content
  <2>2. /\ first \in EntryType /\ first.kind = "data"
        /\ second \in EntryType /\ second.kind = "data" /\ second.joined
    BY <2>1, SlotsOfFields, EntryTyped DEF Entry
  <2>3. h' = PushHistory(PushHistory(Flushed.l, first), second)
    BY <1>5 DEF SwapData
  <2> HIDE DEF first, second
  <2> QED BY <1>1, <2>2, <2>3, PairPaired
<1>6. CASE Refresh \/ PrepareOutput \/ Undo \/ Redo \/ StartSave
  <2>1. \/ h' = Flushed.l
        \/ \E to : h' = [Flushed.l EXCEPT !.position = to]
        \/ h' = [Flushed.l EXCEPT !.matches = TRUE]
    BY <1>6 DEF Refresh, PrepareOutput, Undo, Redo, StartSave
  <2>2. h'.entries = Flushed.l.entries
    BY <1>1, <2>1 DEF HistoryType
  <2> QED BY <1>1, <2>2
<1>7. CASE Written \/ WriteFailed
  <2>1. h'.entries = h.entries
    BY <1>0, <1>7 DEF Written, WriteFailed, HistoryType
  <2> QED BY <2>1
<1>8. CASE \E v \in Start, adjusted \in BOOLEAN : Load(v, adjusted)
  <2>1. h'.entries = <<>>
    BY <1>8 DEF Load
  <2>2. Len(<<>>) = 0
    BY EmptySeq
  <2> QED BY <2>1, <2>2, HalvesNone DEF Paired
<1> QED BY <1>2, <1>3, <1>4, <1>5, <1>6, <1>7, <1>8 DEF Next, Edit

LEMMA NextPairInv ==
  ASSUME Restorable, Kept, PairInv, [Next]_vars
  PROVE  PairInv'
<1>0. /\ TypeOK /\ State(base, h, doc, row) /\ Paired(h.entries)
      /\ Even(savedPrefix, Len(savedPrefix))
      /\ SavePending => Even(write.prefix, Len(write.prefix))
  BY DEF Kept, PairInv
<1>1. Paired(h'.entries)
  BY <1>0, NextPairs
<1>2. Len(<<>>) = 0
  BY EmptySeq
<1>3. \/ UNCHANGED <<write, savedPrefix>>
      \/ StartSave
      \/ Written \/ WriteFailed
      \/ \E v \in Start, adjusted \in BOOLEAN : Load(v, adjusted)
  <2>1. CASE Edit
    BY <2>1 DEF Edit, LeaveRow, ActivateRow, FocusRow, TypeText, Choose, ChangeUnfocused,
                 Change, ChangeGroups, SwapData
  <2>2. CASE Refresh \/ PrepareOutput \/ Undo \/ Redo
    BY <2>2 DEF Refresh, PrepareOutput, Undo, Redo
  <2> QED BY <2>1, <2>2 DEF Next, vars
<1>4. CASE UNCHANGED <<write, savedPrefix>>
  BY <1>0, <1>1, <1>4 DEF PairInv, SavePending
<1>5. CASE StartSave
  <2> DEFINE l == Flushed.l
             s == l.entries
             n == l.position
  <2>1. l \in HistoryType /\ Whole(l)
    BY <1>0, FlushedKeeps DEF State
  <2>2. write' = [position |-> n, content |-> Flushed.d, current |-> TRUE,
                  prefix |-> SubSeq(s, 1, n)]
        /\ h' = [l EXCEPT !.matches = TRUE] /\ savedPrefix' = savedPrefix
    BY <1>5 DEF StartSave
  <2>3. h'.entries = s
    BY <2>1, <2>2 DEF HistoryType
  <2>4. Even(s, n)
    BY <1>1, <2>1, <2>3, PositionIsEven
  <2>5. s \in Seq(EntryType) /\ n \in 0 .. Len(s) /\ n \in n .. Len(s) /\ n \in 0 .. n /\ n \in Nat
    BY <2>1, LenProperties DEF HistoryType
  <2> HIDE DEF l, s, n
  <2>6. /\ SubSeq(s, 1, n) \in Seq(EntryType) /\ Len(SubSeq(s, 1, n)) = n
        /\ SamePast(s, SubSeq(s, 1, n), n)
    BY <2>5, SplitAt, SamePastDropped
  <2>7. Even(SubSeq(s, 1, n), n)
    BY <2>4, <2>5, <2>6, HalvesPast
  <2>8. Even(write'.prefix, Len(write'.prefix))
    BY <2>2, <2>6, <2>7
  <2> QED BY <1>0, <1>1, <2>2, <2>8 DEF PairInv
<1>6. CASE Written \/ WriteFailed
  <2>1. write' = NoWrite /\ (savedPrefix' = savedPrefix \/ savedPrefix' = write.prefix)
        /\ SavePending
    BY <1>6 DEF Written, WriteFailed
  <2>2. ~SavePending'
    BY <2>1 DEF SavePending
  <2> QED BY <1>0, <1>1, <2>1, <2>2 DEF PairInv
<1>7. CASE \E v \in Start, adjusted \in BOOLEAN : Load(v, adjusted)
  <2>1. /\ savedPrefix' = <<>>
        /\ write' = IF SavePending THEN [write EXCEPT !.current = FALSE] ELSE write
    BY <1>7 DEF Load
  <2>2. SavePending' => SavePending /\ write'.prefix = write.prefix
    <3>1. SavePending => write'.prefix = write.prefix
      BY <1>0, <2>1 DEF SavePending, TypeOK, WriteType
    <3>2. ~SavePending => ~SavePending'
      BY <2>1 DEF SavePending
    <3> QED BY <3>1, <3>2
  <2>3. Even(savedPrefix', Len(savedPrefix'))
    BY <1>2, <2>1, HalvesNone
  <2> QED BY <1>0, <1>1, <2>2, <2>3 DEF PairInv
<1> QED BY <1>3, <1>4, <1>5, <1>6, <1>7

LEMMA PairsMean ==
  ASSUME Restorable, Kept, SavedPositionIntact, PairInv
  PROVE  SwapsAreWhole
<1>0. /\ h \in HistoryType /\ Whole(h) /\ Paired(h.entries) /\ savedPrefix \in Seq(EntryType)
      /\ h.entries \in Seq(EntryType)
  BY DEF Kept, State, TypeOK, HistoryType, PairInv
<1>1. Even(h.entries, h.position)
  BY <1>0, PositionIsEven
<1>2. CASE h.saved >= 0
  <2> DEFINE n == h.saved
  <2>1. n \in Nat /\ n <= Len(h.entries) /\ SubSeq(h.entries, 1, n) = savedPrefix
    BY <1>0, <1>2 DEF SavedPositionIntact, HistoryType
  <2>2. n \in 0 .. Len(h.entries) /\ n \in n .. Len(h.entries) /\ n \in 0 .. n
    BY <1>0, <2>1, LenProperties
  <2> HIDE DEF n
  <2>3. SamePast(h.entries, savedPrefix, n) /\ Len(savedPrefix) = n
    BY <1>0, <2>1, <2>2, SplitAt, SamePastDropped
  <2>4. Even(savedPrefix, n)
    BY <2>3 DEF PairInv
  <2>5. Even(h.entries, n)
    BY <1>0, <2>1, <2>2, <2>3, <2>4, HalvesPast
  <2> QED BY <1>1, <2>5 DEF SwapsAreWhole, Even, Halves, n
<1>3. CASE ~(h.saved >= 0)
  <2>1. Halves(h.entries, h.saved) = {}
    BY <1>0, <1>3 DEF Halves, HistoryType
  <2>2. Even(h.entries, h.saved)
    BY <2>1, FS_EmptySet DEF Even
  <2> QED BY <1>1, <2>2 DEF SwapsAreWhole, Even, Halves
<1> QED BY <1>2, <1>3

\* Make Preferred is undone and redone whole, and no file is ever taken for the
\* content with one timing moved and the other not, in every window of fields
\* that can all be written again (wnd_apply_changes, wnd_apply_history).
THEOREM SwapsStayWhole ==
  ASSUME Restorable, Separate
  PROVE  Spec => []SwapsAreWhole
<1>1. Init => PairInv
  <2> SUFFICES ASSUME Init PROVE PairInv
    OBVIOUS
  <2>1. h.entries = <<>> /\ savedPrefix = <<>> /\ ~SavePending
    BY DEF Init, SavePending
  <2>2. Len(<<>>) = 0
    BY EmptySeq
  <2> QED BY <2>1, <2>2, HalvesNone DEF PairInv, Paired
<1>2. Kept /\ PairInv /\ [Next]_vars => PairInv'
  BY NextPairInv
<1>3. Kept /\ SavedPositionIntact /\ PairInv => SwapsAreWhole
  BY PairsMean
<1>4. Spec => []Kept
  BY StateHolds, PTL DEF Kept
<1>5. Spec => []SavedPositionIntact
  BY SavedPositionCorrect
<1> QED BY <1>1, <1>2, <1>3, <1>4, <1>5, PTL DEF Spec
=============================================================================
