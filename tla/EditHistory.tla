---------------------------- MODULE EditHistory ----------------------------
(***************************************************************************)
(* The edit history of one window: app/history.cpp, the recording half of  *)
(* app/fields.cpp, and the part of saving (app/document.cpp) that names a  *)
(* history position.                                                       *)
(*                                                                         *)
(* The content of the document is a function from slots to values.  A      *)
(* field stands for a (group, field) pair and has two slots: its value, and *)
(* the value its group was last built for; they differ when the group needs *)
(* RebuildGroup.  Groups is the slot for which groups a block holds.       *)
(***************************************************************************)
EXTENDS Integers, Sequences, FiniteSetsExt

CONSTANTS
  Fields,        \* fields of the groups
  TextFields,    \* typed into an entry or a spin button, keystroke by keystroke
  LayoutFields,  \* flagged F_FR or F_INIT: decide the layout of their group
  TypeFields,    \* whose handler reports a changed type (RCD_IS_TRUE)
  Values,
  Retyping,      \* values whose write reports a changed type
  Refused,       \* values of a layout or type field RebuildGroup or the block refuses
  Unwritable,    \* values a file may hold that the text handler rejects
  Start,         \* values the fields of an opened file may hold
  MaxHistory     \* bound: no further change is recorded at this position

ASSUME EditAssumption ==
  /\ TextFields \subseteq Fields
  /\ LayoutFields \subseteq Fields
  /\ TypeFields \subseteq Fields
  /\ Refused \subseteq Values
  /\ Unwritable \subseteq Values
  /\ Start \subseteq Values
  /\ MaxHistory \in Nat

VARIABLES
  doc,      \* what the groups hold, slot by slot
  h,        \* history, history_position, saved_history_position, save_matches
  row,      \* the focused entry: field, history_index, value when focused
  refresh,  \* refresh_group/refresh_field, refresh_type_changed, and, a history
            \* field, whether its end is due: see RequestRefresh
  idle,     \* refresh_source # 0: the idle handler is queued
  write,    \* the EDID binary being written
  file,     \* history variable: content of the document's own file
  savedPrefix, \* history variable: the entries that led to that content
  base      \* history variable: content at history position 0

vars == <<doc, h, row, refresh, idle, write, file, savedPrefix, base>>

NoRow     == [field |-> "none"]
NoRefresh == [field |-> "none"]
NoWrite   == [position |-> -1]
NoFile    == [slot \in {} |-> 0]

Value(f) == <<"value", f>>
Built(f) == <<"built", f>>
Groups   == <<"groups", "all">>
Slots    == ({"value", "built"} \X Fields) \cup {Groups}

Entry(kind, slot, before, after, joined) ==
  [kind |-> kind, slot |-> slot, before |-> before, after |-> after,
   joined |-> joined]

Opened(v) == [slot \in Slots |-> v]

Dirty(l) == l.saved < 0 \/ l.position # l.saved

SavePending == write # NoWrite

(***************************************************************************)
(* The history: a list of entries and a position in it.                    *)
(***************************************************************************)
DropHistory(l, from) ==
  [entries  |-> SubSeq(l.entries, 1, from),
   position |-> l.position,
   saved    |-> l.saved,
   matches  |-> l.matches /\ ~(SavePending /\ from < write.position)]

\* Mutant: the saved position survives the entries it named.
PushKeepingSaved(l, entry) ==
  LET kept == IF l.position < Len(l.entries) THEN DropHistory(l, l.position) ELSE l
  IN  [kept EXCEPT !.entries = Append(@, entry), !.position = Len(kept.entries) + 1]

PushHistory(l, entry) ==
  LET rewrites == l.position < Len(l.entries)
      kept     == IF rewrites THEN DropHistory(l, l.position) ELSE l
  IN  [entries  |-> Append(kept.entries, entry),
       position |-> Len(kept.entries) + 1,
       saved    |-> IF rewrites /\ l.saved > l.position THEN -1 ELSE l.saved,
       matches  |-> kept.matches]

\* Entries applied to, or taken from, the content: of those that touch a slot
\* the last one decides, or the first one.
Touching(entries, slot) == {i \in DOMAIN entries : entries[i].slot = slot}

Reapply(d, entries) ==
  [slot \in Slots |-> LET touching == Touching(entries, slot)
                     IN  IF touching = {} THEN d[slot] ELSE entries[Max(touching)].after]

Revert(d, entries) ==
  [slot \in Slots |-> LET touching == Touching(entries, slot)
                     IN  IF touching = {} THEN d[slot] ELSE entries[Min(touching)].before]

\* The handler of a text field rejects a value outside its range, also one
\* the file came with.
CannotRestore(entry) ==
  /\ entry.kind = "field"
  /\ entry.before \in Unwritable
  /\ \E f \in TextFields : entry.slot = Value(f)

\* Mutant: undo takes one entry at a time.
UndoOneEntry(l) == l.position - 1

\* Joined entries go together; an entry that can't be restored stops there.
UndoStop(l) ==
  LET starts == {p \in 0 .. l.position - 1 : p = 0 \/ ~l.entries[p + 1].joined}
      stuck  == {p \in Max(starts) + 1 .. l.position : CannotRestore(l.entries[p])}
  IN  Max({Max(starts)} \cup stuck)

RedoStop(l) ==
  Min({p \in l.position + 1 .. Len(l.entries) :
         p = Len(l.entries) \/ ~l.entries[p + 1].joined})

\* Mutant: undo and redo leave the focused row as it is.
RowsNotReloaded(rows, entries) == rows

\* Undo and redo reload the rows of the entry's group, or rebuild the tree
\* with all of them: the focused row of another group may stay.
KeptRows(rows, entries) ==
  {NoRow} \cup {w \in rows \ {NoRow} :
                  \A i \in DOMAIN entries : /\ entries[i].kind = "field"
                                            /\ entries[i].slot # Value(w.field)}

(***************************************************************************)
(* Rebuilding the group of the last layout field written.                  *)
(***************************************************************************)
RebuildOutcome(d, r) ==
  IF r = NoRefresh THEN "nothing"
  ELSE IF ~r.typeChanged /\ d[Built(r.field)] = d[Value(r.field)] THEN "nothing"
  ELSE IF d[Value(r.field)] \in Refused THEN "refused"
  ELSE "rebuilt"

\* The write behind the rebuild is the newest entry of the history.
JoinsLast(l, r) ==
  /\ l.position > 0
  /\ l.position = Len(l.entries)
  /\ l.entries[l.position].kind = "field"
  /\ l.entries[l.position].slot = Value(r.field)

\* What wnd_flush_refresh leaves of the history and the content, and the rows
\* that may keep the focus.
Flush(l, d, r, w) ==
  LET outcome == RebuildOutcome(d, r)
      joined  == JoinsLast(l, r)
      last    == l.entries[l.position]
      undone  == [l EXCEPT !.position = @ - 1]
  IN  CASE outcome = "rebuilt" ->
             [l |-> PushHistory(l, Entry("replace", Built(r.field), d[Built(r.field)],
                                         d[Value(r.field)], joined)),
              d |-> [d EXCEPT ![Built(r.field)] = d[Value(r.field)]],
              rows |-> {NoRow}]
        [] outcome = "refused" /\ joined /\ ~CannotRestore(last) ->
             [l |-> DropHistory(undone, undone.position),
              d |-> [d EXCEPT ![last.slot] = last.before],
              rows |-> KeptRows({w}, <<last>>)]
        [] OTHER -> [l |-> l, d |-> d, rows |-> {w}]

Flushed == Flush(h, doc, refresh, row)

\* A write that may need a rebuild is remembered; one still waiting for
\* another field is applied first.  It is due when it is scheduled at once, or
\* the entry it was typed into is still to be left.
RequestRefresh(l, d, w, f, typeChanged, now) ==
  LET asked  == typeChanged \/ f \in LayoutFields
      other  == refresh # NoRefresh /\ refresh.field # f
      done   == IF asked /\ other THEN Flush(l, d, refresh, w)
                                  ELSE [l |-> l, d |-> d, rows |-> {w}]
      same   == refresh # NoRefresh /\ ~other
  IN  /\ h' = done.l
      /\ doc' = done.d
      /\ row' \in done.rows
      /\ refresh' = IF asked
                    THEN [field       |-> f,
                          typeChanged |-> (same /\ refresh.typeChanged) \/ typeChanged,
                          due         |-> (same /\ refresh.due) \/ now \/ row'.field = f]
                    ELSE refresh
      /\ idle' = IF asked THEN (idle /\ ~other) \/ now ELSE idle

-----------------------------------------------------------------------------
Init ==
  \E v \in Start :
    /\ doc = Opened(v)
    /\ h = [entries |-> <<>>, position |-> 0, saved |-> 0, matches |-> FALSE]
    /\ row = NoRow
    /\ refresh = NoRefresh
    /\ idle = FALSE
    /\ write = NoWrite
    /\ file = doc
    /\ savedPrefix = <<>>
    /\ base = doc

\* Mutant: leaving an entry schedules nothing.
LeaveUnscheduled ==
  /\ row # NoRow
  /\ row' = NoRow
  /\ UNCHANGED <<doc, h, refresh, idle, write, file, savedPrefix, base>>

\* Leaving an entry schedules the rebuild its edits asked for.
LeaveRow ==
  /\ row # NoRow
  /\ row' = NoRow
  /\ idle' = (idle \/ refresh # NoRefresh)
  /\ UNCHANGED <<doc, h, refresh, write, file, savedPrefix, base>>

\* Enter in an entry schedules it too, and keeps the focus.
ActivateRow ==
  /\ row # NoRow
  /\ idle' = (idle \/ refresh # NoRefresh)
  /\ UNCHANGED <<doc, h, row, refresh, write, file, savedPrefix, base>>

FocusRow(f) ==
  /\ row = NoRow
  /\ row' = [field |-> f, index |-> 0, before |-> doc[Value(f)]]
  /\ UNCHANGED <<doc, h, refresh, idle, write, file, savedPrefix, base>>

\* The newest entry is the one this editing session writes.
NewestOfRow ==
  /\ row.index # 0
  /\ row.index = h.position
  /\ h.position = Len(h.entries)
  /\ h.entries[row.index].kind = "field"
  /\ h.entries[row.index].slot = Value(row.field)

\* Mutant: a keystroke changes the entry the file is made of.
CoalesceIntoSaved == NewestOfRow /\ ~(SavePending /\ write.position = h.position)

\* One keystroke: the entry of this editing session takes the new value,
\* unless it is no longer the newest one or the file depends on it.
CanCoalesce ==
  /\ NewestOfRow
  /\ h.saved # h.position
  /\ ~(SavePending /\ write.position = h.position)

Coalesced(v) ==
  IF h.entries[h.position].before = v
  THEN [l |-> [entries  |-> SubSeq(h.entries, 1, h.position - 1),
               position |-> h.position - 1,
               saved    |-> h.saved,
               matches  |-> h.matches],
        index |-> 0]
  ELSE [l |-> [h EXCEPT !.entries[h.position].after = v], index |-> row.index]

\* A new entry starts from the value the field had when the session began
\* if no entry of the session exists, else from the value just replaced.
Recorded(v) ==
  LET before == IF row.index = 0 THEN row.before ELSE doc[Value(row.field)]
      pushed == PushHistory(h, Entry("field", Value(row.field), before, v, FALSE))
      l      == IF before = v THEN h ELSE pushed
  IN  [l |-> l,
       index |-> IF Len(l.entries) > Len(h.entries) THEN Len(l.entries) ELSE 0]

TypeText(v) ==
  /\ row # NoRow
  /\ v \notin Unwritable
  /\ v # doc[Value(row.field)]
  /\ h.position < MaxHistory
  /\ LET typed == IF CanCoalesce THEN Coalesced(v) ELSE Recorded(v)
     IN  RequestRefresh(typed.l, [doc EXCEPT ![Value(row.field)] = v],
                        [row EXCEPT !.index = typed.index], row.field,
                        row.field \in TypeFields /\ v \in Retyping, FALSE)
  /\ UNCHANGED <<write, file, savedPrefix, base>>

\* A change outside an editing session is an entry of its own.
Change(f, v, now) ==
  /\ row = NoRow \/ row.field # f
  /\ v # doc[Value(f)]
  /\ h.position < MaxHistory
  /\ RequestRefresh(PushHistory(h, Entry("field", Value(f), doc[Value(f)], v, FALSE)),
                    [doc EXCEPT ![Value(f)] = v], row, f,
                    f \in TypeFields /\ v \in Retyping, now)
  /\ UNCHANGED <<write, file, savedPrefix, base>>

\* A dropdown or a switch.
Choose(f, v) == f \notin TextFields /\ Change(f, v, TRUE)

\* An entry or spin button without the focus: text dropped on it, or its value
\* scrolled.  Nothing schedules the rebuild.
ChangeUnfocused(f, v) ==
  /\ f \in TextFields
  /\ v \notin Unwritable
  /\ Change(f, v, FALSE)

\* wnd_on_refresh_idle
Refresh ==
  /\ idle
  /\ h' = Flushed.l
  /\ doc' = Flushed.d
  /\ row' \in Flushed.rows
  /\ refresh' = NoRefresh
  /\ idle' = FALSE
  /\ UNCHANGED <<write, file, savedPrefix, base>>

\* Adding, duplicating, moving or deleting a group.
ChangeGroups(g) ==
  LET done == Flushed
  IN  /\ g # done.d[Groups]
      /\ done.l.position < MaxHistory
      /\ h' = PushHistory(done.l, Entry("structure", Groups, done.d[Groups], g, FALSE))
      /\ doc' = [done.d EXCEPT ![Groups] = g]
      /\ row' = NoRow
      /\ refresh' = NoRefresh
      /\ idle' = FALSE
      /\ UNCHANGED <<write, file, savedPrefix, base>>

\* Mutant: the two halves of Make Preferred are entries of their own.
SwapUnjoined(f, g) ==
  LET done   == Flushed
      first  == Entry("data", Value(f), done.d[Value(f)], done.d[Value(g)], FALSE)
      second == Entry("data", Value(g), done.d[Value(g)], done.d[Value(f)], FALSE)
  IN  /\ done.d[Value(f)] # done.d[Value(g)]
      /\ done.l.position < MaxHistory
      /\ h' = PushHistory(PushHistory(done.l, first), second)
      /\ doc' = Reapply(done.d, <<first, second>>)
      /\ row' = NoRow
      /\ refresh' = NoRefresh
      /\ idle' = FALSE
      /\ UNCHANGED <<write, file, savedPrefix, base>>

\* Make Preferred: two timings change places, two joined entries.
SwapData(f, g) ==
  LET done   == Flushed
      first  == Entry("data", Value(f), done.d[Value(f)], done.d[Value(g)], FALSE)
      second == Entry("data", Value(g), done.d[Value(g)], done.d[Value(f)], TRUE)
  IN  /\ f # g
      /\ done.d[Value(f)] # done.d[Value(g)]
      /\ done.l.position < MaxHistory
      /\ h' = PushHistory(PushHistory(done.l, first), second)
      /\ doc' = Reapply(done.d, <<first, second>>)
      /\ row' = NoRow
      /\ refresh' = NoRefresh
      /\ idle' = FALSE
      /\ UNCHANGED <<write, file, savedPrefix, base>>

Undo ==
  LET done    == Flushed
      stop    == UndoStop(done.l)
      entries == SubSeq(done.l.entries, stop + 1, done.l.position)
  IN  /\ h.position > 0
      /\ IF done.l.position = 0 \/ entries = <<>>
         THEN h' = done.l /\ doc' = done.d /\ row' \in done.rows
         ELSE /\ h' = [done.l EXCEPT !.position = stop]
              /\ doc' = Revert(done.d, entries)
              /\ row' \in KeptRows(done.rows, entries)
      /\ refresh' = NoRefresh
      /\ idle' = FALSE
      /\ UNCHANGED <<write, file, savedPrefix, base>>

Redo ==
  LET done    == Flushed
      stop    == RedoStop(done.l)
      entries == SubSeq(done.l.entries, done.l.position + 1, stop)
  IN  /\ h.position < Len(h.entries)
      /\ IF done.l.position = Len(done.l.entries)
         THEN h' = done.l /\ doc' = done.d /\ row' \in done.rows
         ELSE /\ h' = [done.l EXCEPT !.position = stop]
              /\ doc' = Reapply(done.d, entries)
              /\ row' \in KeptRows(done.rows, entries)
      /\ refresh' = NoRefresh
      /\ idle' = FALSE
      /\ UNCHANGED <<write, file, savedPrefix, base>>

\* Mutant: saving leaves a waiting rebuild waiting.
SaveWithoutRebuild ==
  /\ ~SavePending
  /\ h' = [h EXCEPT !.matches = TRUE]
  /\ write' = [position |-> h.position, content |-> doc, current |-> TRUE,
               prefix |-> SubSeq(h.entries, 1, h.position)]
  /\ UNCHANGED <<doc, row, refresh, idle, file, savedPrefix, base>>

\* wnd_save_to_file: the content and the position it was reached at are
\* captured once the waiting rebuild is done.
StartSave ==
  LET done == Flushed
  IN  /\ ~SavePending
      /\ h' = [done.l EXCEPT !.matches = TRUE]
      /\ doc' = done.d
      /\ row' \in done.rows
      /\ refresh' = NoRefresh
      /\ idle' = FALSE
      /\ write' = [position |-> done.l.position, content |-> done.d, current |-> TRUE,
                   prefix |-> SubSeq(done.l.entries, 1, done.l.position)]
      /\ UNCHANGED <<file, savedPrefix, base>>

\* A save whose EDID can't be assembled, and an export, only do the waiting
\* rebuild.
PrepareOutput ==
  /\ h' = Flushed.l
  /\ doc' = Flushed.d
  /\ row' \in Flushed.rows
  /\ refresh' = NoRefresh
  /\ idle' = FALSE
  /\ UNCHANGED <<write, file, savedPrefix, base>>

\* wnd_on_written: the position becomes the saved one, if the entries up to
\* it are still those the file was written from.
Written ==
  /\ SavePending
  /\ write' = NoWrite
  /\ IF write.current
     THEN /\ h' = [h EXCEPT !.saved = IF h.matches THEN write.position ELSE -1]
          /\ file' = write.content
          /\ savedPrefix' = write.prefix
     ELSE UNCHANGED <<h, file, savedPrefix>>
  /\ UNCHANGED <<doc, row, refresh, idle, base>>

WriteFailed ==
  /\ SavePending
  /\ write' = NoWrite
  /\ UNCHANGED <<doc, h, row, refresh, idle, file, savedPrefix, base>>

\* wnd_load_bytes: another EDID takes the window over.  An adjusted block
\* count is a change that is not in the file yet.
Load(v, adjusted) ==
  /\ doc' = Opened(v)
  /\ h' = [entries  |-> <<>>,
           position |-> 0,
           saved    |-> IF adjusted THEN -1 ELSE 0,
           matches  |-> DropHistory(Flushed.l, 0).matches]
  /\ row' = NoRow
  /\ refresh' = NoRefresh
  /\ idle' = FALSE
  /\ write' = IF SavePending THEN [write EXCEPT !.current = FALSE] ELSE write
  /\ file' = IF adjusted THEN NoFile ELSE doc'
  /\ savedPrefix' = <<>>
  /\ base' = doc'

Edit ==
  \/ LeaveRow
  \/ ActivateRow
  \/ \E f \in TextFields : FocusRow(f)
  \/ \E v \in Values : TypeText(v)
  \/ \E f \in Fields, v \in Values : Choose(f, v) \/ ChangeUnfocused(f, v)
  \/ \E g \in Values : ChangeGroups(g)
  \/ \E f, g \in Fields \ (LayoutFields \cup TypeFields) : SwapData(f, g)

Next ==
  \/ Edit
  \/ Refresh
  \/ Undo
  \/ Redo
  \/ StartSave
  \/ PrepareOutput
  \/ Written
  \/ WriteFailed
  \/ \E v \in Start, adjusted \in BOOLEAN : Load(v, adjusted)

\* The main loop runs a queued idle handler when nothing else is left to do.
Spec == Init /\ [][Next]_vars /\ WF_vars(Refresh)
-----------------------------------------------------------------------------
Content == [Slots -> Values]

EntryType ==
  [kind : {"field", "data", "replace", "structure"}, slot : Slots,
   before : Values, after : Values, joined : BOOLEAN]

HistoryType == {l \in [entries : Seq(EntryType), position : Nat,
                        saved : Nat \cup {-1}, matches : BOOLEAN] :
                  l.position <= Len(l.entries)}

RowType     == {NoRow} \cup [field : TextFields, index : Nat, before : Values]
RefreshType == {NoRefresh} \cup [field : Fields, typeChanged : BOOLEAN, due : BOOLEAN]
WriteType   == {NoWrite} \cup [position : Nat, content : Content, current : BOOLEAN,
                               prefix : Seq(EntryType)]

\* Every variable has its type; the position lies within the history.
TypeOK ==
  /\ doc \in Content
  /\ h \in HistoryType
  /\ row \in RowType
  /\ refresh \in RefreshType
  /\ idle \in BOOLEAN
  /\ write \in WriteType
  /\ file \in {NoFile} \cup Content
  /\ savedPrefix \in Seq(EntryType)
  /\ base \in Content

\* saved_history_position names the history the file was written from: the
\* entries before it are still the ones that were applied at that time
\* (wnd_push_history, wnd_drop_history, wnd_on_written).
SavedPositionIntact ==
  h.saved >= 0 => /\ h.saved <= Len(h.entries)
                  /\ SubSeq(h.entries, 1, h.saved) = savedPrefix

\* A write that still matches was taken from entries nobody has replaced
\* since, so its position can become the saved one (save_matches).
WritePositionIntact ==
  (SavePending /\ write.current /\ h.matches) =>
    /\ write.position <= Len(h.entries)
    /\ SubSeq(h.entries, 1, write.position) = write.prefix

\* While a rebuild waits, the position is not the saved one and does not
\* become it when the write under way ends: taking back the value the rebuild
\* refuses (wnd_flush_refresh) never drops an entry the file is made from.
PendingIsUnsaved ==
  refresh # NoRefresh =>
    /\ h.saved # h.position
    /\ ~(SavePending /\ write.current /\ h.matches /\ write.position = h.position)

\* A document shown as unmodified holds exactly what its file holds, after
\* any mix of edits, rebuilds, undo, redo and saves still under way
\* (wnd_update_history_state).
CleanMeansSaved == ~Dirty(h) => doc = file

\* Undoing everything gives back the EDID as it was opened.
UndoneIsOpened == h.position = 0 => doc = base

\* The content is what the applied entries make of the EDID that was opened:
\* no edit, rebuild, undo or redo leaves a change the history does not know.
HistoryExplainsContent == doc = Reapply(base, SubSeq(h.entries, 1, h.position))

\* Undo and redo never come to rest between two joined entries
\* (wnd_apply_history).
NeverBetweenJoined ==
  h.position < Len(h.entries) => ~h.entries[h.position + 1].joined

\* Make Preferred is taken back and brought back whole, and never half of it
\* is what the file holds: neither the position nor the saved one is between
\* its two entries (wnd_apply_changes, wnd_apply_history).
SwapsAreWhole ==
  \A p \in {h.position, h.saved} :
    Cardinality({i \in 1 .. p : h.entries[i].kind = "data"}) % 2 = 0

\* A layout field left behind is rebuilt: once no entry is focused, the rebuild
\* asked for by typing or by a choice is done, whatever else changes before the
\* idle handler runs (wnd_schedule_refresh, wnd_on_refresh_idle).  One asked for
\* by an entry that never had the focus may wait for ever.
LeftLayoutIsRebuilt ==
  \A f \in Fields :
    (row = NoRow /\ refresh.field = f /\ refresh.due) ~> (refresh.field # f)

\* A value RebuildGroup refuses does not stay: when the rebuild is over, the
\* field holds a value its group can be built for (wnd_flush_refresh).
RefusedValueIsRestored ==
  refresh = NoRefresh => \A f \in LayoutFields : doc[Value(f)] = doc[Built(f)]

\* While there is something to undo, undoing does change the content or the
\* position ("Couldn't restore the previous value" never blocks it).
UndoAlwaysPossible ==
  h.position > 0 => UndoStop(h) < h.position

\* The history implements a timeline of contents.
Contents == [i \in 1 .. Len(h.entries) + 1 |-> Reapply(base, SubSeq(h.entries, 1, i - 1))]

Timeline == INSTANCE UndoTimeline WITH
  Nothing  <- NoFile,
  document <- doc,
  timeline <- Contents,
  cursor   <- h.position + 1,
  onFile   <- file,
  saving   <- IF SavePending /\ write.current THEN write.content ELSE NoFile,
  modified <- Dirty(h)

\* Undo and redo bring back exactly the contents the document had, no edit
\* changes more of the past than its newest entry, and the mark "Modified" is
\* missing only when the file holds the content (the whole of history.cpp).
IsTimeline == Timeline!Spec
=============================================================================
