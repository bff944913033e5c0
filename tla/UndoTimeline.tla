---------------------------- MODULE UndoTimeline ----------------------------
(***************************************************************************)
(* What the edit history promises, without entries, rebuilds, rows and     *)
(* idle handlers: the document is one point of a timeline of contents.     *)
(* Undo and redo move along the timeline, an edit cuts off what lies ahead *)
(* and extends it, and a document that is not marked as modified is the    *)
(* content of its file.                                                    *)
(***************************************************************************)
EXTENDS Integers, Sequences

CONSTANT Nothing  \* no write under way

VARIABLES
  document,  \* the content the window shows
  timeline,  \* the contents, oldest first
  cursor,    \* which of them the document is
  onFile,    \* content of the document's file
  saving,    \* content being written to it, or Nothing
  modified   \* the document is shown as modified

vars == <<document, timeline, cursor, onFile, saving, modified>>

PastIsKept(n) ==
  Len(timeline') >= n /\ SubSeq(timeline', 1, n) = SubSeq(timeline, 1, n)

Truthful ==
  /\ document = timeline[cursor]
  /\ ~modified => document = onFile

Init ==
  /\ Len(timeline) = 1
  /\ cursor = 1
  /\ saving = Nothing
  /\ Truthful

\* The newest content may be replaced (an edit goes on, or is refused);
\* everything older stays.
Extend(n) ==
  /\ \E kept \in cursor - 1 .. cursor :
       PastIsKept(kept) /\ Len(timeline') \in kept .. kept + n
  /\ cursor' = Len(timeline')

\* A change, the rebuild it causes and a rebuild that waited for it extend the
\* timeline at once.
Change ==
  /\ Extend(3)
  /\ UNCHANGED <<onFile, saving>>

Undo ==
  /\ cursor' \in 1 .. cursor
  /\ PastIsKept(cursor')
  /\ UNCHANGED <<onFile, saving>>

Redo ==
  /\ cursor' \in cursor .. Len(timeline)
  /\ UNCHANGED <<timeline, onFile, saving>>

\* Saving may first do a rebuild that waited.
Save ==
  /\ saving = Nothing
  /\ UNCHANGED <<timeline, cursor>> \/ Extend(1)
  /\ saving' = document'
  /\ UNCHANGED onFile

Saved ==
  /\ saving # Nothing
  /\ onFile' = saving
  /\ saving' = Nothing
  /\ UNCHANGED <<timeline, cursor>>

SaveFailed ==
  /\ saving # Nothing
  /\ saving' = Nothing
  /\ UNCHANGED <<timeline, cursor, onFile>>

\* Another EDID: a write still under way is not of this document.
Load ==
  /\ Len(timeline') = 1
  /\ cursor' = 1
  /\ saving' = Nothing

Next == Truthful' /\ (Change \/ Undo \/ Redo \/ Save \/ Saved \/ SaveFailed \/ Load)

Spec == Init /\ [][Next]_vars
=============================================================================
