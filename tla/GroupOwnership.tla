--------------------------- MODULE GroupOwnership ---------------------------
(***************************************************************************)
(* Which part of the program holds a group, and who frees it: the arrays   *)
(* of the blocks and of the groups (core/grpar.cpp), the entries of the    *)
(* history (app/history.cpp), and what else points to a group: the rebuild *)
(* that waits, the rows shown and the question whether to delete a group   *)
(* (app/sidebar.cpp, app/fields.cpp, app/document.cpp).                    *)
(*                                                                         *)
(* A group is a number that is never used again.  The order inside an      *)
(* array, the bytes and what fits are left out: a command that depends on  *)
(* them may refuse, and one that refuses does no more than Refresh.        *)
(* Read-only fields stay locked: a replacement never needs the padding.    *)
(***************************************************************************)
EXTENDS Integers, Sequences, FiniteSets

CONSTANTS
  Blocks,      \* the array of every block
  Documents,   \* files to open, see IsDocument
  SubCounts,   \* how many sub-groups the bytes of a group may make
  MaxChanged,  \* bound: groups Make Preferred changes at once
  MaxGroups,   \* bound: no group beyond it is made
  MaxHistory   \* bound: no change is recorded at this position

NULL   == 0
Ids    == 1 .. MaxGroups
Arrays == Blocks \cup Ids

\* Every group is in one array; the groups of a group have no groups.
IsDocument(d) ==
  /\ d.size \in Nat
  /\ d.array \in [Blocks \cup 1 .. d.size -> SUBSET (1 .. d.size)]
  /\ d.padding \subseteq 1 .. d.size
  /\ \A g \in 1 .. d.size : \E a \in DOMAIN d.array :
       /\ g \in d.array[a]
       /\ \A b \in DOMAIN d.array : g \in d.array[b] => b = a
       /\ a \notin Blocks => \E b \in Blocks : a \in d.array[b]
       /\ g \in d.padding => a \in Blocks /\ d.array[g] = {}

ASSUME OwnershipAssumption ==
  /\ Blocks \cap Int = {}
  /\ SubCounts \subseteq Nat
  /\ MaxChanged \in Nat /\ MaxGroups \in Nat /\ MaxHistory \in Nat
  /\ \A d \in Documents : IsDocument(d)

VARIABLES
  array,     \* the groups in every array
  alive,     \* the groups made and not freed
  made,      \* how many were made
  padding,   \* those that are the padding of a DisplayID section
  home,      \* history variable: the array a group was made for
  history,   \* the entries
  position,  \* history_position
  refresh,   \* refresh_group
  shown,     \* the group of the selected row
  dialog,    \* pending_delete
  applying,  \* the loop of wnd_apply_history: "undo", "redo" or "no"
  loaded     \* the base block of the last file could be read

vars == <<array, alive, made, padding, home, history, position, refresh, shown,
          dialog, applying, loaded>>

State ==
  [array |-> array, alive |-> alive, made |-> made, padding |-> padding, home |-> home,
   history |-> history, position |-> position, refresh |-> refresh, shown |-> shown]

Becomes(s) ==
  /\ array' = s.array
  /\ alive' = s.alive
  /\ made' = s.made
  /\ padding' = s.padding
  /\ home' = s.home
  /\ history' = s.history
  /\ position' = s.position
  /\ refresh' = s.refresh
  /\ shown' = s.shown

Entry(kind, group, replacement, a, joined) ==
  [kind |-> kind, group |-> group, replacement |-> replacement, array |-> a, joined |-> joined]

(***************************************************************************)
(* Groups and arrays.                                                      *)
(***************************************************************************)
ParentAr(s, g) ==
  IF \E a \in Arrays : g \in s.array[a] THEN CHOOSE a \in Arrays : g \in s.array[a]
                                        ELSE NULL

\* The groups of the sidebar: those of the blocks and their sub-groups.
Roots(s)      == UNION {s.array[b] : b \in Blocks}
InDocument(s) == Roots(s) \cup UNION {s.array[g] : g \in Roots(s)}

\* A group is freed with the groups in its array.
Free(s, gs) ==
  LET gone == gs \cup UNION {s.array[g] : g \in gs}
  IN  [s EXCEPT !.alive = @ \ gone,
                !.padding = @ \ gone,
                !.array = [a \in Arrays |-> IF a \in gone THEN {} ELSE @[a]]]

\* A group built from bytes, with count sub-groups, for the array a.
New(s) == s.made + 1

Counts(a) == IF a \in Blocks THEN SubCounts ELSE {0}

Make(s, a, count) ==
  LET last == New(s) + count
  IN  [s EXCEPT !.made = last,
                !.alive = @ \cup New(s) .. last,
                !.array[New(s)] = New(s) + 1 .. last,
                !.home = [g \in Ids |-> IF g = New(s) THEN a
                                        ELSE IF g \in New(s) .. last THEN New(s)
                                        ELSE @[g]]]

Cut(s, a, g) == [s EXCEPT !.array[a] = @ \ {g}]

\* In a DisplayID section the room may take all of the padding, which is freed.
Insert(s, a, g) ==
  LET put == [s EXCEPT !.array[a] = @ \cup {g}]
  IN  {put} \cup {Free(Cut(put, a, p), {p}) : p \in s.padding \cap s.array[a]}

\* Mutant: the group replaced is freed, as base_Paste does it.
ReplaceFreeing(s, target, replacement) ==
  LET a == ParentAr(s, target)
  IN  Free([s EXCEPT !.array[a] = (@ \ {target}) \cup {replacement}], {target})

ReplaceGroup(s, target, replacement) ==
  LET a == ParentAr(s, target)
  IN  [s EXCEPT !.array[a] = (@ \ {target}) \cup {replacement}]

\* wnd_rebuild_tree selects the group, or the first row when there is no such
\* row: the one of a group, or of a block shown as bytes.
RebuildTree(s, g) ==
  {[s EXCEPT !.shown = row] :
     row \in IF g \in InDocument(s) THEN {g} ELSE Roots(s) \cup {NULL}}

(***************************************************************************)
(* The history.                                                            *)
(***************************************************************************)
\* Mutant: an undone replacement owns the group it replaced.
OwnedByAnyReplace(e, applied) ==
  CASE e.kind = "insert"  -> IF applied THEN {} ELSE {e.group}
    [] e.kind = "remove"  -> IF applied THEN {e.group} ELSE {}
    [] e.kind = "replace" -> {e.group}
    [] OTHER              -> {}

OwnedGroup(e, applied) ==
  CASE e.kind = "insert"  -> IF applied THEN {} ELSE {e.group}
    [] e.kind = "remove"  -> IF applied THEN {e.group} ELSE {}
    [] e.kind = "replace" -> IF applied THEN {e.group} ELSE {e.replacement}
    [] OTHER              -> {}

Owned(s, i) == OwnedGroup(s.history[i], i <= s.position)

\* The first kept entries stay; the others free what they own.
DropHistory(s, kept) ==
  LET owned == UNION {Owned(s, i) : i \in kept + 1 .. Len(s.history)}
  IN  [Free(s, owned) EXCEPT !.history = SubSeq(@, 1, kept)]

\* Mutant: the entries behind the position go, their groups stay.
PushKeepingGroups(s, entries) ==
  [s EXCEPT !.history = SubSeq(@, 1, s.position) \o entries,
            !.position = @ + Len(entries)]

\* Mutant: the entries behind the position stay behind the new ones.
PushKeepingRedo(s, entries) ==
  [s EXCEPT !.history = SubSeq(@, 1, s.position) \o entries
                        \o SubSeq(@, s.position + 1, Len(@)),
            !.position = @ + Len(entries)]

\* One entry, or several joined ones, behind the position.
PushHistory(s, entries) ==
  LET kept == DropHistory(s, s.position)
  IN  [kept EXCEPT !.history = @ \o entries,
                   !.position = @ + Len(entries)]

\* The group goes back where it was; otherwise it is taken out again.
PutsBack(e, redo) == e.kind = IF redo THEN "insert" ELSE "remove"

\* What a structural entry does to the groups; nothing when its group is not
\* where it should be.
ApplyStructure(s, e, redo) ==
  CASE e.kind \in {"data", "move"} -> {s}
    [] e.kind = "replace" ->
         LET current == IF redo THEN e.group ELSE e.replacement
             next    == IF redo THEN e.replacement ELSE e.group
         IN  IF ParentAr(s, current) = NULL THEN {} ELSE {ReplaceGroup(s, current, next)}
    [] PutsBack(e, redo) -> Insert(s, e.array, e.group)
    [] OTHER -> IF e.group \in s.array[e.array] THEN {Cut(s, e.array, e.group)} ELSE {}

\* The row to show: of the entry's group, or next to the one cut.
Selections(s, e, redo) ==
  IF e.kind = "replace" THEN {IF redo THEN e.replacement ELSE e.group}
  ELSE IF e.kind \in {"data", "move"} \/ PutsBack(e, redo) THEN {e.group}
  ELSE s.array[e.array] \cup {e.array}

CanStep(s, redo) == IF redo THEN s.position < Len(s.history) ELSE s.position > 0

StepEntry(s, redo) == s.history[IF redo THEN s.position + 1 ELSE s.position]

\* A step that succeeds; a field is written without rebuilding the tree.
StepTo(s, redo) ==
  LET e     == StepEntry(s, redo)
      at(t) == [t EXCEPT !.position = IF redo THEN @ + 1 ELSE @ - 1]
  IN  IF e.kind = "field" THEN {at(s)}
      ELSE UNION {UNION {RebuildTree(at(t), g) : g \in Selections(t, e, redo)} :
                    t \in ApplyStructure(s, e, redo)}

\* A value may be refused, and a replacement may not fit.
MayFail(s, redo) ==
  StepEntry(s, redo).kind \in {"field", "replace"} \/ StepTo(s, redo) = {}

NextIsJoined(s) == s.position < Len(s.history) /\ s.history[s.position + 1].joined

(***************************************************************************)
(* The rebuild that waits.                                                 *)
(***************************************************************************)
\* The newest entry is the write behind the rebuild, if it is of its field.
LastWrites(s, g) ==
  /\ s.position > 0
  /\ s.position = Len(s.history)
  /\ s.history[s.position].kind = "field"
  /\ s.history[s.position].group = g

\* The group itself, or the one it is part of (F_INIT on a sub-group).
Targets(s, g) ==
  {t \in {g, ParentAr(s, g)} \cap Ids : ParentAr(s, t) # NULL}

\* Mutant: the selection stays on the group that was replaced.
RebuiltUnfollowed(s, g, target, count, joined) ==
  LET a     == ParentAr(s, target)
      swap  == ReplaceGroup(Make(s, a, count), target, New(s))
  IN  {PushHistory(swap, <<Entry("replace", target, New(s), a, joined)>>)}

\* The new group takes the place of the target, which the entry now owns.
Rebuilt(s, g, target, count, joined) ==
  LET a     == ParentAr(s, target)
      swap  == ReplaceGroup(Make(s, a, count), target, New(s))
      entry == Entry("replace", target, New(s), a, joined)
  IN  RebuildTree(PushHistory(swap, <<entry>>),
                  IF s.shown \in {target, g} THEN New(s) ELSE s.shown)

\* Nothing to rebuild, or refused; refused and the write taken back; rebuilt.
FlushRefresh(s) ==
  LET g    == s.refresh
      rest == [s EXCEPT !.refresh = NULL]
  IN  {rest}
      \cup (IF g # NULL /\ LastWrites(s, g)
            THEN {DropHistory([rest EXCEPT !.position = @ - 1], s.position - 1)}
            ELSE {})
      \cup (IF g = NULL THEN {}
            ELSE UNION {UNION {UNION {Rebuilt(rest, g, target, count, joined) :
                     joined \in {FALSE} \cup (IF LastWrites(s, g) THEN {TRUE} ELSE {})} :
                   count \in {n \in Counts(ParentAr(s, target)) : New(s) + n <= MaxGroups}} :
                 target \in Targets(s, g)})

Flushed == FlushRefresh(State)

\* A write that may need a rebuild; one still waiting, of another group or of
\* another field, is applied first.
RequestRefresh(s, g) ==
  {[t EXCEPT !.refresh = g] :
     t \in (IF s.refresh \in {NULL, g} THEN {s} ELSE {})
           \cup (IF s.refresh # NULL THEN FlushRefresh(s) ELSE {})}

-----------------------------------------------------------------------------
\* The rows of a file whose base block failed are those of the file before,
\* which was freed: what a command does with them is not defined.
Idle == loaded /\ dialog = NULL /\ applying = "no"

MayRecord(s, count) == s.position + count <= MaxHistory

Empty == [a \in Arrays |-> {}]

Init ==
  /\ array = Empty
  /\ alive = {}
  /\ made = 0
  /\ padding = {}
  /\ home = [g \in Ids |-> g]
  /\ history = <<>>
  /\ position = 0
  /\ refresh = NULL
  /\ shown = NULL
  /\ dialog = NULL
  /\ applying = "no"
  /\ loaded = FALSE

\* The groups of a file, parsed behind those made so far.
Parse(s, d) ==
  LET moved(gs) == {g + s.made : g \in gs}
      placed    == s.made + 1 .. s.made + d.size
      of(g)     == CHOOSE a \in DOMAIN d.array : g - s.made \in d.array[a]
  IN  [s EXCEPT !.made = @ + d.size,
                !.alive = @ \cup placed,
                !.padding = @ \cup moved(d.padding),
                !.array = [a \in Arrays |-> IF a \in Blocks THEN moved(d.array[a])
                                            ELSE IF a \in placed THEN moved(d.array[a - s.made])
                                            ELSE @[a]],
                !.home = [g \in Ids |-> IF g \notin placed THEN @[g]
                                        ELSE IF of(g) \in Blocks THEN of(g)
                                        ELSE of(g) + s.made]]

\* Mutant: the rebuild that waits is left to wait.
LoadBytesUnflushed(d, opened) ==
  /\ applying = "no"
  /\ LET s       == State
         cleared == [Free(s, Roots(s)) EXCEPT !.array = [a \in Arrays |-> IF a \in Blocks THEN {} ELSE @[a]]]
         parsed  == DropHistory(Parse(cleared, d), 0)
     IN  /\ s.made + d.size <= MaxGroups
         /\ Becomes([parsed EXCEPT !.position = 0, !.shown = IF opened THEN NULL ELSE @])
  /\ loaded' = opened
  /\ UNCHANGED <<dialog, applying>>

\* EDID_cl::Clear, the groups of the file, then the entries of the old one.  A
\* file that opens is shown in the Overview, with no row selected.  The
\* question whether to delete a group stays open.
LoadBytes(d, opened) ==
  /\ applying = "no"
  /\ \E s \in Flushed :
       LET cleared == [Free(s, Roots(s)) EXCEPT
                         !.array = [a \in Arrays |-> IF a \in Blocks THEN {} ELSE @[a]]]
           parsed  == DropHistory(Parse(cleared, d), 0)
       IN  /\ s.made + d.size <= MaxGroups
           /\ Becomes([parsed EXCEPT !.position = 0, !.shown = IF opened THEN NULL ELSE @])
  /\ loaded' = opened
  /\ UNCHANGED <<dialog, applying>>

\* wnd_on_refresh_idle; saving, comparing and a file that is rejected.
Refresh ==
  /\ applying = "no"
  /\ refresh # NULL
  /\ \E s \in Flushed : Becomes(s)
  /\ UNCHANGED <<dialog, applying, loaded>>

\* A row, the row of a block shown as bytes, or the Overview.
Select(row) ==
  /\ Idle
  /\ row \in InDocument(State) \cup {NULL}
  /\ Becomes([State EXCEPT !.shown = row])
  /\ UNCHANGED <<dialog, applying, loaded>>

\* A write is recorded as an entry; it goes on with the newest one, which is
\* dropped when it brings the old value back; or it changed nothing.
Recorded(s, g) ==
  {s, PushHistory(s, <<Entry("field", g, NULL, NULL, FALSE)>>)}
  \cup (IF LastWrites(s, g)
        THEN {[s EXCEPT !.history = SubSeq(@, 1, s.position - 1), !.position = @ - 1]}
        ELSE {})

\* A field or a timing of the group shown; the padding has no fields.
Edit ==
  /\ Idle
  /\ shown # NULL /\ shown \notin padding
  /\ MayRecord(State, 1)
  /\ \E s \in Recorded(State, shown) :
       \E t \in {s} \cup RequestRefresh(s, shown) : Becomes(t)
  /\ UNCHANGED <<dialog, applying, loaded>>

\* A new group is in the document, and its entry recorded.
Inserted(s, a, count) ==
  UNION {LET pushed == PushHistory(t, <<Entry("insert", New(s), NULL, a, FALSE)>>)
         IN  RebuildTree(pushed, New(s)) : t \in Insert(Make(s, a, count), a, New(s))}

\* The padding can't be cloned.
Duplicate ==
  /\ Idle
  /\ \E s \in Flushed :
       LET a == ParentAr(s, s.shown)
       IN  /\ a # NULL /\ s.shown \notin s.padding
           /\ MayRecord(s, 1)
           /\ \E count \in Counts(a) : /\ New(s) + count <= MaxGroups
                                       /\ \E t \in Inserted(s, a, count) : Becomes(t)
  /\ UNCHANGED <<dialog, applying, loaded>>

\* Adding a CTA-861 group or a DisplayID data block to the block shown.
Add ==
  /\ Idle
  /\ \E s \in Flushed, b \in Blocks, count \in SubCounts :
       /\ s.shown \in s.array[b] \/ \E g \in s.array[b] : s.shown \in s.array[g]
       /\ MayRecord(s, 1)
       /\ New(s) + count <= MaxGroups
       /\ \E t \in Inserted(s, b, count) : Becomes(t)
  /\ UNCHANGED <<dialog, applying, loaded>>

Move ==
  /\ Idle
  /\ \E s \in Flushed :
       LET a == ParentAr(s, s.shown)
       IN  /\ a # NULL /\ s.shown \notin s.padding
           /\ MayRecord(s, 1)
           /\ \E t \in RebuildTree(PushHistory(s, <<Entry("move", s.shown, NULL, a, FALSE)>>),
                                   s.shown) : Becomes(t)
  /\ UNCHANGED <<dialog, applying, loaded>>

\* Mutant: the question is asked with a rebuild still waiting.
AskDeleteUnflushed ==
  /\ Idle
  /\ ParentAr(State, shown) # NULL /\ shown \notin padding
  /\ Becomes(State)
  /\ dialog' = shown
  /\ UNCHANGED <<applying, loaded>>

AskDelete ==
  /\ Idle
  /\ \E s \in Flushed : /\ ParentAr(s, s.shown) # NULL /\ s.shown \notin s.padding
                        /\ Becomes(s)
                        /\ dialog' = s.shown
  /\ UNCHANGED <<applying, loaded>>

CancelDelete ==
  /\ dialog # NULL
  /\ dialog' = NULL
  /\ Becomes(State)
  /\ UNCHANGED <<applying, loaded>>

\* The answer for a group that a load freed is not defined.
ConfirmDelete ==
  /\ dialog \in alive
  /\ dialog' = NULL
  /\ LET a   == ParentAr(State, dialog)
         cut == PushHistory(Cut(State, a, dialog), <<Entry("remove", dialog, NULL, a, FALSE)>>)
     IN  IF a = NULL THEN Becomes(State)
         ELSE /\ MayRecord(State, 1)
              /\ \E row \in cut.array[a] \cup {a} : \E t \in RebuildTree(cut, row) : Becomes(t)
  /\ UNCHANGED <<applying, loaded>>

\* Make or remove Preferred: the bytes of timings of the document, which the
\* padding never is; the Overview stays when it was shown.
ApplyChanges ==
  /\ Idle
  /\ \E s \in Flushed, n \in 1 .. MaxChanged :
       /\ MayRecord(s, n)
       /\ \E changed \in [1 .. n -> InDocument(s) \ s.padding] :
            LET pushed == PushHistory(s, [i \in 1 .. n |->
                            Entry("data", changed[i], NULL, NULL, i > 1)])
            IN  \E t \in RebuildTree(pushed, changed[1]) \cup {[pushed EXCEPT !.shown = NULL]} :
                  Becomes(t)
  /\ UNCHANGED <<dialog, applying, loaded>>

\* One turn of the loop of wnd_apply_history; nothing else runs before it ends.
Step(s, redo) ==
  \/ /\ CanStep(s, redo)
     /\ \E t \in StepTo(s, redo) :
          /\ Becomes(t)
          /\ applying' = IF ~NextIsJoined(t) THEN "no" ELSE IF redo THEN "redo" ELSE "undo"
  \/ /\ CanStep(s, redo) => MayFail(s, redo)
     /\ Becomes(s)
     /\ applying' = "no"

Undo ==
  /\ Idle
  /\ position > 0
  /\ \E s \in Flushed : Step(s, FALSE)
  /\ UNCHANGED <<dialog, loaded>>

Redo ==
  /\ Idle
  /\ position < Len(history)
  /\ \E s \in Flushed : Step(s, TRUE)
  /\ UNCHANGED <<dialog, loaded>>

Continue ==
  /\ applying # "no"
  /\ Step(State, applying = "redo")
  /\ UNCHANGED <<dialog, loaded>>

Next ==
  \/ \E d \in Documents, opened \in BOOLEAN : LoadBytes(d, opened)
  \/ Refresh
  \/ \E row \in Ids \cup {NULL} : Select(row)
  \/ Edit
  \/ Duplicate
  \/ Add
  \/ Move
  \/ AskDelete
  \/ CancelDelete
  \/ ConfirmDelete
  \/ ApplyChanges
  \/ Undo
  \/ Redo
  \/ Continue

Spec == Init /\ [][Next]_vars

(***************************************************************************)
(* Properties                                                              *)
(***************************************************************************)
Kinds == {"field", "data", "move", "insert", "remove", "replace"}

\* Arrays and entries hold groups that were made.
TypeOK ==
  /\ array \in [Arrays -> SUBSET Ids]
  /\ made \in 0 .. MaxGroups
  /\ alive \subseteq 1 .. made
  /\ padding \subseteq alive
  /\ home \in [Ids -> Arrays]
  /\ \A i \in DOMAIN history : history[i].kind \in Kinds
  /\ position \in 0 .. Len(history)
  /\ {refresh, shown, dialog} \subseteq 0 .. made
  /\ applying \in {"no", "undo", "redo"}
  /\ loaded \in BOOLEAN

\* Who frees g: the arrays it is in, or the entries that own it.
Holding(g) == {a \in Arrays : g \in array[a]}
Owning(g)  == {i \in DOMAIN history : g \in Owned(State, i)}

\* A group that was not freed has exactly one owner, and a group that was has
\* none: through undo, redo, rebuilds and files opened, no group is freed
\* twice and none is lost ("Structural entries own their group while it is
\* out of the document", window_private.h:53).
OneOwner ==
  \A g \in Ids :
    IF g \in alive
    THEN \/ Owning(g) = {} /\ \E a \in Arrays : Holding(g) = {a}
         \/ Holding(g) = {} /\ \E i \in DOMAIN history : Owning(g) = {i}
    ELSE Holding(g) = {} /\ Owning(g) = {}

\* Every group an entry points to, and the group whose array it was in, is
\* still there: undo and redo write through these pointers.
EntriesAreAlive ==
  \A i \in DOMAIN history :
    /\ history[i].group \in alive
    /\ history[i].kind = "replace" => history[i].replacement \in alive
    /\ history[i].array \in alive \cup Blocks \cup {NULL}

\* Undo and redo find the group where the entry needs it: in the array it is
\* to be taken from, or in none when it is to be put back.
EntriesApply ==
  /\ CanStep(State, FALSE) => StepTo(State, FALSE) # {}
  /\ CanStep(State, TRUE) => StepTo(State, TRUE) # {}
  /\ \A i \in {position, position + 1} \cap DOMAIN history :
       Owned(State, i) \cap UNION {array[a] : a \in Arrays} = {}

\* The group a rebuild waits for is still there when the rebuild comes, also
\* when another file has been opened meanwhile (document.cpp:182).
RefreshIsAlive == refresh # NULL => refresh \in alive

\* The rows shown are of a group of the document, after every rebuild, undo
\* and redo, and when the space for a group was taken from the padding.
ShownIsOpen == loaded /\ shown # NULL => shown \in InDocument(State)

\* The group the user is asked about stays in the document, unless a file
\* opened meanwhile freed it.
AskedIsOpen == dialog \in alive => dialog \in InDocument(State)

\* As long as the list of entries stays as it is no group is freed, but for
\* the padding an undone removal needs: undo can always be undone.
OnlyDroppingFrees ==
  [][history' = history /\ history # <<>> => alive \ alive' \subseteq padding]_vars

(***************************************************************************)
(* What the runs do not check, for it does not hold: see the README.       *)
(***************************************************************************)
\* The group a rebuild waits for is in the document.
RefreshIsOpen == refresh # NULL => refresh \in InDocument(State)

\* The group the user is asked about is still there.
AskedIsAlive == dialog # NULL => dialog \in alive

\* The group of the rows is still there, also when the file could not be read.
ShownIsAlive == shown # NULL => shown \in alive
=============================================================================
