-------------------------- MODULE DisplayIDSection --------------------------
(***************************************************************************)
(* The structure of one DisplayID extension block: core/grpar.cpp          *)
(* (CEA_GrpAr_cl with IsDisplayID), the callers that add, duplicate, move  *)
(* and delete its data blocks (core/EDID_document.cpp, app/sidebar.cpp)    *)
(* and their undo and redo (app/history.cpp).                              *)
(*                                                                         *)
(* The header, item 0 of the array, is not in groups: groups[i] is item i, *)
(* a data block or, last, the padding.  Of a block only its size counts;   *)
(* id tells blocks apart.  Read-only fields stay locked: the payload       *)
(* length is only changed by the structure operations.                     *)
(***************************************************************************)
EXTENDS GroupArray

CONSTANTS
  Capacity,    \* bytes between the header and the checksum of the block: 122
  Limit,       \* longest payload ParseEDID_DisplayID accepts: 121
  NewSize,     \* size of the block CreateGroup makes: 3
  Files,       \* sections to open: sizes of the data blocks, size of the padding
  OtherFree,   \* free_sz a CTA-861 extension opened at this index may leave
  MaxHistory   \* bound: no further change is recorded at this position

HeaderSize == 5

Block(id, size)   == [kind |-> "data", id |-> id, size |-> size, at |-> 0]
Padding(size, at) == [kind |-> "padding", id |-> 0, size |-> size, at |-> at]

\* The data blocks of a file and, behind them, its padding.
ItemsOf(file) ==
  LET blocks == [i \in DOMAIN file.sizes |-> Block(i, file.sizes[i])]
  IN  IF file.padding = 0 THEN blocks ELSE Append(blocks, Padding(file.padding, 0))

SizeOf(file) == TotalSize(ItemsOf(file))

ASSUME SectionAssumption ==
  /\ Capacity \in Nat /\ Limit \in Nat /\ MaxHistory \in Nat
  /\ NewSize \in Nat \ {0}
  /\ OtherFree \subseteq Nat
  /\ \A file \in Files :
       /\ file.sizes \in Seq(Nat \ {0}) /\ file.padding \in Nat
       /\ SizeOf(file) <= Limit

VARIABLES
  groups,    \* items 1 .. GetCount()-1 of the array
  payload,   \* byte 2 of the header
  free,      \* free_sz
  history,   \* entries of this section
  position,  \* history_position
  timeline   \* history variable: the section at every position of the history

vars == <<groups, payload, free, history, position, timeline>>

HasPadding(gs) == gs # <<>> /\ Last(gs).kind = "padding"
DataBlocks(gs) == IF HasPadding(gs) THEN Front(gs) ELSE gs

Section == [groups |-> groups, payload |-> payload, free |-> free]

(***************************************************************************)
(* The array operations, from a section to a section.                      *)
(***************************************************************************)
CalcDataSZ(s) == [s EXCEPT !.free = Capacity - TotalSize(s.groups)]

\* Mutant: the removal of the last block leaves the header as it was.
ReleaseIntoPadding(s, size) ==
  CalcDataSZ(IF HasPadding(s.groups)
             THEN [s EXCEPT !.groups[Len(s.groups)].size = @ + size]
             ELSE s)

DisplayIDRelease(s, size) ==
  CalcDataSZ(IF HasPadding(s.groups)
             THEN [s EXCEPT !.groups[Len(s.groups)].size = @ + size]
             ELSE [s EXCEPT !.payload = @ - size])

\* Mutant: the payload grows by the whole block after the padding was used up.
ReserveAll(s, size) ==
  CalcDataSZ(IF HasPadding(s.groups) /\ Last(s.groups).size > size
             THEN [s EXCEPT !.groups[Len(s.groups)].size = @ - size]
             ELSE IF HasPadding(s.groups)
             THEN [s EXCEPT !.groups = Front(@), !.payload = @ + size]
             ELSE [s EXCEPT !.payload = @ + size])

\* Room for size bytes: taken from the padding, the rest added to the payload.
DisplayIDReserve(s, size) ==
  LET padding == IF HasPadding(s.groups) THEN Last(s.groups).size ELSE 0
  IN  CalcDataSZ(IF padding > size
                 THEN [s EXCEPT !.groups[Len(s.groups)].size = @ - size]
                 ELSE [s EXCEPT !.groups = IF padding > 0 THEN Front(@) ELSE @,
                                !.payload = @ + (size - padding)])

DisplayIDInsertSpace ==
  free + (IF HasPadding(groups) THEN Last(groups).size ELSE 0)

Cut(s, i) ==
  DisplayIDRelease([s EXCEPT !.groups = BaseCut(@, i)], s.groups[i].size)

Placed(s, i, block, at) ==
  CalcDataSZ([s EXCEPT !.groups = PlaceAt(@, i, block, at)])

\* The inserted block takes the offset of the item it pushes down.  When the
\* room came from the padding and used it up, that item is the deleted
\* padding: Item() reads past the end.  What is found there may still be the
\* offset of the padding; a build with library assertions stops instead.
InsertUp(s, i, block) ==
  LET room == DisplayIDReserve(s, block.size)
      seen == IF i <= Len(room.groups) THEN {room.groups[i].at} ELSE {s.groups[i].at, Stray}
  IN  {Placed(room, i, block, at) : at \in seen}

\* Behind item i; behind the last item when item i is the last one.
InsertDn(s, i, block) ==
  CalcDataSZ([DisplayIDReserve(s, block.size) EXCEPT
                !.groups = BaseInsertDn(@, HeaderSize, i, block)])

\* Mutant: the offsets are updated behind the two groups only.
MoveDnOnly(s, i) ==
  [s EXCEPT !.groups = [@ EXCEPT ![i] = s.groups[i + 1], ![i + 1] = s.groups[i]]]

\* Items i and i + 1 change places; base_MoveDn does not compute free_sz.
MoveDn(s, i) == [s EXCEPT !.groups = BaseMoveDn(@, i)]

\* Mutant: the group goes in front of the one before its index.
InsertAbove(s, i, block) == InsertDn(s, IF i > 1 THEN i - 2 ELSE 0, block)

\* EDID_cl::InsertGroupAt: there is always a header, so the index is never 0.
InsertGroupAt(s, i, block) == InsertDn(s, i - 1, block)

ReplaceGroup(s, i, block) ==
  LET replaced == InsertGroupAt(Cut(s, i), i, block)
  IN  IF replaced.free >= 0
      THEN [ok |-> TRUE, section |-> replaced]
      ELSE [ok |-> FALSE,
            section |-> InsertGroupAt(Cut(replaced, i), i, s.groups[i])]

\* What ParseEDID_DisplayID makes of a section; it leaves free_sz as it is.
Parsed(file) == UpdateAbsOffs(ItemsOf(file), 1, HeaderSize)

(***************************************************************************)
(* The history of the section.                                             *)
(***************************************************************************)
Content(s) ==
  [blocks  |-> [i \in DOMAIN DataBlocks(s.groups) |->
                  <<DataBlocks(s.groups)[i].id, DataBlocks(s.groups)[i].size>>],
   padding |-> IF HasPadding(s.groups) THEN Last(s.groups).size ELSE 0,
   payload |-> s.payload]

IndexOf(gs, block) == CHOOSE i \in DOMAIN gs : gs[i].id = block.id

\* Mutant: a move up is taken back as if it had been one down.
SwapBelow(entry) == entry.index

\* A move swaps two neighbours, so redo and undo swap the same two again.
SwapOf(entry) == IF entry.up THEN entry.index - 1 ELSE entry.index

Refuse(s) == [ok |-> FALSE, section |-> s]
Accept(s) == [ok |-> TRUE, section |-> s]

ApplyStructure(s, entry, redo) ==
  CASE entry.kind = "replace" ->
         LET current == IF redo THEN entry.block ELSE entry.other
             next    == IF redo THEN entry.other ELSE entry.block
         IN  ReplaceGroup(s, IndexOf(s.groups, current), next)
    [] entry.kind = "move" ->
         Accept(MoveDn(s, SwapOf(entry)))
    [] entry.kind \in {"insert", "remove"} /\ (entry.kind = "insert") = redo ->
         Accept(InsertGroupAt(s, entry.index, entry.block))
    [] OTHER ->
         IF entry.index <= Len(s.groups) /\ s.groups[entry.index].id = entry.block.id
         THEN Accept(Cut(s, entry.index))
         ELSE Refuse(s)

Entry(kind, block, index) ==
  [kind |-> kind, block |-> block, index |-> index, up |-> FALSE, other |-> block]

Becomes(s) ==
  /\ groups' = s.groups
  /\ payload' = s.payload
  /\ free' = s.free

Record(s, entry) ==
  /\ Becomes(s)
  /\ history' = Append(SubSeq(history, 1, position), entry)
  /\ position' = position + 1
  /\ timeline' = Append(SubSeq(timeline, 1, position + 1), Content(s))

(***************************************************************************)
(* The operations of the editor.                                           *)
(***************************************************************************)
MayEdit == position < MaxHistory

\* A block gets an id that neither the section nor an entry still uses: the
\* entries behind the position are dropped with their blocks.
NewId ==
  1 + Max({0} \cup {groups[i].id : i \in DOMAIN groups}
              \cup {history[j].block.id : j \in 1 .. position}
              \cup {history[j].other.id : j \in 1 .. position})

IsData(i) == i \in DOMAIN groups /\ groups[i].kind = "data"

\* edid_insert_group: in front of the padding, or behind the last block;
\* nothing is added to a section with neither.
Add ==
  LET block == Block(NewId, NewSize)
      n     == Len(groups)
  IN  /\ MayEdit
      /\ n > 0
      /\ NewSize <= DisplayIDInsertSpace
      /\ \E s \in IF HasPadding(groups) THEN InsertUp(Section, n, block)
                                        ELSE {InsertDn(Section, n, block)} :
           Record(s, Entry("insert", block, IF HasPadding(groups) THEN n ELSE n + 1))

\* Mutant: the copy is inserted without asking whether it fits.
DuplicateUnchecked(i) ==
  LET copy == Block(NewId, groups[i].size)
  IN  /\ MayEdit
      /\ IsData(i)
      /\ Record(InsertDn(Section, i, copy), Entry("insert", copy, i + 1))

\* Mutant: the entry names the index of the group that was copied.
DuplicateAtSource(i) ==
  LET copy == Block(NewId, groups[i].size)
  IN  /\ MayEdit
      /\ IsData(i)
      /\ copy.size <= DisplayIDInsertSpace
      /\ Record(InsertDn(Section, i, copy), Entry("insert", copy, i))

Duplicate(i) ==
  LET copy == Block(NewId, groups[i].size)
  IN  /\ MayEdit
      /\ IsData(i)
      /\ copy.size <= DisplayIDInsertSpace
      /\ Record(InsertDn(Section, i, copy), Entry("insert", copy, i + 1))

Delete(i) ==
  /\ MayEdit
  /\ IsData(i)
  /\ Record(Cut(Section, i), Entry("remove", groups[i], i))

MoveUp(i) ==
  /\ MayEdit
  /\ i > 1 /\ IsData(i)
  /\ Record(MoveDn(Section, i - 1), [Entry("move", groups[i], i) EXCEPT !.up = TRUE])

MoveDown(i) ==
  /\ MayEdit
  /\ IsData(i) /\ IsData(i + 1)
  /\ Record(MoveDn(Section, i), Entry("move", groups[i], i))

\* A field of the block decides its layout: the block is built anew, with
\* the same size.
Rebuild(i) ==
  /\ MayEdit
  /\ IsData(i)
  /\ LET rebuilt == Block(NewId, groups[i].size)
         result  == ReplaceGroup(Section, i, rebuilt)
     IN  IF result.ok
         THEN /\ Record(result.section, [Entry("replace", groups[i], i) EXCEPT !.other = rebuilt])
         ELSE /\ Becomes(result.section)
              /\ UNCHANGED <<history, position, timeline>>

\* Undo and redo go one entry on; one that can't be applied stays.
Undo ==
  /\ position > 0
  /\ LET result == ApplyStructure(Section, history[position], FALSE)
     IN  /\ Becomes(result.section)
         /\ position' = IF result.ok THEN position - 1 ELSE position
  /\ UNCHANGED <<history, timeline>>

Redo ==
  /\ position < Len(history)
  /\ LET result == ApplyStructure(Section, history[position + 1], TRUE)
     IN  /\ Becomes(result.section)
         /\ position' = IF result.ok THEN position + 1 ELSE position
  /\ UNCHANGED <<history, timeline>>

\* Another EDID: the arrays are cleared and filled, free_sz is not computed.
Open(file) ==
  /\ \E left \in {free} \cup OtherFree :
       Becomes([groups |-> Parsed(file), payload |-> SizeOf(file), free |-> left])
  /\ history' = <<>>
  /\ position' = 0
  /\ timeline' = <<Content([groups |-> Parsed(file), payload |-> SizeOf(file)])>>

Init ==
  \E file \in Files :
    /\ groups = Parsed(file)
    /\ payload = SizeOf(file)
    /\ free = 0
    /\ history = <<>>
    /\ position = 0
    /\ timeline = <<Content([groups |-> Parsed(file), payload |-> SizeOf(file)])>>

Next ==
  \/ Add
  \/ \E i \in DOMAIN groups :
       Duplicate(i) \/ Delete(i) \/ MoveUp(i) \/ MoveDown(i) \/ Rebuild(i)
  \/ Undo
  \/ Redo
  \/ \E file \in Files : Open(file)

Spec == Init /\ [][Next]_vars

(***************************************************************************)
(* Properties                                                              *)
(***************************************************************************)
\* The groups are data blocks with different ids and at most one padding.
TypeOK ==
  /\ \A i \in DOMAIN groups :
       /\ groups[i].kind = "data" \/ (groups[i].kind = "padding" /\ i = Len(groups))
       /\ groups[i].size \in Nat \ {0}
       /\ groups[i].at \in Nat \cup {Stray}
  /\ IsInjective([i \in DOMAIN groups |-> groups[i].id])
  /\ payload \in Nat
  /\ free \in Int
  /\ position \in 0 .. Len(history)
  /\ Len(timeline) = Len(history) + 1

\* The payload length in the header is what the groups add up to, through all
\* of adding, deleting, undoing and redoing: AssembleEDID, which compares the
\* two, never refuses to save (EDID_main.cpp:1351-1358).
PayloadIsCovered == payload = TotalSize(groups)

\* Undo and redo bring back the data blocks the section had at that position,
\* in that order, although the entries name them by index and the padding
\* comes and goes.
BlocksFollowHistory ==
  Content(Section).blocks = timeline[position + 1].blocks

\* No entry meets a structure it can't be applied to ("Couldn't restore the
\* previous structure", history.cpp:145).
HistoryApplies ==
  /\ position > 0 => ApplyStructure(Section, history[position], FALSE).ok
  /\ position < Len(history) => ApplyStructure(Section, history[position + 1], TRUE).ok

\* The groups never take more than the block has (AssembleEDID: "size limit
\* reached", EDID_main.cpp:1368).
GroupsFitBlock == TotalSize(groups) <= Capacity

\* The document was opened from a file whose section had no padding.
Plain == timeline[1].padding = 0

\* Every group has the offset its bytes are written to, which the Bytes view
\* and the command line's CODE@OFFSET go by.
OffsetsMatch ==
  \A i \in DOMAIN groups :
    groups[i].at = HeaderSize + TotalSize(SubSeq(groups, 1, i - 1))

\* They do in a section that never had padding, whatever was opened before it:
\* insertions, removals and moves update offsets from where they change the
\* array (grpar.cpp).
PlainOffsetsMatch == Plain => OffsetsMatch

\* Undo and redo bring back the whole section as it was, padding and payload
\* length included: usage.md:81, "Undo and Redo cover these changes".
SectionFollowsHistory == Content(Section) = timeline[position + 1]

\* They do where no padding was there to be used up.
PlainFollowsHistory == Plain => SectionFollowsHistory

\* What the entries promise of the data blocks, whatever becomes of the padding:
\* undo and redo move along a timeline of them and a change only cuts off what
\* is ahead.  Whether they are saved is the business of EditHistory.
NotSaved == "not saved"

BlockPoints == [k \in DOMAIN timeline |-> timeline[k].blocks]

Timeline == INSTANCE UndoTimeline WITH
  Nothing  <- NotSaved,
  document <- Content(Section).blocks,
  timeline <- BlockPoints,
  cursor   <- position + 1,
  onFile   <- NotSaved,
  saving   <- NotSaved,
  modified <- TRUE

\* The section implements UndoTimeline: an entry that can't be applied moves
\* nothing (history.cpp:143-147), any other leads to the blocks of another point.
BlocksAreATimeline == Timeline!Spec

\* What the editor makes of a section can be opened again: "up to 121 payload
\* bytes" (grpar.cpp:699), the limit of ParseEDID_DisplayID.
PayloadIsReadable == payload <= Limit
=============================================================================
