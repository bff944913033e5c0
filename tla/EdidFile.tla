------------------------------ MODULE EdidFile ------------------------------
(***************************************************************************)
(* What the editor writes opens again: an EDID of a base block and a       *)
(* CTA-861 extension from edid_load (core/EDID_document.cpp) and           *)
(* ParseEDID_CEA (core/EDID_main.cpp) through changes of its groups        *)
(* (core/grpar.cpp, app/sidebar.cpp) to edid_prepare_output and             *)
(* AssembleEDID, and back.                                                 *)
(*                                                                         *)
(* image is EDID_buff: the block count of the base block, its descriptors, *)
(* and the extension with its header and what lies behind it.  Further     *)
(* extensions are only counted.  Of the base block's descriptors only how  *)
(* many are timings counts.  The groups are parsed from image and copied   *)
(* back when the EDID is assembled.                                        *)
(***************************************************************************)
EXTENDS GroupArray

CONSTANTS
  Capacity,     \* bytes between header and checksum of the extension: 123
  TimingSize,   \* 18
  DataSizes,    \* sizes of data blocks, made or changed
  Counts,       \* values the field of an override block is set to
  Clocks,       \* whether a clock is set to a rate (TRUE) or to 0 (FALSE)
  Descriptors,  \* descriptors of the base block: 4
  Files         \* EDIDs to open

HeaderSize == 4
OverrideSize == 3

Item(kind, size, count) == [kind |-> kind, size |-> size, count |-> count]

Kinds == {"data", "override", "timing", "dark", "junk"}
Items == [kind : Kinds, size : Nat \ {0}, count : Nat]

\* An EDID has at least one extension.
Images ==
  [blocks : Nat \ {0, 1}, count : Nat, timings : 0 .. Descriptors, native : Nat,
   offset : Nat, items : Seq(Items)]

\* A group made anew has no place yet.
Group(item) == [kind |-> item.kind, size |-> item.size, count |-> item.count, at |-> 0]
Strip(gs) == [i \in DOMAIN gs |-> Item(gs[i].kind, gs[i].size, gs[i].count)]

\* "dark" is a timing whose pixel clock is 0; "junk" bytes that are no group.
IsTiming(g) == g.kind \in {"timing", "dark"}
IsData(g)   == g.kind \in {"data", "override"}

\* The offset where the first n items of the extension end.
End(items, n) == HeaderSize + TotalSize(SubSeq(items, 1, n))

\* Files have data blocks first, and a timing offset on or inside the last of
\* them, if it is not 0 or refused.
ASSUME FileAssumption ==
  /\ {Capacity, Descriptors} \subseteq Nat /\ Counts \subseteq Nat
  /\ {TimingSize} \cup DataSizes \subseteq Nat \ {0}
  /\ Clocks \subseteq BOOLEAN
  /\ Files \subseteq Images
  /\ \A f \in Files :
       /\ TotalSize(f.items) <= Capacity
       /\ \E n \in 0 .. Len(f.items) :
              /\ \A i \in DOMAIN f.items : IsData(f.items[i]) <=> i <= n
              /\ \/ f.offset < HeaderSize
                 \/ f.offset \in End(f.items, IF n = 0 THEN 0 ELSE n - 1) + 1 .. End(f.items, n)
                 \/ n = 0 /\ f.offset = HeaderSize

VARIABLES
  image,   \* EDID_buff
  base,    \* descriptors of the base block: how many timings, how many others
  open,    \* the extension was parsed: its array holds the header and cta
  cta,     \* groups of the extension
  free,    \* free_sz of the extension's array
  ignore,  \* b_ERR_Ignore
  saved    \* the file last written, if any, and, to compare, what was to be

vars == <<image, base, open, cta, free, ignore, saved>>

(***************************************************************************)
(* Reading.                                                                *)
(***************************************************************************)
\* EDID_cl::DeclaredBlocks: an override block, first in the first extension,
\* takes the place of the base block's count.
Overridden(img) ==
  /\ img.items # <<>>
  /\ Head(img.items).kind = "override"
  /\ img.offset >= HeaderSize + OverrideSize

Declared(img) == 1 + (IF Overridden(img) THEN Head(img.items).count ELSE img.count)

Counted(img) == img.blocks \in {Declared(img), 1 + img.count}

\* Opened with errors ignored, the count is corrected where it lives.
Adjusted(img) ==
  IF Counted(img) THEN img
  ELSE IF Declared(img) # 1 + img.count
       THEN [img EXCEPT !.items[1].count = img.blocks - 1]
       ELSE [img EXCEPT !.count = img.blocks - 1]

\* EDID_cl::ParseEDID_CEA.  Data blocks are read until the timing offset is
\* reached, then timings until a clock is 0.  What is left must be zero.
Parsed(img, ignored) ==
  LET items   == img.items
      reached == {n \in 1 .. Len(items) : End(items, n) >= img.offset}
      blocks  == IF img.offset <= HeaderSize THEN 0
                 ELSE IF reached = {} THEN -1 ELSE Min(reached)
      lit     == {n \in 0 .. Len(items) - blocks :
                    \A i \in blocks + 1 .. blocks + n : items[i].kind = "timing"}
      timings == Max(lit)
      parsed  == [i \in 1 .. blocks + timings |-> Group(items[i])]
      regular == /\ End(items, blocks) = img.offset
                 /\ img.native - img.timings <= timings
                 /\ blocks + timings = Len(items)
      \* Bytes that are no data block are not read as one.
      opens   == /\ img.offset >= HeaderSize
                 /\ blocks >= 0
                 /\ \A i \in 1 .. blocks : IsData(items[i])
                 /\ ignored \/ regular
  IN  IF img.offset # 0 /\ opens
      THEN [opens |-> TRUE, sized |-> TRUE, groups |-> UpdateAbsOffs(parsed, 1, HeaderSize)]
      ELSE [opens |-> img.offset = 0, sized |-> FALSE, groups |-> <<>>]

\* The arrays are filled from img.  An extension of a header alone leaves
\* free_sz as it is: as the EDID before left it, or 0 in a new window.
Load(img, ignored, left) ==
  LET read == Parsed(img, ignored)
  IN  /\ image' = img
      /\ base' = [timings |-> img.timings, others |-> Descriptors - img.timings]
      /\ open' = read.opens
      /\ cta' = read.groups
      /\ free' = IF read.sized THEN Capacity - TotalSize(read.groups) ELSE left

(***************************************************************************)
(* Writing.                                                                *)
(***************************************************************************)
\* CEA_Set_DTD_Offset, from the offsets the groups carry.
DtdOffset(gs) ==
  LET timings == {i \in DOMAIN gs : IsTiming(gs[i])}
  IN  IF timings # {} THEN gs[Min(timings)].at
      ELSE IF gs = <<>> THEN 0
      ELSE Last(gs).at + Last(gs).size

\* Mutant: the timing offset of the header stays as it was read.
AssembledKeepingOffset ==
  [image EXCEPT !.timings = base.timings,
                !.items   = IF open THEN Strip(cta) ELSE @]

\* Mutant: an extension that was not parsed is assembled like any other.
AssembledUnparsed ==
  [image EXCEPT !.timings = base.timings,
                !.offset  = DtdOffset(cta),
                !.items   = Strip(cta)]

\* EDID_cl::AssembleEDID: groups are copied in order, the rest is cleared.  An
\* extension without groups stays as it was read.  Missing descriptors of the
\* base block are filled up, which adds no timing.
Assembled ==
  [image EXCEPT !.timings = base.timings,
                !.offset  = IF open THEN DtdOffset(cta) ELSE @,
                !.items   = IF open THEN Strip(cta) ELSE @]

\* Whether AssembleEDID gets through.
Assembles ==
  /\ ignore \/ base.timings + base.others = Descriptors
  /\ \A i \in DOMAIN cta : End(cta, i - 1) < HeaderSize + Capacity

\* edid_prepare_output looks at the count before it assembles.
Save ==
  /\ Counted(image)
  /\ Assembles
  /\ image' = Assembled
  /\ saved' = {[open |-> open, items |-> Strip(cta), timings |-> base.timings,
                image |-> Assembled]}
  /\ UNCHANGED <<base, open, cta, free, ignore>>

\* The file just written is opened again, here or in another window.
Reopen ==
  /\ \E s \in saved, left \in {free, 0} :
       /\ ignore \/ Counted(s.image)
       /\ Load(Adjusted(s.image), ignore, left)
  /\ UNCHANGED <<ignore, saved>>

(***************************************************************************)
(* Changing the groups of the extension.                                   *)
(***************************************************************************)
\* CalcDataSZ follows every insertion and removal.
Becomes(gs) ==
  /\ cta' = gs
  /\ free' = Capacity - TotalSize(gs)
  /\ UNCHANGED <<image, base, open, ignore, saved>>

FirstTiming == Min({i \in DOMAIN cta : IsTiming(cta[i])} \cup {Len(cta) + 1})

\* Mutant: the group is added behind the last one.
InsertLast(group) ==
  /\ open
  /\ group.size <= free
  /\ Becomes(BaseInsertDn(cta, HeaderSize, Len(cta), group))

\* edid_insert_group: in front of the first timing, or behind the last block.
InsertGroup(group) ==
  /\ open
  /\ group.size <= free
  /\ Becomes(IF FirstTiming <= Len(cta) THEN BaseInsertUp(cta, FirstTiming, group)
                                        ELSE BaseInsertDn(cta, HeaderSize, Len(cta), group))

AddData(size) == InsertGroup(Group(Item("data", size, 0)))

\* A new timing is a copy of the selected one, or of the first of the base block.
AddTiming ==
  \E kind \in {"timing"} \cup {g.kind : g \in {h \in ToSet(cta) : IsTiming(h)}} :
    InsertGroup(Group(Item(kind, TimingSize, 0)))

Duplicate(i) ==
  /\ cta[i].size <= free
  /\ Becomes(BaseInsertDn(cta, HeaderSize, i, cta[i]))

Delete(i) == Becomes(BaseCut(cta, i))

\* Mutant: a data block may move below a timing.
MoveDnAnywhere(i) ==
  /\ i < Len(cta)
  /\ cta' = BaseMoveDn(cta, i)
  /\ UNCHANGED <<image, base, open, free, ignore, saved>>

\* CanMoveDn and base_MoveDn, which does not compute free_sz.
MoveDn(i) ==
  /\ i < Len(cta)
  /\ IsTiming(cta[i]) \/ ~IsTiming(cta[i + 1])
  /\ cta' = BaseMoveDn(cta, i)
  /\ UNCHANGED <<image, base, open, free, ignore, saved>>

\* CanMoveUp: a timing only below a timing, a data block below anything.
MoveUp(i) ==
  /\ i > 1
  /\ IsTiming(cta[i]) => IsTiming(cta[i - 1])
  /\ cta' = BaseMoveDn(cta, i - 1)
  /\ UNCHANGED <<image, base, open, free, ignore, saved>>

\* A part of a data block is added, copied or deleted: the array of the block
\* updates the offsets from the block on and the free space.
ChangeSubGroups(i, size) ==
  /\ cta[i].kind = "data"
  /\ size # cta[i].size
  /\ size - cta[i].size <= free
  /\ Becomes(UpdateAbsOffs([cta EXCEPT ![i].size = size], i, cta[i].at))

Replaced(gs, i, group) == BaseInsertDn(BaseCut(gs, i), HeaderSize, i - 1, group)

\* Mutant: a group that has become too long stays.
RebuildUnchecked(i, size) ==
  /\ cta[i].kind = "data"
  /\ Becomes(Replaced(cta, i, Group(Item("data", size, 0))))

\* The length of a data block is changed and the block built anew;
\* ReplaceGroup puts the former one back if the new one does not fit.
Rebuild(i, size) ==
  LET rebuilt == Replaced(cta, i, Group(Item("data", size, 0)))
  IN  /\ cta[i].kind = "data"
      /\ Becomes(IF TotalSize(rebuilt) <= Capacity THEN rebuilt ELSE Replaced(rebuilt, i, cta[i]))

\* Fields: the count of an override block, the pixel clock of a timing.
SetCount(i, count) ==
  /\ cta[i].kind = "override"
  /\ cta' = [cta EXCEPT ![i].count = count]
  /\ UNCHANGED <<image, base, open, free, ignore, saved>>

SetClock(i, lit) ==
  /\ IsTiming(cta[i])
  /\ cta' = [cta EXCEPT ![i].kind = IF lit THEN "timing" ELSE "dark"]
  /\ UNCHANGED <<image, base, open, free, ignore, saved>>

(***************************************************************************)
(* Changing the descriptors of the base block.                             *)
(***************************************************************************)
Describe(timings, others) ==
  /\ timings >= 0 /\ others >= 0
  /\ timings + others <= Descriptors
  /\ base' = [timings |-> timings, others |-> others]
  /\ UNCHANGED <<image, open, cta, free, ignore, saved>>

DeleteDescriptor ==
  Describe(base.timings - 1, base.others) \/ Describe(base.timings, base.others - 1)

DuplicateDescriptor ==
  \/ base.timings > 0 /\ Describe(base.timings + 1, base.others)
  \/ base.others > 0 /\ Describe(base.timings, base.others + 1)

\* A timing whose pixel clock is set to 0 becomes another descriptor.
RetypeDescriptor == Describe(base.timings - 1, base.others + 1)

SetIgnore ==
  /\ ignore' = ~ignore
  /\ UNCHANGED <<image, base, open, cta, free, saved>>

(***************************************************************************)
(* The specification.                                                      *)
(***************************************************************************)
Init ==
  \E f \in Files, ignored \in BOOLEAN :
    LET img  == Adjusted(f)
        read == Parsed(img, ignored)
    IN  /\ ignored \/ Counted(f)
        /\ image = img
        /\ base = [timings |-> img.timings, others |-> Descriptors - img.timings]
        /\ open = read.opens
        /\ cta = read.groups
        /\ free = IF read.sized THEN Capacity - TotalSize(read.groups) ELSE 0
        /\ ignore = ignored
        /\ saved = {}

Next ==
  \/ Save
  \/ Reopen
  \/ \E size \in DataSizes : AddData(size)
  \/ AddTiming
  \/ \E i \in DOMAIN cta :
       \/ Duplicate(i) \/ Delete(i) \/ MoveUp(i) \/ MoveDn(i)
       \/ \E size \in DataSizes : ChangeSubGroups(i, size) \/ Rebuild(i, size)
       \/ \E count \in Counts : SetCount(i, count)
       \/ \E lit \in Clocks : SetClock(i, lit)
  \/ DeleteDescriptor
  \/ DuplicateDescriptor
  \/ RetypeDescriptor
  \/ SetIgnore

Spec == Init /\ [][Next]_vars

(***************************************************************************)
(* Properties                                                              *)
(***************************************************************************)
\* Types; the groups are data blocks and timings, the base block has no more
\* descriptors than it has room for, and an extension that was not parsed has
\* no groups.
TypeOK ==
  /\ \A i \in DOMAIN cta :
       /\ IsData(cta[i]) \/ IsTiming(cta[i])
       /\ cta[i].size \in Nat \ {0} /\ cta[i].count \in Nat /\ cta[i].at \in Nat
  /\ base.timings \in Nat /\ base.others \in Nat
  /\ base.timings + base.others <= Descriptors
  /\ open \in BOOLEAN /\ ignore \in BOOLEAN
  /\ free \in Int
  /\ ~open => cta = <<>>

\* The count of blocks written agrees with the blocks there are.  Does not
\* hold: the count is looked at before the groups are assembled
\* (EDID_document.cpp:160), so an override block changed, moved or deleted
\* since is written anyway.
CountStands == \A s \in saved : Counted(s.image)

\* The mandatory timings a saved header claims are there ("if infoblk_t.num_dtd
\* > 0, then at least num_dtd DTD structures must be present", CEA.h:319).
\* Does not hold: no change of a timing changes the claim.
NativesArePresent ==
  \A s \in saved : s.open =>
    s.image.native <= s.timings + Cardinality({i \in DOMAIN s.items : IsTiming(s.items[i])})

\* Every saved timing has a clock.  Does not hold: the clock field takes 0,
\* and the parser takes such a timing for the padding.
TimingsAreLit == \A s \in saved : \A i \in DOMAIN s.items : s.items[i].kind # "dark"

\* What was written opens again without ignoring errors, and its groups are
\* the ones that were written: offsets, order, sizes and padding are as the
\* parser wants them, however the EDID was opened and changed.  Three changes
\* the editor allows are left out: see NativesArePresent, CountStands and
\* TimingsAreLit.
SavedOpensAgain ==
  \A s \in saved :
    s.open /\ CountStands /\ NativesArePresent /\ TimingsAreLit =>
      LET read == Parsed(s.image, FALSE)
      IN  read.opens /\ Strip(read.groups) = s.items /\ s.image.timings = s.timings

\* The groups never take more than the block has: AssembleEDID copies a group
\* whose end lies outside without asking (EDID_main.cpp:1258-1312).
GroupsFitBlock == TotalSize(cta) <= Capacity

\* The free space of every parsed extension is known.  Does not hold: a header
\* without groups leaves it as it was.
FreeSpaceIsKnown == open => free = Capacity - TotalSize(cta)

\* Data blocks stay in front of the timings: the timing offset in the header
\* divides the two (EDID_main.cpp:1168-1199).
DataBeforeTimings ==
  \A i, j \in DOMAIN cta : IsTiming(cta[i]) /\ IsData(cta[j]) => j < i

\* Every group carries the offset its bytes are written to: the timing offset
\* and the Bytes view go by it.
OffsetsMatch == \A i \in DOMAIN cta : cta[i].at = End(cta, i - 1)

\* An extension that could not be parsed is written as it was read, whatever
\* is done to the rest (usage.md:85, "Data the editor does not understand is
\* kept").
UnreadIsKept ==
  [][~open /\ ~open' => [image' EXCEPT !.timings = 0] = [image EXCEPT !.timings = 0]]_vars
=============================================================================
