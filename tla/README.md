# Verification of EDID Editor

TLA+ models of EDID Editor (the GTK application in `app/`, the command line
tool in `cli/`, the EDID library in `core/`), the TLC configurations that check
them on small instances, and theorems about them that TLAPS proves. Paths below
are relative to the repository.

Parse with SANY, check with `tlc -config X.cfg M`, prove the modules named
`...Proofs` with `tlapm`. `PROJECT.json` lists the runs, the lines every
definition stands for, the mutants that show each property can fail, the hazards
the properties are for, and the theorems.

## The system

The editor shows one EDID per window. An EDID is a base block of 128 bytes and
extension blocks (CTA-861, DisplayID). Loading splits each block into *groups*
(`edi_grp_cl`) held in *arrays* (`GroupAr_cl`); a group has *fields*, and a
field a handler that reads and writes it. Saving assembles the groups again.

| Part | State | Operations | Source |
| --- | --- | --- | --- |
| Edit history | entries, position, saved position, whether the write under way still matches, the focused row, the waiting rebuild | record, coalesce, rebuild, undo, redo, swap timings, change groups | `app/history.cpp`, `app/fields.cpp` |
| Group ownership | the groups in the arrays and in the entries, the waiting rebuild's group, the selected row, `pending_delete` | add, duplicate, move, delete, rebuild, undo, redo, open a file | `app/history.cpp`, `app/sidebar.cpp`, `core/grpar.cpp` |
| Document session | document, its file and source, load errors, reads and the write under way, dialogs, waiting close request | open, reload, import, open from display, save, save as, close | `app/document.cpp`, `app/window.cpp` |
| Block arrays | groups, offsets, free space, header bytes | insert, cut, move, replace, CTA-861 and DisplayID variants | `core/grpar.cpp`, `core/EDID_document.cpp` |
| EDID | block buffers, parsed arrays, checksums | parse, assemble, rebuild a group, append and insert | `core/EDID_main.cpp`, `core/EDID_document.cpp` |
| Fields | the bytes of a group, its parts and their fields | lay a group out from its bytes, read and write a value: some 540 table entries over about 80 handlers | `core/EDID_base.cpp`, `core/EDID_dsc.cpp`, `core/CEA*.cpp`, `core/DisplayID.cpp` |
| Timings | none of their own | decode and encode a detailed timing, find and change the preferred one | `core/EDID_timing.cpp`, `app/timing.cpp` |
| Text, comparison, summary | none | read and write hexadecimal, pair the groups of two EDIDs, describe an EDID | `core/EDID_text.cpp`, `core/EDID_compare.cpp`, `core/EDID_summary.cpp` |
| Displays | none | list `/sys/class/drm` on a thread | `core/EDID_display.cpp` |
| Command line | none | one pass over its arguments, with the library's operations | `cli/main.cpp` |
| Views | widgets | sidebar, fields, overview, raw bytes, timing editor | `app/sidebar.cpp`, `app/overview.cpp`, `app/window.cpp` |

How they interact. Views call the recording functions of the history; the
history writes fields through handlers and moves groups between arrays and
itself, and asks the EDID to rebuild a group, at once or from an idle handler.
The session captures the history position when a save begins and reports it
when GIO calls back; a load clears the history. Reads, the list of displays and
writes run outside the main loop and come back as callbacks, in any order and
after any number of user actions. Everything else runs on the main thread.

What is hard here:

- a change has three parts done at different times (the write, its entry, the
  rebuild of its group), with undo, saves and loads in between;
- a save is reported after the history it was taken from may have changed;
- three things can arrive late (a read, a list of displays, a written file), and
  each then acts on another document than the one it was asked for;
- entries name groups by index, while padding appears and disappears;
- a group taken out of the document lives on in an entry of the history, which
  frees it when it is dropped; rows, a waiting rebuild and a question point to
  groups as well;
- header bytes, free space and offsets repeat what the groups already say and
  are updated apart from them;
- a group's fields depend on its bytes: a value decides which fields there are,
  handlers share flags and bits, and each places its value by constants of its
  own.

What makes each part correct:

- **Edit history**: the content is what the applied entries make of the opened
  EDID; undo and redo bring contents back whole; a document shown as unmodified
  is what its file holds.
- **Group ownership**: every group has one owner until it is freed, and nothing
  that is still used points to a freed one.
- **Document session**: nothing modified is dropped without a question; a file
  asked for later wins; every read, save and close request is answered.
- **Block arrays**: header, free space and offsets agree with the groups; what
  is accepted fits and can be opened again; undo restores the section.
- **EDID**: what is assembled parses to the same groups, and what was not
  understood is written back; planned: checksums are right, and a refused load
  leaves the former EDID alone.
- **Fields**: the fields shown are those of the bytes; an edit changes one value,
  is read back as it was typed, and can be undone to the same bytes; every bit
  is shown by a field.
- **Timings** (planned): exactly one timing is preferred; encoding a decoded
  timing gives the same bytes.

## Modules

| Module | What it is |
| --- | --- |
| `UndoTimeline` | Abstract specification: a document is a point of a timeline of contents; undo and redo move along it, an edit cuts off what is ahead; what is not modified is on file |
| `EditHistory` | `history.cpp` and the recording half of `fields.cpp`; implements `UndoTimeline` |
| `EditHistoryProofs` | Theorems about the positions of `EditHistory` |
| `EditTimelineProofs` | Theorems about its contents: what the entries make of them, and that it implements `UndoTimeline` |
| `EditTypingProofs` | Theorems about windows with text fields too |
| `GroupOwnership` | who holds and frees a group, and what points to one: the structural half of `history.cpp`, the group commands of `sidebar.cpp` |
| `GroupOwnershipProofs` | Theorems about `GroupOwnership` |
| `DocumentSession` | `document.cpp` and the close handling of `window.cpp` |
| `DocumentSessionProofs` | Theorems about `DocumentSession` |
| `GroupArray` | the array of groups both kinds of extension share: the `base_` functions of `grpar.cpp` |
| `GroupArrayProofs` | Lemmas about these functions: sizes, offsets, order |
| `DisplayIDSection` | extends `GroupArray`: the DisplayID half of `CEA_GrpAr_cl`, with its undo and redo; its data blocks implement `UndoTimeline` |
| `DisplayIDSectionProofs` | Theorems about `DisplayIDSection` |
| `EdidFile` | extends `GroupArray`: loading, changing, assembling and reopening an EDID with a CTA-861 extension |
| `EdidFileProofs` | Theorems about `EdidFile` |
| `Fields` | one value of a group: the handlers of `src/core` and what a table entry adds to them |
| `BaseGroups` | the groups of the base block and its descriptors: `EDID_base.cpp`, `EDID_dsc.cpp` |
| `CtaGroups` | data blocks of a CTA-861 extension and the two functions that lay them out: `CEA.cpp` |
| `ExtendedGroups` | data blocks with an extended tag: `CEA_ET.cpp` |
| `DisplayIDGroups` | data blocks of a DisplayID extension: `DisplayID.cpp` |
| `GroupFields` | one group of any of these kinds while its fields are edited, its layout made again, and edits undone |
| `MC...` | instances of the constants for TLC |

### EditHistory

The content `doc` maps *slots* to values. A field has two slots: its value, and
the value its group was last built for (`Built`). They differ when a layout
field has been written and the group waits for `RebuildGroup`. One more slot
stands for which groups a block holds. `h` is `history`, `history_position`,
`saved_history_position` and `save_matches`; `row` is the focused entry with
the history index of its editing session; `refresh` and `idle` are
`refresh_group`/`refresh_field` and `refresh_source`; `write` is a save under
way with what it captured.

Every action is a whole handler: `Choose` is the signal handler of a dropdown
or a switch with its recording and `wnd_request_refresh`, which may itself run
a rebuild that waits for another field; `Undo` first flushes the waiting
rebuild, as the code does, then takes back one entry and those joined to it,
and stops at one that cannot be restored. `ChangeUnfocused` is an entry or spin
button whose value changes while it is not edited (`fields.cpp:161`), which asks
for a rebuild but schedules none. When undo reloads rows, whether the
focus comes back to the row is GTK's business: `row'` is one of `KeptRows`.

Group operations appear only as a change of the slot `Groups`; what they do
inside is `DisplayIDSection`, and what becomes of the groups `GroupOwnership`.

`file`, `savedPrefix` and `base` are history variables: the content of the
document's file, the entries that led to it and the content at position 0. So is
`refresh.due`: the rebuild was scheduled, or its row is still to be left.

### GroupOwnership

A group is a number, given when it is made and never used again, so that a
pointer to a freed group stays one. `array` says which groups each array holds:
the array of every block, and the array of sub-groups every group has. `alive`
are the groups not freed. `history`, `position` and `refresh` are the entries,
`history_position` and `refresh_group`; `shown` is the selected row's group,
`dialog` is `pending_delete`.

The operators are functions from one state to the next, or to the set of the
next ones, and the actions compose them as the handlers do. `Free` is `delete`
of a group with its sub-groups. `DropHistory` frees what `history_owned_group`
names and cuts the list; `PushHistory` drops what is ahead first. `FlushRefresh`
is `wnd_flush_refresh` with all its outcomes: nothing to rebuild, a rebuild
refused with the write behind it taken back or not, and a new group in the place
of the old one, which the entry now owns. Every command on
groups starts with it. `RebuildTree` is where the selection goes. Undo and redo take one entry
a step (`Step`, `Continue`) and may stop at one that cannot be restored.

Left out, and what it means. The *order* in an array: an entry finds its group by
index, here by being in the array; that the index is right is
`DisplayIDSection`. *Bytes and sizes*: a command that may not fit may be refused
and then does no more than flush the rebuild; an insertion into a DisplayID
section may or may not use up the padding. Locked fields stay locked, so a
rebuilt DisplayID block keeps its size. After a file whose base block cannot be
read, or with a question about a group that was freed, what the code does is not
defined and the model takes no such step (see *Divergences*).

`home` is a history variable: the array a group was made for.

### DocumentSession

An EDID is a *version*: the file it came from, a number that grows with every
edit, and how it loads (`good`, a wrong block count, a last block that is cut
short, a damaged extension, a damaged base block, or no EDID). With errors
ignored a wrong count is corrected, which counts as a change, and a block cut
short is filled up with zeros, which does not (`AsRead`; `document.cpp:201`). `saved` is the version at the saved position,
so `Dirty` is `doc # saved`. `reads` are the reads on worker threads, cancelled
ones included, each with `was_dirty` of the moment it was asked for; `writing`
is the write with `document_serial` (`current`) and `save_matches` (`matches`).
`dialogs`, `asking` and `listing` are what the user still has to answer, or
wait for.

A dialog keeps the user from the window (`Free`), not from callbacks: reads,
lists and writes are reported under an open dialog, and that is where most of
the findings are. The window manager may send a close request at any time.

`agreed`, `wanted` and `outdated` are history variables: the version the user
last agreed to drop, whether closing was asked for and not called off, and
whether a save of an earlier document overwrote the file of this one. In a read,
`begun`, `newest` and `turn` are: the version shown when it was asked for,
whether another was asked for since, and which of two reads that follow each
other it is.

### DisplayIDSection

One DisplayID extension: data blocks with a size and an offset, the padding
behind them, the payload length in the header, `free_sz`, and the entries of
the history that change the section. The array operations are functions from
section to section (`DisplayIDReserve`, `DisplayIDRelease`, `Cut`, `InsertDn`,
`MoveDn`, `ReplaceGroup`), composed as the callers compose them. `timeline`
records the section at every position of the history. An offset read past the
end of the array (`Stray`) is one of the two values a build can produce there.

### EdidFile

`image` is `EDID_buff`, the bytes last read or assembled: the block count of
the base block and how many of its descriptors are timings, and the extension
with its timing offset, its claim of native timings, and its bytes as a
sequence of items (data blocks, the override block that replaces the count,
timings, timings without a clock, junk). Beside it are the parsed groups (`cta`
and `base`), which have bytes of their own until `Save` assembles them.

`Load` is `edid_load` with `ParseEDID_CEA`: what cannot be parsed leaves the
array empty and the bytes in `image` (`open` is FALSE), and with errors ignored
more of it is parsed. `Save` is `edid_prepare_output` with `AssembleEDID` and
`CEA_Set_DTD_Offset`. `Reopen` loads what was written, in the same window or
another one; it opens the bytes that were written, not those in memory, which
a `Load` with errors ignored has since adjusted. The actions between them are the changes of the sidebar and the
three fields that matter to the parser (the count of an override block, the
clock of a timing, what a data block's layout makes of its size). `saved` is a
history variable: the groups last written and the bytes they were written as.

Left out: the fields of the base block and of the CTA-861 header (block count
and native timings can be typed in there), the descriptors' order, checksums,
and undo, which for these groups puts a removed group back where it was.

### Fields and groups

`Fields` is the vocabulary of the tables: a field is where its bits are (the
lowest piece first), how they are shown (`conv`, one for each handler with a
rule of its own), the bounds of its text and the flags that matter (`F_RD`,
`F_FR`, `F_INIT`). `Shown` is `OP_READ`, `Accepts` the range checks of
`OP_WRSTR`, `Stored` what the handler stores. A text is the number it spells, in
the smallest step it can express, so that a gamma of 2.20 is 220; floats are
computed as mantissa and exponent (`Mantissa`, `Scale`) where a cut or a
rounding decides the stored number.

The group modules give, for the bytes of a group, its parts (the group and its
sub-groups) with their fields. `base_DBC_Init_FlatGrp` and
`base_DBC_Init_RootGrp` are the two ways a CTA-861 data block is divided; a
block's descriptor says of which groups of fields, or of which sub-groups it
consists, and what is too short, too long or left over becomes bytes, a fault
that is told, or a fault of the file.

`GroupFields` edits one group. `Type` and `Choose` are the handlers of the rows
with everything they bring: the write, the rebuild, the value taken back when
the rebuild is refused, and the entry; `Undo` is `wnd_apply_history` for such an
entry and the rebuild joined to it. A step is a finished edit: the steps between
are those of `EditHistory`. Names of listed codes, units and descriptions are
left out, and so are fields that are only shown, except for where they are.

## Runs

Each passing run finishes its state space within the bounds.

| Run | Instance | Checks |
| --- | --- | --- |
| `choices` | a dropdown that decides a layout, with a value that is refused and one that reports a new type; two timings that can change places; two recorded changes, and the rebuilds and second halves they bring | `PendingIsUnsaved`, `NeverBetweenJoined`, `SwapsAreWhole`, `IsTimeline` |
| `typing` | an entry of which one value changes the type of its group, as a pixel clock of 0 does, and a switch that decides the layout of another; two values | `SavedPositionIntact`, `UndoneIsOpened`, `LeftLayoutIsRebuilt` |
| `stale_before` | one entry, three values | finds `CleanMeansSaved` violated |
| `saving` | one file that loads with errors (a wrong count, a block cut short, a damaged extension or base block), one edit, one read at a time | `UnmodifiedIsOnItsFile`, `ClosedKeepsWork`, `CloseIsWanted`, `CloseIsAnswered`, `ReplacedIsOnFile` |
| `opening` | two files the window cannot write to, one edit, two reads at a time, nothing saved | `NewestFileWins`, `NewestIsAnswered` |
| `reading` | two files, two edits | finds `ChangesDuringReadAreKept` violated |
| `ownership` | a base block and a DisplayID section; a file with a group and its sub-group, another with a group and padding; rebuilds with and without sub-groups, changes to two groups at once; two entries, five groups in all | `OneOwner`, `EntriesAreAlive`, `EntriesApply`, `RefreshIsAlive`, `ShownIsOpen`, `AskedIsOpen`, `OnlyDroppingFrees` |
| `section` | sections without padding, with padding shorter than, equal to and longer than a block, and of padding alone; 15 bytes for blocks of 3 to 5 | `PayloadIsCovered`, `HistoryApplies`, `GroupsFitBlock`, `PlainOffsetsMatch`, `PlainFollowsHistory`, `BlocksAreATimeline` |
| `reopening` | an EDID with a CTA-861 extension that is in order, needs errors ignored, or has a header only; 9 bytes for data blocks of 3 and 5, timings of 4, an override block of 3; two descriptors | `SavedOpensAgain`, `GroupsFitBlock`, `DataBeforeTimings`, `OffsetsMatch`, `UnreadIsKept` |
| `fields` | every kind of group: blocks of zeros, of ones, of mixed bits, and with each code that decides a layout; fields set to their lowest, middle and highest value or to one of their list, clocks of the range limits and their quarters also to values between whole tens of MHz; two edits where an edit changes the layout, one elsewhere | `FieldsFollowBytes`, `CanUndo`, `BytesAreCovered`, `EditedOpensAgain`, `UndoRestores`, `ChangesAreRemembered`, `WrittenIsRead`, `EditChangesOneValue` |
| `gtf` | one range limits descriptor with GTF values | finds `GtfMIsInItsBytes` violated |
| `limit` | a section one byte short of the parser's limit | finds `PayloadIsReadable` violated |

Why the bounds are enough. The history hazards need an entry below the saved
position, one above it and a rebuild joined to one of them: two recorded
changes and the entries rebuilds and swaps add. Two values tell a content from
the one before it; in `choices` a file may open with either, so that the value
the dropdown refuses can also be the one it came with. In the session, a
second edit, a second file or a second read only multiplies states that already
exist with one of each, except where a property compares two of them
(`NewestFileWins`, `NewestIsAnswered`), and there are two. `opening` saves
nothing (`Targets` is empty): which read is the newest does not depend on it, and
two reads beside a write are more states than TLC gets through; `NewestFileWins` is
proved with saves. In
`typing` both fields can ask for a rebuild, so that one request meets the other
(`history.cpp:297`). For ownership, two
entries are one that is dropped and one that stays or takes its place, and five
groups are the two of a file with what two entries and a rebuild make, or with
those of a second file and one more. In a section, sizes are scaled down so
that a block fits three or four times, and 3, 4 and 5 are enough to be below,
at and above the padding; `Capacity` and `Limit` keep their distance of one. In
`reopening` the 9 bytes hold three small groups, or a large data block and a
timing to the last byte, so that every order and both sides of a full block
occur. In `fields` the groups are their real size. A wrong shift, mask or byte
shows on zeros, ones or mixed bits at the ends of a range; what one edit does to
another field of its group needs one edit, and what an edit does to the layout
the next is made in needs two.

The sections of `section` leave their block room for one more; a fuller one, and
what padding does to offsets and undo, is listed under *Divergences*.

What follows from a property of the same run is not run by itself: `IsTimeline`
holds only where `HistoryExplainsContent` and `CleanMeansSaved` do,
`BlocksAreATimeline` only where `BlocksFollowHistory` does, and a write whose
position names the wrong entries (`WritePositionIntact`) violates
`SavedPositionIntact` when it ends. They are theorems of their own. So are the
type invariants, `TypeOK` of `EditHistory`, `DocumentSession`, `DisplayIDSection`,
`EdidFile` and `GroupOwnership`: each is proved for every value of the constants.

### Fairness

- `EditHistory`: weak fairness of `Refresh`: GLib dispatches an idle handler
  once nothing else is ready. Nothing else is fair: the user need not act.
- `DocumentSession`: weak fairness of the worker threads (`ReadWorker`,
  `WriteWorker`) and of the callbacks the main loop dispatches when they end
  (`SourceRead`, `Written`, `DisplaysListed`), of each read by itself. Reads and
  writes of a local file end, with data or with an error. The user is not fair: a
  dialog may stay open for good, and `NewestIsAnswered` holds in spite of that:
  a read is reported under it, and opens its file, is refused, or asks.

The session's runs do not check deadlock: a closed window is the end. Nor do the
runs of `GroupFields`: a group of which every field is read only has no steps,
and the number of edits is bounded; nor those of `GroupOwnership`, where the
number of groups is, and after a base block that failed only a load is left.

## Proofs

Every theorem has the form `Spec => []P`, `Spec => [][A]_vars` or
`Spec => IsTimeline`, for every value of the constants the named assumptions
allow. They are listed under `theorems` in `PROJECT.json`.

### EditHistoryProofs

For any fields, values, start values and history length:

- `TypeCorrect`: `TypeOK`.
- `SavedPositionCorrect` and `WritePositionCorrect`: under `Separate`,
  `SavedPositionIntact` and `WritePositionIntact`.

`SavedPositionIntact` is not inductive. A write under way becomes the saved
position, so the position of the write must be intact too, and a write is
compared with a history that later actions rewrite. Two actions change entries
*at* the position instead of behind it: coalescing, and taking back a refused
value. The invariant `Intact` therefore adds that while a rebuild waits the
position is neither the saved one nor the one being written, as long as that
write still counts: then the entry taken back is none the file depends on. For
coalescing, `CanCoalesce` says so itself.

`Separate == TextFields = {} \/ Refused = {}` is what the argument needs: an
entry typed into may be merged back to nothing while its rebuild waits, and the
position is then the saved one after all. The code relies on the range of the
length fields there; the typing run and the choices run are the two halves. Where
both meet in one window `SavedPositionIntact` is false: an entry that remembers a
value older than the last (see `stale_before`) may leave no entry behind, a
refused rebuild then takes back the entry before it, and that may be the saved
one.

The proof has one step per action (`Next`'s disjuncts), and the operators the
actions share (`DropHistory`, `PushHistory`, `Flush`, `RequestRefresh`) have
lemmas of their own: what they do to the type, to the saved prefix and to the
prefix of the write.

### EditTimelineProofs

Under `NoText == TextFields = {}`, for any fields, values, layouts, refused
values and history length: a window of dropdowns, switches, group operations
and Make Preferred.

| Theorem | Property |
| --- | --- |
| `HistoryExplains` | `HistoryExplainsContent` |
| `UnmodifiedIsSaved` | `CleanMeansSaved` |
| `WaitingIsUnsaved` | `PendingIsUnsaved` |
| `ImplementsTimeline` | `IsTimeline`: `EditHistory` implements `UndoTimeline` |

`NoText` is not a convenience. With text fields these statements are false in
the code: a focused entry keeps an older value as the one to undo to (the
`stale_before` run), and undo stops at a typed value that cannot be written
again (`EditHistory_unwritable.cfg`). What does hold there is in
`EditTypingProofs`.

The invariant `EditInv` is `TypeOK`, `Intact` and `TimelineInv`, which adds:

- `Explained`: the content is `Point(base, entries, position)`, what the entries
  up to the position make of the opened EDID. Alone this is not inductive,
  because undo writes `before` values and never looks at the entries in front.
  So `Chained`: each entry's `before` is what its slot held at the entry's
  position. With it undoing from one point to another leads to the content there
  (`RevertTo`); redoing does without it (`ReapplyFrom`).
- `Whole`: the first entry is joined to nothing, and the position is never in
  front of a joined entry: undo and redo, which take joined entries together,
  start and stop between groups of them.
- `FileIs` and `WriteIs`: the content of the file, and of the write under way,
  are what the entries that led to them make of `base`. With `Intact` those
  entries are still the first ones of the history, so that coming back to the
  saved position brings back the content of the file.

A change takes back at most the newest entry and adds up to a few (`Extended`):
that is the timeline's `Extend` under the refinement mapping; an undo or a redo
is its move.

### EditTypingProofs

Windows with fields that are typed into, for any fields, values, layouts and
history length:

| Theorem | Property | Assumed |
| --- | --- | --- |
| `AllUndoneIsOpened` | `UndoneIsOpened` | nothing |
| `JoinedStayTogether` | `NeverBetweenJoined` | `Restorable` |
| `SwapsStayWhole` | `SwapsAreWhole` | `Restorable`, `Separate` |

`Restorable == NoText \/ Unwritable = {}`: no value a file may hold is one that
cannot be typed. Where there is one, undo stops at it, wherever that is
(`EditHistory_unwritable.cfg`).

With stale `before` values neither `Explained` nor `Chained` holds, yet undoing
everything does lead back. The reason is the invariant `State`:

- `Rooted`: the first entry of a slot has as `before` what was opened, and a slot
  without an entry up to the position still holds that. Only the first entry
  decides what undoing all of them leaves, and a stale value gets into later ones
  only.
- `RowRooted`: the value a focused row remembers is the opened one as long as no
  entry but the row's own touches its field. This is what keeps an entry that
  starts from the remembered value from breaking `Rooted`: merging an entry back
  to nothing makes the row start again from it.
- `Whole` under `Restorable`, as above.

`SwapsStayWhole` adds `PairInv`: wherever the position may rest, an even number
of halves of Make Preferred lies behind it, in the history as in the prefixes of
the file and of the write.

### DocumentSessionProofs

Without further assumptions, for any files, kinds of file, number of edits and
number of reads:

| Theorem | Property |
| --- | --- |
| `SessionTypeCorrect` | `TypeOK` |
| `UnmodifiedMeansOnFile` | `UnmodifiedIsOnItsFile` |
| `ClosingKeepsWork` | `ClosedKeepsWork` |
| `ClosingIsWanted` | `CloseIsWanted` |
| `ClosingIsAnswered` | `CloseIsAnswered` |
| `NewestFileOpens` | `NewestFileWins` |
| `ReplacedWasOnFile` | `ReplacedIsOnFile` |

`SessionInv` strengthens the type invariant by what the callbacks rely on:

- `SavedIsOnFile` and `WrittenIsOnDisk`: between a write and its report the file
  can differ from the saved version, so the first leaves out the document whose
  write was not yet reported (`Unreported`), and the second says that what was
  written stays on disk until it is reported, since there is one write at a time.
- `WriteIsOfShown`: a write that still counts as current holds a document exactly
  if one is shown, so that its report cannot call a missing one saved.
- `CloseIsDue`: a close that waits for a save is still wanted, and a closed
  window has nothing left to write: its document was agreed to be dropped, is on
  its file, or had that file overwritten by the save of an earlier document.
- `OnlyNewestRead`: every read but the one asked for last is cancelled.

### GroupOwnershipProofs

Without further assumptions, for any blocks, files, counts of sub-groups and
bounds:

| Theorem | Property |
| --- | --- |
| `HoldingFollowsHistory` | the inductive invariant `IInv` |
| `GroupsTyped` | `TypeOK` |
| `NoGroupFreedTwiceOrLost` | `OneOwner` |
| `NoEntryDangles` | `EntriesAreAlive` |
| `UndoFindsItsGroup` | `EntriesApply` |
| `NoRebuildDangles` | `RefreshIsAlive` |
| `RowsAreOfTheDocument` | `ShownIsOpen` |
| `QuestionIsOfTheDocument` | `AskedIsOpen` |
| `UndoFreesNothing` | `OnlyDroppingFrees` |

None of these is inductive: that a group has one owner now says nothing of who
owns it after an undo. The invariant says instead that what the arrays hold
follows from the history. An entry *makes* a group (an insertion, the new group of
a replacement) or *takes* one out (a removal, the old group of a replacement).
`In(s, g)`: the entry that makes `g` is applied and the one that takes it out is
not. Then `Good` is

- `Places`: an array holds exactly the living groups that were made for it and
  are `In`. Undo and redo move the position over one entry, and `Places` says what
  that must do to the arrays, which is what the code does;
- `Once`: no two entries make the same group, and no two take it out. So at most
  one entry owns a group, and a group is owned exactly if it is not `In`;
- `Firm`, of every group an entry names and of the one a rebuild waits for: it
  lives, it is not padding, and no entry behind makes it or the group it is part
  of, so that dropping the entries behind does not free it;
- `Placed` and `Homes`: the array of an entry is the one its group was made for,
  which is that of a block or of a living group in a block.

A handler is a chain of operators and breaks `Places` in between: a group is made
before it is put in, or cut before its entry is recorded. `Good(s, out)` is the
invariant with the groups `out` on their way, and each operator has one lemma
that says what it makes of it. With this every action is a short chain of lemmas. The
action property follows from a lemma for each action about what it frees.

The proof found that the arms of `ApplyStructure`, as first written, overlapped
for changes of bytes and moves, where an undone one was also an insertion;
`PutsBack` now asks for the kind of the entry as `history.cpp:96-120` does by
returning early. TLC always takes the first arm and could not notice.

### GroupArrayProofs

Facts about the array functions, for every sequence of groups, that the two
modules below rest on: what inserting, cutting, moving and replacing does to the
total size, to the sizes up to a group (`Upto`), to the order of kinds, and which
offsets `UpdateAbsOffs` leaves behind the group it starts at.

The total size is a fold, and no prover here unfolds one for a sequence of any
length. It is reasoned about through its one step (`Upto(gs, i)` is
`Upto(gs, i - 1)` and the size of group `i`) and through `LeastOf`: a set of
numbers has a least one, which follows from the natural numbers being well
founded. Two sums that differ would differ first somewhere, and the step says
they do not (`Inductive`).

### DisplayIDSectionProofs

| Theorem | Property | For |
| --- | --- | --- |
| `TypeCorrect` | `TypeOK` | every file |
| `PayloadCovered` | `PayloadIsCovered` | every file |
| `BlocksFollow` | `BlocksFollowHistory` | every file |
| `ImplementsTimeline` | `BlocksAreATimeline`: the data blocks implement `UndoTimeline` | every file |
| `OffsetsCorrect` | `PlainOffsetsMatch`: without padding, `OffsetsMatch` | every file |
| `SectionFollows` | `PlainFollowsHistory`: without padding, `SectionFollowsHistory` | every file |
| `GroupsFit` | `GroupsFitBlock` | `RoomToGrow`: every file leaves its block room for one more |
| `HistoryAlwaysApplies` | `HistoryApplies` | `RoomToGrow` |

The conditions are where the code stops keeping its promise. `Plain` says that the
file open came without padding; what was opened before it does not matter. With padding,
`DisplayIDSection_offsets.cfg` and `DisplayIDSection_undo.cfg` show offsets and
undo go wrong. Without room, `DisplayIDSection_stale.cfg` shows the first block
let in on the `free_sz` of the document before; from the first change on
`free_sz` is right, which is why room for one block is enough.

The invariant `IInv` has three parts. `SectionInv`: the groups are the blocks the
timeline has at this position and `Pad` bytes of padding, and the header's payload
length is their sum. `HistoryInv`: each entry leads from one section of the
timeline to the next, forwards and backwards, in its blocks and in its payload
without padding. `PaddingInv`: as long as any padding is left it is what the
timeline says; padding is used up by the first block it does not fit, and then
stays used up. The padding is apart from the rest because undo brings blocks
back but not padding: nothing about the payload itself is inductive, only about
what is left when the padding is taken off. `PlainInv` adds that there is none
if the file came without, and that offsets follow sizes then, `FitInv` that each section of the timeline fits
and so does what `free_sz` lets in next.

`ImplementsTimeline` maps the section to the abstract specification `EditHistory`
implements: the document is the data blocks of the section, the timeline theirs
at every position. A change keeps the points up to the position and adds one, a
rebuild that fails and an entry that cannot be applied stutter, undo and redo move
by one. Padding is not in it, and whether the file is saved is not known here:
`modified` is always TRUE.

### EdidFileProofs

Without further assumptions, for any files, sizes of data blocks and timings,
number of descriptors and counts in the override block:

| Theorem | Property |
| --- | --- |
| `TypeCorrect` | `TypeOK` |
| `WhatIsSavedOpens` | `SavedOpensAgain` |
| `GroupsFit` | `GroupsFitBlock` |
| `DataComesFirst` | `DataBeforeTimings` |
| `OffsetsCorrect` | `OffsetsMatch` |
| `UnreadStays` | `UnreadIsKept` |

`WhatIsSavedOpens` is a round trip: `Parsed` looks for the timings at the offset
that assembling computed, reads data blocks until it reaches it and timings until
one has no clock. `AssembledOpens` shows that it finds all groups of an
`Arranged` array: typed, at the offsets their sizes give, no timing before a data
block. So order and offsets have to be proved for every change first
(`GroupsInv`). `free_sz` is not what is left: an extension with a header only
keeps the number of the EDID before it. Inductive is `free + TotalSize(cta) <=
Capacity`, that it never promises more than there is, and with it `GroupsFit`.
`SavedInv` says of the last written bytes that they open again and, if the
extension could not be parsed, that they still hold it as it was read.

### What is only model-checked

- *Liveness*: `LeftLayoutIsRebuilt`, `NewestIsAnswered`.
- *`GroupFields`*: its properties compare what hundreds of table entries make of
  the same bytes. They are finite checks of constants rather than arguments, by
  folds of a depth the tables decide, and TLC makes them.
- *Contents of windows with text fields* between opening and undoing everything:
  the statements of `EditTimelineProofs` are false there.
- *Divergences*: a counterexample is TLC's to find.

## Divergences

Four are checked runs (`stale_before`, `reading`, `gtf`, `limit`; see `findings` in
`PROJECT.json`). The others met while modelling each have a configuration that
shows them:

| Configuration | Property | What happens |
| --- | --- | --- |
| `EditHistory_refused.cfg` | `RefusedValueIsRestored` | a refused length whose write is no longer the newest entry stays, with the message that it was restored (`history.cpp:251`) |
| `EditHistory_unwritable.cfg` | `UndoAlwaysPossible` | a value the file came with is outside what its handler accepts; undo stops there (`history.cpp:159`) |
| `GroupOwnership_waiting.cfg` | `RefreshIsOpen` | a write to a second layout field applies the rebuild that waits, which replaces the group written to; the new request names the replaced one, is refused, and the message says a value was restored (`history.cpp:297`) |
| `GroupOwnership_asked.cfg` | `AskedIsAlive` | a file that was being read is opened under the question whether to delete a group; the answer is applied to a freed group (`sidebar.cpp:616`) |
| `GroupOwnership_unreadable.cfg` | `ShownIsAlive` | a file whose base block cannot be read leaves the old tree on freed groups, behind the empty page (`document.cpp:210`) |
| `DocumentSession_anyway.cfg` | `UnsavedIsConfirmedFirst` | Open Anyway reloads over changes (`window.cpp:180`) |
| `DocumentSession_displays.cfg` | `UnsavedIsConfirmedFirst` | edits made while the displays are listed are dropped (`document.cpp:478`) |
| `DocumentSession_overtaken.cfg` | `UnmodifiedIsOnFile` | a file reloaded while it is being saved is shown as it was before (`document.cpp:638`); with `FirstKinds = {"partial"}`, a file whose last block is cut short, opened with errors ignored, is shown unmodified with the zeros it was filled up with (`EDID_document.cpp:18`, `document.cpp:201`) |
| `DocumentSession_blank.cfg` | `OnlyEdidsAreWritten` | a read that fails under the Save As dialog leaves no EDID, and an empty file is saved (`document.cpp:703`) |
| `DisplayIDSection_stale.cfg` | `GroupsFitBlock` | `free_sz` of the document before is used until the first change (`EDID_main.cpp:757`) |
| `DisplayIDSection_undo.cfg` | `SectionFollowsHistory` | padding used up by a block does not come back with undo; the payload length shrinks instead (`grpar.cpp:501`) |
| `DisplayIDSection_offsets.cfg` | `OffsetsMatch` | a block inserted where padding was used up takes its offset from the deleted padding (`grpar.cpp:186`) |
| `EdidFile_native.cfg` | `NativesArePresent` | deleting or retyping a timing leaves the header's claim of native timings; the saved extension is refused when opened (`EDID_main.cpp:569`) |
| `EdidFile_override.cfg` | `CountStands` | an override block is changed, moved or deleted; the file is written with a count its next read refuses (`EDID_document.cpp:160`) |
| `EdidFile_clock.cfg` | `TimingsAreLit` | a CTA-861 timing whose clock is set to 0 is written, and read as padding (`EDID_dsc.cpp:78`) |
| `EdidFile_header.cfg` | `FreeSpaceIsKnown` | the free space of an extension with a header only is what the EDID before left (`EDID_main.cpp:578`) |
| `GroupFields_length.cfg` | `LengthsThatDoNotFitAreRefused` | the length of a short InfoFrame (and other lengths and counts inside a data block) is taken although its part no longer fits; `docs/usage.md:48` says it is refused (`CEA_ET.cpp:1929`) |
| `GroupFields_layout.cfg` | `LayoutFollowsBytes` | the flags of a DisplayID data block decide the size of its timings; editing them does not divide the block again, which `docs/usage.md:45` says of such fields (`DisplayID.cpp:141`) |
| `GroupFields_undo.cfg` | `UndoTakesBack` | a latency of 0 is shown as 0 ms and undone as the code of 0 ms: "not given" does not come back (`CEA.cpp:1184`) |

One has no configuration. The comment at `history.cpp:289` says that entries
apply a rebuild "once editing ends". A value scrolled in a spin button without
the focus has no editing to end (`fields.cpp:161`): its rebuild waits for the next
flush, which another field, undo or a save brings, or for good. And a request
that another field's flush replaces, while its rebuild reloads the row, may be
one of them. `LeftLayoutIsRebuilt` speaks of requests that are `due` and so
leaves these out; without `refresh.due` it is violated.

The `fields` run names what it found wrong, so that everything else is claimed:

- `Misplaced`: the GTF M value is bytes 3 and 4 (`EDID_dsc.cpp:656`).
- `Forgets`: a video code drops the native bit with a code that has none
  (`CEA.cpp:1119`); forty and more quarters of the CVT clock are carried into the
  tens (`EDID_dsc.cpp:744`). Undo brings neither back.
- `CanUndo` leaves out a code from 128 to 192, which is not accepted again, and
  forty and more quarters in a file whose clock is at most one ten (`NoTens`):
  there is no ten to take them off (`EDID_dsc.cpp:771`), and an edit of them
  cannot be undone.
- `Step`: the clock of the range limits is cut to tens of MHz unless the extension
  is CVT, so that 165.00 is shown as 160.00 (`EDID_dsc.cpp:738`). With CVT it is
  read back to the quarter; a text between two quarters is below the unit of the
  model.
- `Retyped`: typing again the 0 shown for a latency not given, or the delay shown
  for a negative one, changes the byte and is no entry (`CEA.cpp:1184`,
  `CEA_ET.cpp:683`).
- `HasBits`: bounds wider than the bits: eight channels in three bits, 32 of
  LPCM (`CEA.cpp:434`, `:944`), coefficients of 32767.00 (`EDID_dsc.cpp:1293`),
  a gamma of 3.54 over FFh, 1023 pixels in a byte (`EDID_dsc.cpp:898`).
- `WrittenIsRead` leaves out `"zeroed"`: the aspect ratio and the pitch of a
  display device are read into one variable and stored from another
  (`CEA_ET.cpp:601`, `:643`). Its step of one stands for chromaticities, gammas,
  coefficients and clocks that are cut instead of rounded.
- `Hidden`: white point indices, the last six bytes of established timings
  looked for twelve bytes too far (`EDID_dsc.cpp:1551`), two bytes of a display
  device, the tail of longer DisplayID descriptors, and of the range limits the
  bytes of the GTF M value in the GTF layout and the two high bits of the widest
  line in the CVT layout (`EDID_dsc.cpp:912`).
- `WrongByte`: the sub-pixel layout of a display device is read from the byte of
  its content protection, its frame rate from that of the conversion mode, and
  its delay clears the sign (`CEA_ET.cpp:270`, `:683`).
- `EditedOpensAgain` leaves out the fields flagged `F_INIT`: their values are not
  refused when the parts no longer fit (`GroupFields_length.cfg`).

## Not modelled

- *GTK and GIO*: dialogs and rows appear by what they send; GIO's replacing
  write is one step that succeeds or fails.
- *Edit Read-Only Fields* (`window.cpp:312`): a read-only field stays so.
- *Wording of values*: names of listed codes (video codes, timings of type 7,
  established modes), units, descriptions and translated texts.
- *Undo of changes to CTA-861 blocks and descriptors*: the entries are those of
  `DisplayIDSection`, without padding.
- *Hex text, comparison, summary, names*: pure functions without state.
- *Command line*: sequential, over the library's operations.
- *Value maps, video formats, return codes*: tables and generated code.
- *Displays*: reading `/sys` is input; its delay is in `DocumentSession`.

## Plan

In this order; each module depends on those before it only where it says so.

1. `EditHistory`, `UndoTimeline`, `DocumentSession`, `DisplayIDSection`,
   `GroupArray`, `EdidFile`, `Fields` and the group modules, `GroupFields`: done.
2. `EdidLoad`: what `EdidFile` leaves out of `edid_load` and `AssembleEDID`:
   file sizes, the base block's checks, several extensions of both kinds,
   checksums; what a refused load leaves of the former EDID.
3. `GroupOwnership`: done. Left: locked fields made writable, where a replacement
   that does not fit may use up the padding.
4. `PreferredTiming`: the preferred timing of the base block, of CTA-861 and of
   DisplayID, and what Make Preferred changes.
5. `HexText`, `Compare`: pure functions against reference definitions.
6. Theorems: `EditHistory` with and without text fields, `EditHistory` implements
   `UndoTimeline`, `DocumentSession`, `DisplayIDSection`, `EdidFile` and
   `GroupOwnership`: done.
