-------------------------- MODULE DocumentSession --------------------------
(***************************************************************************)
(* The document of one window from opening to closing: files and displays  *)
(* read on a worker thread, the dialogs that ask before changes are        *)
(* dropped, files written asynchronously, and the close request that waits *)
(* for them (app/document.cpp, app/window.cpp, edid_load).                  *)
(*                                                                         *)
(* An EDID is abstracted to a version: the file it came from, a number     *)
(* that grows with every edit, and how it loads (EditHistory models what   *)
(* an edit is).  The window is modified when the version shown is not the   *)
(* one at the saved history position.                                      *)
(***************************************************************************)
EXTENDS Integers, Sequences

CONSTANTS
  Files,     \* paths, displays included
  Copies,    \* files the window can't write to: read-only, hex text or a display
  Targets,   \* files the user saves to with Save As
  FirstKinds,\* how the EDIDs the files hold at first may load
  MaxEdits,  \* bound: versions made by editing
  MaxReads   \* bound: reads under way, cancelled ones included

\* "partial": its last block is cut short.
Kinds == {"good", "miscounted", "partial", "badExtension", "badBase", "unreadable"}

ASSUME SessionAssumption ==
  /\ Copies \subseteq Files
  /\ Targets \subseteq Files
  /\ FirstKinds \subseteq Kinds
  /\ MaxEdits \in Nat
  /\ MaxReads \in Nat

VARIABLES
  disk,       \* what every file holds
  doc,        \* the version shown, None when ~loaded
  saved,      \* the version at saved_history_position, None for -1
  path,       \* doc->path
  writable,   \* source_writable
  source,     \* source_path, source_hex
  hadErrors,  \* load_had_errors
  ignore,     \* b_ERR_Ignore
  retry,      \* banner_offers_retry
  reads,      \* reads on worker threads, oldest first
  writing,    \* the document being written
  closing,    \* close_after_save
  dialogs,    \* "open", "displays", "saveAs" and close_confirmation_open
  asking,     \* the files of the "Discard unsaved changes?" alerts before opening
  listing,    \* displays are being listed on a worker thread
  open,       \* the window exists
  made,       \* versions made
  agreed,     \* history variable: the version the user last agreed to drop
  wanted,     \* history variable: closing was asked for and not called off
  outdated    \* history variable: another document was written over doc's file

ui   == <<dialogs, asking, listing>>
past == <<made, agreed, wanted, outdated>>
vars == <<disk, doc, saved, path, writable, source, hadErrors, ignore, retry,
          reads, writing, closing, ui, open, past>>

None  == [from |-> "none", edit |-> 0, kind |-> "none"]
Blank == [from |-> "none", edit |-> 0, kind |-> "unreadable"]

Dirty == doc # saved
SavePending == writing # None

\* No dialog keeps the user from the window.
Free == open /\ dialogs = {} /\ asking = {}

Init ==
  /\ disk \in {[f \in Files |-> [from |-> f, edit |-> 0, kind |-> k[f]]] :
                 k \in [Files -> FirstKinds]}
  /\ doc = None /\ saved = None
  /\ path = "none" /\ source = "none"
  /\ writable = FALSE /\ hadErrors = FALSE /\ ignore = FALSE /\ retry = FALSE
  /\ reads = <<>> /\ writing = None
  /\ closing = FALSE
  /\ dialogs = {} /\ asking = {} /\ listing = FALSE
  /\ open = TRUE
  /\ made = 0 /\ agreed = None /\ wanted = FALSE /\ outdated = FALSE

-----------------------------------------------------------------------------
(* Editing.  A change made below the saved position, or below that of the  *)
(* write under way, drops the entries it was reached by.                   *)

Edit ==
  /\ Free /\ doc # None
  /\ made < MaxEdits
  /\ made' = made + 1
  /\ doc' = [doc EXCEPT !.edit = made']
  /\ saved' \in IF Dirty THEN {saved, None} ELSE {saved}
  /\ writing' \in IF SavePending /\ writing.content # doc
                  THEN {writing, [writing EXCEPT !.matches = FALSE]} ELSE {writing}
  /\ UNCHANGED <<disk, path, writable, source, hadErrors, ignore, retry, reads,
                 closing, ui, open, agreed, wanted, outdated>>

\* Undo or redo up to the saved version or the one being written.
Return ==
  /\ Free /\ doc # None
  /\ \E v \in {saved} \cup IF SavePending /\ writing.current /\ writing.matches
                           THEN {writing.content} ELSE {} :
       v \notin {None, doc} /\ doc' = v
  /\ UNCHANGED <<disk, saved, path, writable, source, hadErrors, ignore, retry, reads,
                 writing, closing, ui, open, past>>

-----------------------------------------------------------------------------
(* Opening.                                                                *)

\* History fields: begun, the version then shown; newest, until the next read;
\* turn, which tells it from the one it follows.
NewRead(f, cancelled) ==
  [file |-> f, wasDirty |-> Dirty, begun |-> doc, data |-> None,
   cancelled |-> cancelled, newest |-> TRUE,
   turn |-> IF reads = <<>> THEN 0 ELSE 1 - reads[Len(reads)].turn]

\* Mutants: a newer file does not replace one still being read; it shares the
\* cancellable of the read it cancels.
LoadFileBeside(f) ==
  /\ Len(reads) < MaxReads
  /\ reads' = Append([i \in DOMAIN reads |-> [reads[i] EXCEPT !.newest = FALSE]],
                     NewRead(f, FALSE))
LoadFileShared(f) ==
  /\ Len(reads) < MaxReads
  /\ reads' = Append([i \in DOMAIN reads |->
                        [reads[i] EXCEPT !.cancelled = TRUE, !.newest = FALSE]],
                     NewRead(f, reads # <<>>))

\* A newer file replaces one still being read.
LoadFile(f) ==
  /\ Len(reads) < MaxReads
  /\ reads' = Append([i \in DOMAIN reads |->
                        [reads[i] EXCEPT !.cancelled = TRUE, !.newest = FALSE]],
                     NewRead(f, FALSE))

unchangedByRequest == <<disk, doc, saved, path, writable, source, hadErrors, retry,
                        writing, closing, open, made, wanted, outdated>>

\* A recent file, a dropped one, or one given to the running application.
OpenFile(f) ==
  /\ Free
  /\ IF Dirty THEN asking' = asking \cup {f} /\ UNCHANGED reads
              ELSE LoadFile(f) /\ UNCHANGED asking
  /\ UNCHANGED <<unchangedByRequest, ignore, dialogs, listing, agreed>>

\* Open, Import Hex and Open from Display ask before the dialog they lead to.
OpenDialog ==
  /\ Free
  /\ IF Dirty THEN asking' = {"any"} /\ UNCHANGED dialogs
              ELSE dialogs' = {"open"} /\ UNCHANGED asking
  /\ UNCHANGED <<unchangedByRequest, reads, ignore, listing, agreed>>

\* Open from Display: listing the displays takes time.
OpenDisplay ==
  /\ Free /\ ~Dirty
  /\ listing' = TRUE
  /\ UNCHANGED <<unchangedByRequest, reads, ignore, dialogs, asking, agreed>>

DisplaysListed ==
  /\ open /\ listing
  /\ listing' = FALSE
  /\ dialogs' = dialogs \cup {"displays"}
  /\ UNCHANGED <<unchangedByRequest, reads, ignore, asking, agreed>>

\* The answer in the file dialog or the list of displays.
ChooseFile(d, f) ==
  /\ open /\ d \in dialogs \cap {"open", "displays"}
  /\ dialogs' = dialogs \ {d}
  /\ LoadFile(f)
  /\ UNCHANGED <<unchangedByRequest, ignore, asking, listing, agreed>>

Dismiss ==
  /\ open
  /\ \/ \E d \in dialogs \ {"close"} : dialogs' = dialogs \ {d} /\ UNCHANGED asking
     \/ \E f \in asking : asking' = asking \ {f} /\ UNCHANGED dialogs
  /\ UNCHANGED <<unchangedByRequest, reads, ignore, listing, agreed>>

\* wnd_on_discard_open_response
Discard(f) ==
  /\ open /\ f \in asking
  /\ asking' = asking \ {f}
  /\ agreed' = doc
  /\ IF f = "any"
     THEN /\ UNCHANGED reads
          /\ \/ dialogs' = dialogs \cup {"open"} /\ UNCHANGED listing
             \/ listing' = TRUE /\ UNCHANGED dialogs
     ELSE LoadFile(f) /\ UNCHANGED <<dialogs, listing>>
  /\ UNCHANGED <<unchangedByRequest, ignore>>

\* The button of the banner: errors are ignored from now on.
OpenAnyway ==
  /\ Free /\ retry
  /\ ignore' = TRUE
  /\ LoadFile(source)
  /\ UNCHANGED <<unchangedByRequest, ui, agreed>>

\* Ignore EDID Errors in the main menu.
ToggleIgnore ==
  /\ Free
  /\ ignore' = ~ignore
  /\ IF ignore' /\ hadErrors /\ source # "none" /\ ~Dirty
     THEN LoadFile(source) ELSE UNCHANGED reads
  /\ UNCHANGED <<unchangedByRequest, ui, agreed>>

-----------------------------------------------------------------------------
(* Reading.                                                                *)

ReadWorker(i) ==
  /\ open
  /\ reads[i].data = None
  /\ reads' = [reads EXCEPT ![i].data = disk[reads[i].file]]
  /\ UNCHANGED <<disk, doc, saved, path, writable, source, hadErrors, ignore, retry,
                 writing, closing, ui, open, past>>

WithoutRead(i) == SubSeq(reads, 1, i - 1) \o SubSeq(reads, i + 1, Len(reads))

\* What edid_load makes of the data.  Ignoring errors opens most of it.
Outcomes(kind) ==
  CASE kind = "unreadable"   -> {"unread"}
    [] kind = "miscounted"   -> IF ignore THEN {"adjusted"} ELSE {"rejected"}
    [] kind = "partial"      -> IF ignore THEN {"padded", "lost"} ELSE {"rejected"}
    [] kind = "badBase"      -> IF ignore THEN {"opened", "lost"} ELSE {"lost"}
    [] kind = "badExtension" -> IF ignore THEN {"opened", "partly"} ELSE {"partly"}
    [] OTHER                 -> {"opened"}

\* Another document: the write under way no longer belongs to it.
OutdateWrite == IF SavePending THEN [writing EXCEPT !.current = FALSE] ELSE writing

\* A block cut short is read as if its missing bytes were zero.
AsRead(v) == IF v.kind = "partial" THEN [v EXCEPT !.kind = "good"] ELSE v

\* The document left by what edid_load made of the data.
Shown(outcome, data) ==
  CASE outcome = "lost"     -> None
    [] outcome = "adjusted" -> [data EXCEPT !.kind = "good"]
    [] OTHER                -> AsRead(data)

\* Mutant: a corrected block count does not count as a change.
CountAsSaved(outcome, data) == Shown(outcome, data)

\* The version at saved_history_position: a corrected block count is a change
\* no file holds.  The bytes a padded block was given count as saved.
SavedFor(outcome, data) == IF outcome = "adjusted" THEN None ELSE Shown(outcome, data)

\* wnd_open_source, wnd_load_bytes: data that can't be read or is rejected
\* leaves the document alone, a bad base block leaves none.
OpenSource(f, data) ==
  \E outcome \in Outcomes(data.kind) :
    /\ source' = f
    /\ hadErrors' = (outcome # "opened")
    /\ retry' = (outcome \in {"rejected", "lost", "partly"} /\ ~ignore)
    /\ IF outcome \in {"unread", "rejected"}
       THEN UNCHANGED <<doc, saved, path, writable, writing, outdated>>
       ELSE /\ writing' = OutdateWrite
            /\ doc' = Shown(outcome, data)
            /\ saved' = SavedFor(outcome, data)
            /\ path' = IF outcome = "lost" THEN "none" ELSE f
            /\ writable' = (outcome # "lost" /\ f \notin Copies)
            /\ outdated' = (data # disk[f])

\* "changes made while the file was read are not dropped unasked"
MustAsk(r) == Dirty /\ ~r.wasDirty

\* wnd_on_source_read
SourceRead(i) ==
  LET r == reads[i]
  IN  /\ open /\ r.data # None
      /\ reads' = WithoutRead(i)
      /\ IF r.cancelled \/ MustAsk(r)
         THEN /\ asking' = IF r.cancelled THEN asking ELSE asking \cup {r.file}
              /\ UNCHANGED <<doc, saved, path, writable, source, hadErrors, retry,
                             writing, outdated>>
         ELSE OpenSource(r.file, r.data) /\ UNCHANGED asking
      /\ UNCHANGED <<disk, ignore, closing, dialogs, listing, open, made, agreed, wanted>>

-----------------------------------------------------------------------------
(* Saving.                                                                 *)

\* wnd_save_to_file: assembling the blocks may fail; it does not when there
\* are none.
SaveTo(f) ==
  \/ /\ ~SavePending
     /\ writing' = [path |-> f, content |-> doc, current |-> TRUE, matches |-> TRUE,
                    stage |-> "queued"]
     /\ UNCHANGED retry
  \/ SavePending /\ UNCHANGED <<writing, retry>>
  \/ ~SavePending /\ doc # None /\ retry' = FALSE /\ UNCHANGED writing

unchangedBySave == <<disk, doc, saved, path, writable, source, hadErrors, ignore, reads,
                     closing, asking, listing, open, past>>

Save ==
  /\ Free /\ doc # None /\ Dirty /\ ~SavePending
  /\ IF writable THEN SaveTo(path) /\ UNCHANGED dialogs
                 ELSE dialogs' = {"saveAs"} /\ UNCHANGED <<writing, retry>>
  /\ UNCHANGED unchangedBySave

SaveAs ==
  /\ Free /\ doc # None /\ ~SavePending
  /\ dialogs' = {"saveAs"}
  /\ UNCHANGED <<unchangedBySave, writing, retry>>

\* wnd_on_save_response
SaveAsResponse(f) ==
  /\ open /\ "saveAs" \in dialogs
  /\ dialogs' = dialogs \ {"saveAs"}
  /\ SaveTo(f)
  /\ UNCHANGED unchangedBySave

\* The file is replaced as a whole or stays as it was.
WriteWorker ==
  /\ SavePending /\ writing.stage = "queued"
  /\ \/ /\ writing' = [writing EXCEPT !.stage = "done"]
        /\ disk' = [disk EXCEPT ![writing.path] =
                      IF writing.content = None THEN Blank ELSE writing.content]
        /\ outdated' = (outdated \/ (~writing.current /\ writing.path = path))
     \/ /\ writing' = [writing EXCEPT !.stage = "failed"]
        /\ UNCHANGED <<disk, outdated>>
  /\ UNCHANGED <<doc, saved, path, writable, source, hadErrors, ignore, retry, reads,
                 closing, ui, open, made, agreed, wanted>>

\* Mutant: the saved position is taken when the write is reported.
ReportedAsShown(done) ==
  IF done /\ writing.current
  THEN /\ path' = writing.path
       /\ writable' = TRUE
       /\ saved' = doc
       /\ outdated' = FALSE
  ELSE UNCHANGED <<path, writable, saved, outdated>>

\* The file becomes that of the document it was made from, and its version
\* the saved one, unless its history was rewritten meanwhile.
Reported(done) ==
  IF done /\ writing.current
  THEN /\ path' = writing.path
       /\ writable' = TRUE
       /\ saved' = IF writing.matches THEN writing.content ELSE None
       /\ outdated' = FALSE
  ELSE UNCHANGED <<path, writable, saved, outdated>>

\* Mutants: the close request made while saving is forgotten; after a save
\* that failed, it waits for the next one.
ForgetClose(done) == closing' = FALSE /\ UNCHANGED <<dialogs, open>>
KeepClose(done) ==
  /\ closing' = (closing /\ ~done)
  /\ IF closing /\ done
     THEN IF doc # saved' THEN dialogs' = dialogs \cup {"close"} /\ UNCHANGED open
                          ELSE open' = FALSE /\ UNCHANGED dialogs
     ELSE UNCHANGED <<dialogs, open>>

\* The close request that waited is sent again if the file was written.
AnswerClose(done) ==
  /\ closing' = FALSE
  /\ IF closing /\ done
     THEN IF doc # saved' THEN dialogs' = dialogs \cup {"close"} /\ UNCHANGED open
                          ELSE open' = FALSE /\ UNCHANGED dialogs
     ELSE UNCHANGED <<dialogs, open>>

\* wnd_on_written
Written ==
  LET done == writing.stage = "done"
  IN  /\ SavePending /\ writing.stage # "queued"
      /\ writing' = None
      /\ Reported(done)
      /\ AnswerClose(done)
      /\ retry' = (retry /\ done)
      /\ wanted' = (wanted /\ done)
      /\ UNCHANGED <<disk, doc, source, hadErrors, ignore, reads, asking, listing, made,
                     agreed>>

-----------------------------------------------------------------------------
(* Closing.                                                                *)

unchangedByClose == <<disk, doc, saved, path, writable, source, hadErrors, ignore, retry,
                      reads, writing, asking, listing, made, outdated>>

\* Mutant: an unmodified document is closed although it is being saved.
CloseAtOnce ==
  /\ open
  /\ wanted' = TRUE
  /\ IF Dirty THEN dialogs' = dialogs \cup {"close"} /\ UNCHANGED open
              ELSE open' = FALSE /\ UNCHANGED dialogs
  /\ UNCHANGED <<unchangedByClose, closing, agreed>>

\* wnd_on_close_request: the window stays until the EDID being saved is
\* written, or fails to be.
CloseRequest ==
  /\ open
  /\ wanted' = TRUE
  /\ CASE SavePending -> closing' = TRUE /\ UNCHANGED <<open, dialogs>>
       [] ~SavePending /\ Dirty -> dialogs' = dialogs \cup {"close"} /\ UNCHANGED <<open, closing>>
       [] OTHER -> open' = FALSE /\ UNCHANGED <<dialogs, closing>>
  /\ UNCHANGED <<unchangedByClose, agreed>>

\* wnd_on_discard_close_response
DiscardClose ==
  /\ open /\ "close" \in dialogs
  /\ dialogs' = dialogs \ {"close"}
  /\ agreed' = doc
  /\ wanted' = TRUE
  /\ IF SavePending THEN closing' = TRUE /\ UNCHANGED open
                    ELSE open' = FALSE /\ UNCHANGED closing
  /\ UNCHANGED unchangedByClose

CancelClose ==
  /\ open /\ "close" \in dialogs
  /\ dialogs' = dialogs \ {"close"}
  /\ wanted' = closing
  /\ UNCHANGED <<unchangedByClose, closing, open, agreed>>

-----------------------------------------------------------------------------
User ==
  \/ Edit
  \/ Return
  \/ \E f \in Files : OpenFile(f)
  \/ OpenDialog
  \/ OpenDisplay
  \/ \E d \in dialogs, f \in Files : ChooseFile(d, f)
  \/ Dismiss
  \/ \E f \in asking : Discard(f)
  \/ OpenAnyway
  \/ ToggleIgnore
  \/ Save
  \/ SaveAs
  \/ \E f \in Targets : SaveAsResponse(f)
  \/ CloseRequest
  \/ DiscardClose
  \/ CancelClose

Next ==
  \/ User
  \/ DisplaysListed
  \/ \E i \in DOMAIN reads : ReadWorker(i) \/ SourceRead(i)
  \/ WriteWorker
  \/ Written

\* Every worker thread finishes, and the main loop dispatches its callback, the
\* reads that were cancelled included; the user may do nothing.  A read that
\* ends moves the later ones down, so a place is kept by one read in the end.
Spec ==
  /\ Init /\ [][Next]_vars
  /\ WF_vars(WriteWorker) /\ WF_vars(Written) /\ WF_vars(DisplaysListed)
  /\ \A i \in 1 .. MaxReads : /\ WF_vars(i \in DOMAIN reads /\ ReadWorker(i))
                              /\ WF_vars(i \in DOMAIN reads /\ SourceRead(i))
-----------------------------------------------------------------------------
Version == [from : Files, edit : 0 .. MaxEdits, kind : Kinds]

WriteType == {None} \cup [path : Files, content : Version \cup {None}, current : BOOLEAN,
                          matches : BOOLEAN, stage : {"queued", "done", "failed"}]

ReadType == [file : Files, wasDirty : BOOLEAN, begun : Version \cup {None},
             data : Version \cup {None, Blank}, cancelled : BOOLEAN, newest : BOOLEAN,
             turn : {0, 1}]

\* Every variable has its type; a window without a document is unmodified and
\* has no path (wnd_load_bytes).
TypeOK ==
  /\ disk \in [Files -> Version \cup {Blank}]
  /\ doc \in Version \cup {None}
  /\ saved \in Version \cup {None}
  /\ doc = None => saved = None
  /\ path \in Files \cup {"none"}
  /\ source \in Files \cup {"none"}
  /\ {writable, hadErrors, ignore, retry, closing, listing, open, wanted, outdated}
       \subseteq BOOLEAN
  /\ Len(reads) <= MaxReads /\ \A i \in DOMAIN reads : reads[i] \in ReadType
  /\ writing \in WriteType
  /\ dialogs \subseteq {"open", "displays", "saveAs", "close"}
  /\ asking \subseteq Files \cup {"any"}
  /\ made \in 0 .. MaxEdits
  /\ agreed \in Version \cup {None}

\* No write to the document's file is under way or waiting to be reported.
Settled == writing = None \/ writing.path # path

\* "A document shown as unmodified is what its file holds", byte for byte,
\* whatever was opened, saved and undone meanwhile.  Neither a padded document
\* nor one overwritten by the save of an earlier one is.
UnmodifiedIsOnFile ==
  (open /\ doc # None /\ ~Dirty /\ Settled) => disk[path] = doc

\* What file f holds, and what is read from it.
HeldBy(f) == {disk[f], AsRead(disk[f])}

\* A document shown as unmodified is what its file holds or what reading the
\* file gives (a block cut short is filled up with zeros unasked), whatever was
\* opened, saved and undone meanwhile, unless a save of an earlier document was
\* still writing the file (saved_history_position, document_serial).
UnmodifiedIsOnItsFile ==
  (open /\ doc # None /\ ~Dirty /\ Settled /\ ~outdated) => doc \in HeldBy(path)

\* A window closes on a document its file gives back, or one the user agreed to
\* drop, also when it was being saved (wnd_on_close_request, wnd_on_written).
ClosedKeepsWork ==
  ~open => \/ doc \in {None, agreed}
           \/ outdated
           \/ SavePending = FALSE /\ doc \in HeldBy(path)

\* A window closes only while its user wants it closed: a save that fails
\* calls the waiting close request off (close_after_save).
CloseIsWanted == ~open => wanted

\* A close request made during a save is answered when the save ends: the
\* window closes, or asks, unless the save failed.
CloseIsAnswered ==
  [][(closing /\ ~closing') =>
       (~open' \/ "close" \in dialogs' \/ writing.stage = "failed")]_vars

\* Read i is dropped or becomes the document.
Landed(i) == reads' = WithoutRead(i) /\ source' # source

\* The document becomes the file asked for last: a slow read never replaces
\* what was opened after it (wnd_load_file).
NewestFileWins ==
  [][\A i \in DOMAIN reads : Landed(i) => i = Len(reads)]_vars

\* The document a read replaces is one its file gives back, unless it was
\* modified when the read was asked for: whatever was edited, undone, saved or
\* saved elsewhere while the file was read (wnd_on_source_read, wnd_on_written).
ReplacedIsOnFile ==
  [][\A i \in DOMAIN reads :
       (reads' = WithoutRead(i) /\ doc' # doc) =>
         \/ doc = None \/ reads[i].wasDirty
         \/ outdated \/ ~Settled
         \/ doc \in HeldBy(path)]_vars

\* "changes made while the file was read are not dropped unasked": a modified
\* document is replaced only in the version the read was begun in.
ChangesDuringReadAreKept ==
  [][(Len(reads') < Len(reads) /\ Dirty /\ doc' # doc) =>
       \E i \in DOMAIN reads : reads' = WithoutRead(i) /\ reads[i].begun = doc]_vars

\* "unsaved changes are confirmed first": no file is read for a modified
\* document unless the user agreed to drop that version.
UnsavedIsConfirmedFirst ==
  [][(Len(reads') > Len(reads) /\ Dirty) => agreed' = doc]_vars

\* A file is only ever overwritten with an assembled EDID ("Save assembles
\* the blocks and recomputes their checksums").
OnlyEdidsAreWritten == \A f \in Files : disk[f] # Blank

NewestRead(file, turn) ==
  \E i \in DOMAIN reads :
    reads[i].newest /\ reads[i].file = file /\ reads[i].turn = turn

\* The file asked for last is opened, refused or asked about, however many
\* earlier reads it cancelled and in whatever order they end, unless another is
\* asked for first (wnd_load_file).
NewestIsAnswered ==
  \A f \in Files, turn \in {0, 1} :
    NewestRead(f, turn) ~>
      (source = f \/ f \in asking \/ ~open \/ \E g \in Files : NewestRead(g, 1 - turn))
=============================================================================
