----------------------- MODULE DocumentSessionProofs -----------------------
(***************************************************************************)
(* Theorems about DocumentSession, for any files, edits and reads.  All    *)
(* rest on one inductive invariant, SessionInv.                            *)
(***************************************************************************)
EXTENDS DocumentSession, SequenceTheorems, TLAPS

(***************************************************************************)
(* The inductive invariant.                                                *)
(***************************************************************************)
Typed ==
  /\ disk \in [Files -> Version \cup {Blank}]
  /\ doc \in Version \cup {None}
  /\ saved \in Version \cup {None}
  /\ path \in Files \cup {"none"}
  /\ source \in Files \cup {"none"}
  /\ writable \in BOOLEAN /\ hadErrors \in BOOLEAN /\ ignore \in BOOLEAN
  /\ retry \in BOOLEAN /\ closing \in BOOLEAN /\ listing \in BOOLEAN
  /\ open \in BOOLEAN /\ wanted \in BOOLEAN /\ outdated \in BOOLEAN
  /\ reads \in Seq(ReadType) /\ Len(reads) <= MaxReads
  /\ writing \in WriteType
  /\ dialogs \subseteq {"open", "displays", "saveAs", "close"}
  /\ asking \subseteq Files \cup {"any"}
  /\ made \in 0 .. MaxEdits
  /\ agreed \in Version \cup {None}

\* A document has a file; the banner has one to retry.
HasFile == (doc # None => path \in Files) /\ (retry => source \in Files)

\* The write of the document shown is that of a document if there is one.
WriteIsOfShown ==
  /\ doc = None => saved = None
  /\ (SavePending /\ writing.current) => (writing.content = None <=> doc = None)

\* What was written is on disk until it is reported: no other write begins.
WrittenIsOnDisk ==
  (SavePending /\ writing.stage = "done") =>
     disk[writing.path] = IF writing.content = None THEN Blank ELSE writing.content

\* The document's own file was written, and wnd_on_written has yet to say so.
Unreported ==
  /\ SavePending /\ writing.stage = "done"
  /\ writing.path = path /\ writing.current

\* The version at the saved position is what the file holds, or gives when read.
SavedIsOnFile ==
  (doc # None /\ saved # None /\ ~outdated /\ ~Unreported) => saved \in HeldBy(path)

\* A request that waits is one the user still wants, and a closed window has
\* nothing left to be written or lost.
CloseIsDue ==
  /\ closing => wanted
  /\ ~open => /\ wanted /\ ~SavePending
              /\ doc = None \/ doc = agreed \/ outdated \/ doc \in HeldBy(path)

\* Every read but the newest was cancelled.
OnlyNewestRead == \A i \in 1 .. Len(reads) - 1 : reads[i].cancelled

SessionInv == /\ Typed /\ HasFile /\ WriteIsOfShown /\ WrittenIsOnDisk
              /\ SavedIsOnFile /\ CloseIsDue /\ OnlyNewestRead

-----------------------------------------------------------------------------
(* Lemmas about the values.                                                *)

LEMMA NoneIsNoVersion == None \notin Version /\ None # Blank
BY DEF None, Blank, Version, Kinds

LEMMA WriteFields ==
  ASSUME NEW w \in WriteType, w # None
  PROVE  /\ w \in [path : Files, content : Version \cup {None}, current : BOOLEAN,
                   matches : BOOLEAN, stage : {"queued", "done", "failed"}]
         /\ w.path \in Files /\ w.content \in Version \cup {None}
         /\ w.current \in BOOLEAN /\ w.matches \in BOOLEAN
         /\ w.stage \in {"queued", "done", "failed"}
BY DEF WriteType

\* A write is not None, whatever becomes of its fields.
LEMMA WriteStays ==
  ASSUME NEW w \in WriteType, w # None, NEW b \in BOOLEAN,
         NEW s \in {"queued", "done", "failed"}
  PROVE  /\ [w EXCEPT !.current = b] \in WriteType /\ [w EXCEPT !.current = b] # None
         /\ [w EXCEPT !.matches = b] \in WriteType /\ [w EXCEPT !.matches = b] # None
         /\ [w EXCEPT !.stage = s] \in WriteType /\ [w EXCEPT !.stage = s] # None
<1> DEFINE W == [path : Files, content : Version \cup {None}, current : BOOLEAN,
                 matches : BOOLEAN, stage : {"queued", "done", "failed"}]
<1>1. w \in W
  BY DEF WriteType
<1>2. None \notin W
  <2>1. \A x \in W : x.matches \in BOOLEAN /\ DOMAIN x = {"path", "content", "current", "matches", "stage"}
    OBVIOUS
  <2>2. DOMAIN None = {"from", "edit", "kind"}
    BY DEF None
  <2> QED BY <2>1, <2>2
<1>3. /\ [w EXCEPT !.current = b] \in W /\ [w EXCEPT !.matches = b] \in W
      /\ [w EXCEPT !.stage = s] \in W
  BY <1>1
<1> QED BY <1>2, <1>3 DEF WriteType

\* Without a read, the later ones move up.
LEMMA WithoutReadType ==
  ASSUME reads \in Seq(ReadType), NEW i \in DOMAIN reads
  PROVE  /\ WithoutRead(i) \in Seq(ReadType)
         /\ Len(WithoutRead(i)) = Len(reads) - 1
         /\ \A j \in 1 .. Len(reads) - 1 :
              WithoutRead(i)[j] = IF j < i THEN reads[j] ELSE reads[j + 1]
<1> DEFINE A == SubSeq(reads, 1, i - 1)
           B == SubSeq(reads, i + 1, Len(reads))
<1>1. i \in 1 .. Len(reads) /\ Len(reads) \in Nat
  OBVIOUS
<1>2. A \in Seq(ReadType) /\ Len(A) = i - 1 /\ \A j \in 1 .. i - 1 : A[j] = reads[j]
  BY <1>1
<1>3. /\ B \in Seq(ReadType) /\ Len(B) = Len(reads) - i
      /\ \A j \in 1 .. Len(reads) - i : B[j] = reads[i + j]
  BY <1>1
<1>4. A \o B \in Seq(ReadType) /\ Len(A \o B) = Len(reads) - 1
  <2> HIDE DEF A, B
  <2> QED BY <1>1, <1>2, <1>3
<1>5. ASSUME NEW j \in 1 .. Len(reads) - 1
      PROVE  (A \o B)[j] = IF j < i THEN reads[j] ELSE reads[j + 1]
  <2>1. CASE j < i
    <3> HIDE DEF A, B
    <3> QED BY <1>1, <1>2, <1>3, <2>1
  <2>2. CASE ~(j < i)
    <3>1. j - (i - 1) \in 1 .. Len(reads) - i /\ i + (j - (i - 1)) = j + 1
      BY <1>1, <2>2
    <3>2. (A \o B)[j] = B[j - (i - 1)]
      <4>1. j \in 1 .. Len(A) + Len(B) /\ ~(j <= Len(A)) /\ j - Len(A) = j - (i - 1)
        BY <1>1, <1>2, <1>3, <2>2, SMTT(60)
      <4> HIDE DEF A, B
      <4> QED BY <1>2, <1>3, <4>1, ConcatProperties, SMTT(60)
    <3>3. B[j - (i - 1)] = reads[i + (j - (i - 1))]
      <4> HIDE DEF B
      <4> QED BY <1>3, <3>1
    <3> QED BY <2>2, <3>1, <3>2, <3>3
  <2> QED BY <2>1, <2>2
<1> QED BY <1>4, <1>5 DEF WithoutRead

\* A read stays one when it is cancelled or answered.
LEMMA ReadStays ==
  ASSUME NEW r \in ReadType, NEW d \in Version \cup {None, Blank}
  PROVE  /\ [r EXCEPT !.cancelled = TRUE, !.newest = FALSE] \in ReadType
         /\ [r EXCEPT !.cancelled = TRUE, !.newest = FALSE].cancelled
         /\ [r EXCEPT !.data = d] \in ReadType
         /\ [r EXCEPT !.data = d].cancelled = r.cancelled
BY DEF ReadType

\* A read begun is the newest, and the only one not cancelled.
LEMMA LoadFileType ==
  ASSUME Typed, NEW f \in Files, LoadFile(f)
  PROVE  /\ reads' \in Seq(ReadType) /\ Len(reads') = Len(reads) + 1
         /\ Len(reads') <= MaxReads
         /\ OnlyNewestRead'
<1> DEFINE R == [i \in DOMAIN reads |->
                   [reads[i] EXCEPT !.cancelled = TRUE, !.newest = FALSE]]
           r == NewRead(f, FALSE)
<1>1. reads \in Seq(ReadType) /\ Len(reads) \in Nat /\ DOMAIN reads = 1 .. Len(reads)
  BY DEF Typed
<1>2. \A i \in DOMAIN reads : R[i] \in ReadType /\ R[i].cancelled
  <2> TAKE i \in DOMAIN reads
  <2>1. reads[i] \in ReadType
    BY <1>1
  <2> QED BY <2>1, ReadStays
<1>3. R \in Seq(ReadType) /\ Len(R) = Len(reads)
  <2>1. R \in [1 .. Len(reads) -> ReadType]
    BY <1>1, <1>2
  <2> HIDE DEF R
  <2> QED BY <1>1, <2>1, SeqDef
<1>4. r \in ReadType
  <2>1. (IF reads = <<>> THEN 0 ELSE 1 - reads[Len(reads)].turn) \in {0, 1}
    <3>1. reads # <<>> => reads[Len(reads)] \in ReadType
      BY <1>1
    <3> QED BY <3>1 DEF ReadType
  <2> QED BY <2>1 DEF NewRead, Typed, ReadType, Dirty
<1>5. reads' = Append(R, r) /\ Len(reads) < MaxReads
  BY DEF LoadFile
<1> HIDE DEF R, r
<1>6. reads' \in Seq(ReadType) /\ Len(reads') = Len(reads) + 1
  BY <1>1, <1>3, <1>4, <1>5
<1>7. Len(reads') <= MaxReads
  BY <1>1, <1>5, <1>6, SessionAssumption
<1>8. \A i \in 1 .. Len(reads) : reads'[i] = R[i]
  BY <1>1, <1>3, <1>4, <1>5
<1> QED BY <1>1, <1>2, <1>6, <1>7, <1>8 DEF OnlyNewestRead

\* What edid_load makes of readable data is a document or none.
LEMMA ShownType ==
  ASSUME NEW data \in Version \cup {Blank}, NEW outcome \in Outcomes(data.kind),
         outcome \notin {"unread", "rejected"}
  PROVE  /\ Shown(outcome, data) \in Version \cup {None}
         /\ SavedFor(outcome, data) \in {Shown(outcome, data), None}
         /\ Shown(outcome, data) # None => outcome # "lost"
         /\ (SavedFor(outcome, data) # None) => SavedFor(outcome, data) \in {data, AsRead(data)}
<1>1. data \in Version
  BY DEF Outcomes, Blank
<1>2. [data EXCEPT !.kind = "good"] \in Version /\ AsRead(data) \in Version
  BY <1>1 DEF Version, Kinds, AsRead
<1>3. None \notin Version
  BY NoneIsNoVersion
<1> QED BY <1>1, <1>2, <1>3 DEF Shown, SavedFor

-----------------------------------------------------------------------------
(* Reads.                                                                  *)

\* What a step may do to the reads.
LEMMA ReadsCases ==
  ASSUME Typed, HasFile, [Next]_vars
  PROVE  \/ UNCHANGED reads
         \/ \E f \in Files : LoadFile(f) /\ UNCHANGED <<doc, source>>
         \/ \E i \in DOMAIN reads : ReadWorker(i)
         \/ \E i \in DOMAIN reads : SourceRead(i)
<1>1. CASE UNCHANGED vars
  BY <1>1 DEF vars
<1>2. CASE User
  <2>1. ASSUME NEW f \in asking, Discard(f)
        PROVE  UNCHANGED reads \/ (\E g \in Files : LoadFile(g) /\ UNCHANGED <<doc, source>>)
    <3>1. f = "any" \/ f \in Files
      BY DEF Typed
    <3> QED BY <2>1, <3>1 DEF Discard, unchangedByRequest
  <2>2. OpenAnyway => \E f \in Files : LoadFile(f) /\ UNCHANGED <<doc, source>>
    BY DEF OpenAnyway, HasFile, unchangedByRequest
  <2>3. ToggleIgnore => UNCHANGED reads \/ \E f \in Files : LoadFile(f) /\ UNCHANGED <<doc, source>>
    BY DEF ToggleIgnore, Typed, unchangedByRequest
  <2>4. ASSUME NEW f \in Files, OpenFile(f) \/ \E d \in dialogs : ChooseFile(d, f)
        PROVE  UNCHANGED reads \/ \E g \in Files : LoadFile(g) /\ UNCHANGED <<doc, source>>
    BY <2>4 DEF OpenFile, ChooseFile, unchangedByRequest
  <2>5. Edit \/ Return \/ OpenDialog \/ OpenDisplay \/ Dismiss => UNCHANGED reads
    BY DEF Edit, Return, OpenDialog, OpenDisplay, Dismiss
  <2>6. Save \/ SaveAs \/ (\E f \in Files : SaveAsResponse(f)) => UNCHANGED reads
    BY DEF Save, SaveAs, SaveAsResponse, unchangedBySave
  <2>7. CloseRequest \/ DiscardClose \/ CancelClose => UNCHANGED reads
    BY DEF CloseRequest, DiscardClose, CancelClose, unchangedByClose
  <2> QED BY <1>2, <2>1, <2>2, <2>3, <2>4, <2>5, <2>6, <2>7, SessionAssumption DEF SessionAssumption, User
<1>3. DisplaysListed \/ WriteWorker \/ Written => UNCHANGED reads
  BY DEF DisplaysListed, WriteWorker, Written
<1> QED BY <1>1, <1>2, <1>3 DEF Next

LEMMA ReadsStep ==
  ASSUME Typed, HasFile, OnlyNewestRead, [Next]_vars
  PROVE  reads' \in Seq(ReadType) /\ Len(reads') <= MaxReads /\ OnlyNewestRead'
<1>1. reads \in Seq(ReadType) /\ Len(reads) \in Nat /\ Len(reads) <= MaxReads
  BY DEF Typed
<1>2. CASE UNCHANGED reads
  BY <1>1, <1>2 DEF OnlyNewestRead
<1>3. ASSUME NEW f \in Files, LoadFile(f)
      PROVE  reads' \in Seq(ReadType) /\ Len(reads') <= MaxReads /\ OnlyNewestRead'
  BY <1>3, LoadFileType
<1>4. ASSUME NEW i \in DOMAIN reads, ReadWorker(i)
      PROVE  reads' \in Seq(ReadType) /\ Len(reads') <= MaxReads /\ OnlyNewestRead'
  <2>1. reads[i] \in ReadType /\ i \in 1 .. Len(reads)
    BY <1>1
  <2>2. disk[reads[i].file] \in Version \cup {None, Blank}
    BY <2>1 DEF ReadType, Typed
  <2> DEFINE r == [reads[i] EXCEPT !.data = disk[reads[i].file]]
  <2>3. r \in ReadType /\ r.cancelled = reads[i].cancelled
    BY <2>1, <2>2, ReadStays
  <2>4. reads' = [reads EXCEPT ![i] = r]
    BY <1>4 DEF ReadWorker
  <2> HIDE DEF r
  <2>5. reads' \in Seq(ReadType) /\ Len(reads') = Len(reads)
    BY <1>1, <2>1, <2>3, <2>4
  <2>6. \A j \in 1 .. Len(reads) : reads'[j].cancelled = reads[j].cancelled
    BY <1>1, <2>1, <2>3, <2>4
  <2> QED BY <1>1, <2>5, <2>6 DEF OnlyNewestRead
<1>5. ASSUME NEW i \in DOMAIN reads, SourceRead(i)
      PROVE  reads' \in Seq(ReadType) /\ Len(reads') <= MaxReads /\ OnlyNewestRead'
  <2>1. reads' = WithoutRead(i)
    BY <1>5 DEF SourceRead
  <2>2. /\ reads' \in Seq(ReadType) /\ Len(reads') = Len(reads) - 1
        /\ \A j \in 1 .. Len(reads) - 1 :
             reads'[j] = IF j < i THEN reads[j] ELSE reads[j + 1]
    BY <1>1, <2>1, WithoutReadType
  <2>3. ASSUME NEW j \in 1 .. Len(reads') - 1 PROVE reads'[j].cancelled
    <3>1. j \in 1 .. Len(reads) - 1 /\ j + 1 \in 1 .. Len(reads) - 1
      BY <1>1, <2>2
    <3> QED BY <2>2, <3>1 DEF OnlyNewestRead
  <2>4. Len(reads') <= MaxReads
    BY <1>1, <2>2, SessionAssumption
  <2> QED BY <2>2, <2>3, <2>4 DEF OnlyNewestRead
<1> QED BY <1>2, <1>3, <1>4, <1>5, ReadsCases

\* A read that ends is the newest, or one cancelled before.  As a cancelled
\* read never stays last, which one ended is seen from the reads left.
LEMMA NewestReadEnds ==
  ASSUME Typed, OnlyNewestRead, NEW i \in DOMAIN reads, NEW j \in DOMAIN reads,
         ~reads[j].cancelled, WithoutRead(i) = WithoutRead(j)
  PROVE  i = j /\ j = Len(reads)
<1>1. reads \in Seq(ReadType) /\ Len(reads) \in Nat /\ i \in 1 .. Len(reads) /\ j \in 1 .. Len(reads)
  BY DEF Typed
<1>2. j = Len(reads)
  BY <1>1 DEF OnlyNewestRead
<1>3. SUFFICES ASSUME i # j PROVE FALSE
  BY <1>2
<1> DEFINE k == Len(reads) - 1
<1>4. k \in 1 .. Len(reads) - 1 /\ ~(k < i) /\ k < j /\ k + 1 = j
  BY <1>1, <1>2, <1>3
<1>5. WithoutRead(i)[k] = reads[k + 1] /\ WithoutRead(j)[k] = reads[k]
  <2> HIDE DEF k
  <2> QED BY <1>1, <1>4, WithoutReadType
<1>6. reads[k].cancelled
  BY <1>4 DEF OnlyNewestRead
<1> QED BY <1>4, <1>5, <1>6

-----------------------------------------------------------------------------
(* Types.                                                                  *)

LEMMA TypedInit == Init => Typed /\ HasFile
<1> SUFFICES ASSUME Init PROVE Typed /\ HasFile
  OBVIOUS
<1>1. disk \in [Files -> Version \cup {Blank}]
  <2>1. PICK k \in [Files -> FirstKinds] :
          disk = [f \in Files |-> [from |-> f, edit |-> 0, kind |-> k[f]]]
    BY DEF Init
  <2>2. \A f \in Files : [from |-> f, edit |-> 0, kind |-> k[f]] \in Version
    BY SessionAssumption DEF Version, SessionAssumption
  <2> QED BY <2>1, <2>2
<1>2. reads \in Seq(ReadType) /\ Len(reads) <= MaxReads
  BY SessionAssumption DEF Init, SessionAssumption
<1>3. made \in 0 .. MaxEdits
  BY SessionAssumption DEF Init, SessionAssumption
<1> QED BY <1>1, <1>2, <1>3 DEF Init, Typed, HasFile, WriteType

\* A document opened has its file, and the write under way is still one.
LEMMA TypedOpenSource ==
  ASSUME Typed, HasFile, NEW f \in Files, NEW data \in Version \cup {Blank},
         OpenSource(f, data)
  PROVE  /\ doc' \in Version \cup {None} /\ saved' \in Version \cup {None}
         /\ path' \in Files \cup {"none"} /\ source' = f
         /\ writable' \in BOOLEAN /\ hadErrors' \in BOOLEAN /\ retry' \in BOOLEAN
         /\ outdated' \in BOOLEAN
         /\ writing' \in WriteType
         /\ doc' # None => path' \in Files
<1>1. PICK outcome \in Outcomes(data.kind) :
        /\ source' = f
        /\ hadErrors' = (outcome # "opened")
        /\ retry' = (outcome \in {"rejected", "lost", "partly"} /\ ~ignore)
        /\ IF outcome \in {"unread", "rejected"}
           THEN UNCHANGED <<doc, saved, path, writable, writing, outdated>>
           ELSE /\ writing' = OutdateWrite
                /\ doc' = Shown(outcome, data)
                /\ saved' = SavedFor(outcome, data)
                /\ path' = IF outcome = "lost" THEN "none" ELSE f
                /\ writable' = (outcome # "lost" /\ f \notin Copies)
                /\ outdated' = (data # disk[f])
  BY DEF OpenSource
<1>2. CASE outcome \in {"unread", "rejected"}
  BY <1>1, <1>2 DEF Typed, HasFile
<1>3. CASE outcome \notin {"unread", "rejected"}
  <2>1. OutdateWrite \in WriteType
    <3>1. CASE writing = None
      BY <3>1 DEF OutdateWrite, SavePending, Typed
    <3>2. CASE writing # None
      BY <3>2, WriteStays DEF OutdateWrite, SavePending, Typed
    <3> QED BY <3>1, <3>2
  <2>2. /\ Shown(outcome, data) \in Version \cup {None}
        /\ SavedFor(outcome, data) \in Version \cup {None}
        /\ Shown(outcome, data) # None => outcome # "lost"
    BY <1>3, ShownType
  <2> QED BY <1>1, <1>3, <2>1, <2>2
<1> QED BY <1>2, <1>3

LEMMA TypedSaveTo ==
  ASSUME Typed, NEW f \in Files, SaveTo(f)
  PROVE  writing' \in WriteType /\ retry' \in BOOLEAN /\ (retry' => retry)
<1>1. [path |-> f, content |-> doc, current |-> TRUE, matches |-> TRUE,
       stage |-> "queued"] \in WriteType
  BY DEF Typed, WriteType
<1>2. CASE UNCHANGED retry /\ writing' \in WriteType
  BY <1>2 DEF Typed
<1>3. CASE retry' = FALSE /\ UNCHANGED writing
  BY <1>3 DEF Typed
<1>4. UNCHANGED writing => writing' \in WriteType
  BY DEF Typed
<1> QED BY <1>1, <1>2, <1>3, <1>4 DEF SaveTo

LEMMA TypedStep ==
  ASSUME Typed, HasFile, OnlyNewestRead, [Next]_vars
  PROVE  Typed' /\ HasFile'
<1>0. reads' \in Seq(ReadType) /\ Len(reads') <= MaxReads
  BY ReadsStep
<1>1. CASE UNCHANGED vars
  BY <1>1 DEF vars, ui, past, Typed, HasFile, WriteType
<1>2. CASE Edit
  <2>1. made' \in 0 .. MaxEdits
    BY <1>2, SessionAssumption DEF Edit, Typed, SessionAssumption
  <2>2. doc' \in Version
    <3>1. doc \in Version /\ doc' = [doc EXCEPT !.edit = made']
      BY <1>2 DEF Edit, Typed
    <3> QED BY <2>1, <3>1 DEF Version
  <2>3. saved' \in Version \cup {None}
    BY <1>2 DEF Edit, Typed
  <2>4. writing' \in WriteType
    BY <1>2, WriteStays DEF Edit, Typed, SavePending
  <2>5. path \in Files
    BY <1>2 DEF Edit, HasFile
  <2> QED BY <1>0, <1>2, <2>1, <2>2, <2>3, <2>4, <2>5 DEF Edit, ui, Typed, HasFile
<1>3. CASE Return
  <2>1. doc' \in Version
    <3>1. PICK v \in {saved} \cup IF SavePending /\ writing.current /\ writing.matches
                                  THEN {writing.content} ELSE {} :
             v \notin {None, doc} /\ doc' = v
      BY <1>3 DEF Return
    <3>2. CASE SavePending
      BY <3>1, <3>2, WriteFields DEF Typed, SavePending
    <3>3. CASE ~SavePending
      BY <3>1, <3>3 DEF Typed
    <3> QED BY <3>2, <3>3
  <2>2. path \in Files
    BY <1>3 DEF Return, HasFile
  <2> QED BY <1>0, <1>3, <2>1, <2>2 DEF Return, ui, past, Typed, HasFile
<1>4. ASSUME NEW f \in Files, OpenFile(f) PROVE Typed' /\ HasFile'
  BY <1>0, <1>4 DEF OpenFile, unchangedByRequest, Typed, HasFile
<1>5. CASE OpenDialog \/ OpenDisplay \/ DisplaysListed \/ Dismiss
  <2>1. /\ asking' \subseteq asking \cup {"any"}
        /\ dialogs' \subseteq dialogs \cup {"open", "displays"}
        /\ listing' \in BOOLEAN
    BY <1>5 DEF OpenDialog, OpenDisplay, DisplaysListed, Dismiss, Typed
  <2>2. UNCHANGED <<unchangedByRequest, ignore, agreed>>
    BY <1>5 DEF OpenDialog, OpenDisplay, DisplaysListed, Dismiss
  <2> QED BY <1>0, <2>1, <2>2 DEF unchangedByRequest, Typed, HasFile
<1>6. ASSUME NEW d \in dialogs, NEW f \in Files, ChooseFile(d, f) PROVE Typed' /\ HasFile'
  BY <1>0, <1>6 DEF ChooseFile, unchangedByRequest, Typed, HasFile
<1>7. ASSUME NEW f \in asking, Discard(f) PROVE Typed' /\ HasFile'
  BY <1>0, <1>7, ZenonT(60) DEF Discard, unchangedByRequest, Typed, HasFile
<1>8. CASE OpenAnyway
  BY <1>0, <1>8 DEF OpenAnyway, ui, unchangedByRequest, Typed, HasFile
<1>9. CASE ToggleIgnore
  BY <1>0, <1>9 DEF ToggleIgnore, ui, unchangedByRequest, Typed, HasFile
<1>10. CASE Save
  <2>1. writing' \in WriteType /\ retry' \in BOOLEAN /\ (retry' => retry)
    BY <1>10, TypedSaveTo DEF Save, HasFile, Typed
  <2>2. UNCHANGED unchangedBySave /\ dialogs' \in {dialogs, {"saveAs"}}
    BY <1>10 DEF Save
  <2> QED BY <1>0, <2>1, <2>2 DEF unchangedBySave, past, Typed, HasFile
<1>11. CASE SaveAs
  BY <1>0, <1>11 DEF SaveAs, unchangedBySave, past, Typed, HasFile
<1>12. ASSUME NEW f \in Files, SaveAsResponse(f) PROVE Typed' /\ HasFile'
  <2>1. writing' \in WriteType /\ retry' \in BOOLEAN /\ (retry' => retry)
    BY <1>12, TypedSaveTo DEF SaveAsResponse
  <2>2. UNCHANGED unchangedBySave /\ dialogs' \subseteq dialogs
    BY <1>12 DEF SaveAsResponse
  <2> QED BY <1>0, <2>1, <2>2 DEF unchangedBySave, past, Typed, HasFile
<1>13. CASE CloseRequest \/ DiscardClose \/ CancelClose
  <2>1. UNCHANGED unchangedByClose
    BY <1>13 DEF CloseRequest, DiscardClose, CancelClose
  <2>2. /\ open' \in {open, FALSE} /\ closing' \in {closing, TRUE} /\ agreed' \in {agreed, doc}
        /\ wanted' \in {TRUE, closing} /\ dialogs' \subseteq dialogs \cup {"close"}
    <3>1. CASE CloseRequest
      BY <3>1 DEF CloseRequest
    <3>2. CASE DiscardClose
      BY <3>2 DEF DiscardClose
    <3>3. CASE CancelClose
      BY <3>3 DEF CancelClose
    <3> QED BY <1>13, <3>1, <3>2, <3>3
  <2>3. open' \in BOOLEAN /\ closing' \in BOOLEAN /\ wanted' \in BOOLEAN
    BY <2>2 DEF Typed
  <2>4. agreed' \in Version \cup {None} /\ dialogs' \subseteq {"open", "displays", "saveAs", "close"}
    BY <2>2 DEF Typed
  <2> QED BY <1>0, <2>1, <2>3, <2>4 DEF unchangedByClose, Typed, HasFile
<1>14. ASSUME NEW i \in DOMAIN reads, ReadWorker(i) PROVE Typed' /\ HasFile'
  BY <1>0, <1>14 DEF ReadWorker, ui, past, Typed, HasFile
<1>15. ASSUME NEW i \in DOMAIN reads, SourceRead(i) PROVE Typed' /\ HasFile'
  <2> DEFINE r == reads[i]
  <2>1. r \in ReadType /\ r.data # None
    BY <1>15 DEF Typed, SourceRead
  <2>2. r.file \in Files /\ r.data \in Version \cup {Blank}
    BY <2>1 DEF ReadType
  <2>3. UNCHANGED <<disk, ignore, closing, dialogs, listing, open, made, agreed, wanted>>
    BY <1>15 DEF SourceRead
  <2>4. CASE /\ asking' \subseteq asking \cup {r.file}
             /\ UNCHANGED <<doc, saved, path, writable, source, hadErrors, retry, writing, outdated>>
    BY <1>0, <2>2, <2>3, <2>4 DEF Typed, HasFile
  <2>5. CASE OpenSource(r.file, r.data) /\ UNCHANGED asking
    <3>1. /\ doc' \in Version \cup {None} /\ saved' \in Version \cup {None}
          /\ path' \in Files \cup {"none"} /\ source' = r.file
          /\ writable' \in BOOLEAN /\ hadErrors' \in BOOLEAN /\ retry' \in BOOLEAN
          /\ outdated' \in BOOLEAN
          /\ writing' \in WriteType
          /\ doc' # None => path' \in Files
      <4> HIDE DEF r
      <4> QED BY <2>2, <2>5, TypedOpenSource
    <3> QED BY <1>0, <2>2, <2>3, <2>5, <3>1 DEF Typed, HasFile
  <2> QED BY <1>15, <2>4, <2>5 DEF SourceRead
<1>16. CASE WriteWorker
  <2>1. writing \in WriteType /\ writing # None
    BY <1>16 DEF WriteWorker, SavePending, Typed
  <2>2. writing' \in WriteType
    BY <1>16, <2>1, WriteStays DEF WriteWorker
  <2>3. disk' \in [Files -> Version \cup {Blank}]
    BY <1>16, <2>1, WriteFields DEF WriteWorker, Typed
  <2>4. outdated' \in BOOLEAN
    BY <1>16, <2>1, WriteFields DEF WriteWorker, Typed
  <2> QED BY <1>0, <1>16, <2>2, <2>3, <2>4 DEF WriteWorker, ui, Typed, HasFile
<1>17. CASE Written
  <2>1. writing \in WriteType /\ writing # None /\ writing' = None
    BY <1>17 DEF Written, SavePending, Typed
  <2>2. writing.path \in Files /\ writing.content \in Version \cup {None}
    BY <2>1, WriteFields
  <2>3. /\ path' \in Files \cup {"none"} /\ (doc # None => path' \in Files)
        /\ writable' \in BOOLEAN /\ saved' \in Version \cup {None} /\ outdated' \in BOOLEAN
    BY <1>17, <2>2 DEF Written, Reported, Typed, HasFile
  <2>4. closing' \in BOOLEAN /\ open' \in BOOLEAN /\ dialogs' \subseteq dialogs \cup {"close"}
    BY <1>17 DEF Written, AnswerClose, Typed
  <2>5. /\ UNCHANGED <<disk, doc, source, hadErrors, ignore, reads, asking, listing, made, agreed>>
        /\ retry' = (retry /\ writing.stage = "done")
        /\ wanted' = (wanted /\ writing.stage = "done")
    BY <1>17 DEF Written
  <2> QED BY <1>0, <2>1, <2>3, <2>4, <2>5 DEF Typed, HasFile, WriteType
<1> QED BY <1>1, <1>2, <1>3, <1>4, <1>5, <1>6, <1>7, <1>8, <1>9, <1>10, <1>11, <1>12,
           <1>13, <1>14, <1>15, <1>16, <1>17, SessionAssumption DEF SessionAssumption, Next, User

-----------------------------------------------------------------------------
(* The file, the document and the write between them.                      *)

content == <<disk, doc, saved, path, writing, outdated>>

OnFile == WriteIsOfShown /\ WrittenIsOnDisk /\ SavedIsOnFile

\* What a step may do to them.
LEMMA ContentCases ==
  ASSUME Typed, HasFile, [Next]_vars
  PROVE  \/ UNCHANGED content
         \/ Edit \/ Return \/ WriteWorker \/ Written
         \/ \E f \in Files : SaveTo(f) /\ UNCHANGED <<disk, doc, saved, path, outdated>>
         \/ \E f \in Files, data \in Version \cup {Blank} :
              OpenSource(f, data) /\ UNCHANGED disk
<1>1. CASE UNCHANGED vars
  BY <1>1 DEF vars, past, content
<1>2. CASE \/ OpenDialog \/ OpenDisplay \/ DisplaysListed \/ Dismiss \/ OpenAnyway \/ ToggleIgnore
           \/ \E f \in Files : OpenFile(f) \/ \E d \in dialogs : ChooseFile(d, f)
           \/ \E f \in asking : Discard(f)
  BY <1>2 DEF OpenDialog, OpenDisplay, DisplaysListed, Dismiss, OpenAnyway, ToggleIgnore,
              OpenFile, ChooseFile, Discard, unchangedByRequest, content
<1>3. ASSUME NEW i \in DOMAIN reads, ReadWorker(i) PROVE UNCHANGED content
  BY <1>3 DEF ReadWorker, past, content
<1>4. CASE CloseRequest \/ DiscardClose \/ CancelClose
  BY <1>4 DEF CloseRequest, DiscardClose, CancelClose, unchangedByClose, content
<1>5. CASE Save \/ SaveAs \/ \E f \in Files : SaveAsResponse(f)
  <2>1. UNCHANGED <<disk, doc, saved, path, outdated>>
    BY <1>5 DEF Save, SaveAs, SaveAsResponse, unchangedBySave, past
  <2>2. UNCHANGED writing \/ \E f \in Files : SaveTo(f)
    BY <1>5 DEF Save, SaveAs, SaveAsResponse, HasFile
  <2> QED BY <2>1, <2>2 DEF content
<1>6. ASSUME NEW i \in DOMAIN reads, SourceRead(i)
      PROVE  \/ UNCHANGED content
             \/ \E f \in Files, data \in Version \cup {Blank} :
                  OpenSource(f, data) /\ UNCHANGED disk
  <2>1. reads[i] \in ReadType /\ reads[i].data # None
    BY <1>6 DEF Typed, SourceRead
  <2>2. reads[i].file \in Files /\ reads[i].data \in Version \cup {Blank}
    BY <2>1 DEF ReadType
  <2> QED BY <1>6, <2>2 DEF SourceRead, content
<1> QED BY <1>1, <1>2, <1>3, <1>4, <1>5, <1>6, SessionAssumption DEF SessionAssumption, Next, User

\* Opening: the version shown is marked as saved unless it was corrected, and
\* as outdated unless the file still holds it.
LEMMA OpenSourceOnFile ==
  ASSUME Typed, HasFile, OnFile, UNCHANGED disk,
         NEW f \in Files, NEW data \in Version \cup {Blank}, OpenSource(f, data)
  PROVE  OnFile'
<1>1. PICK outcome \in Outcomes(data.kind) :
        IF outcome \in {"unread", "rejected"}
        THEN UNCHANGED <<doc, saved, path, writable, writing, outdated>>
        ELSE /\ writing' = OutdateWrite
             /\ doc' = Shown(outcome, data)
             /\ saved' = SavedFor(outcome, data)
             /\ path' = IF outcome = "lost" THEN "none" ELSE f
             /\ outdated' = (data # disk[f])
  BY DEF OpenSource
<1>2. CASE outcome \in {"unread", "rejected"}
  BY <1>1, <1>2 DEF OnFile, WriteIsOfShown, WrittenIsOnDisk, SavedIsOnFile, HeldBy, Unreported,
                    SavePending
<1>3. CASE outcome \notin {"unread", "rejected"}
  <2>1. /\ saved' \in {doc', None}
        /\ doc' # None => path' = f
        /\ saved' # None => saved' \in {data, AsRead(data)}
    BY <1>1, <1>3, ShownType
  <2>2. CASE writing = None
    <3>1. writing' = None
      BY <1>1, <1>3, <2>2 DEF OutdateWrite, SavePending
    <3> QED BY <1>1, <1>3, <2>1, <3>1
            DEF OnFile, WriteIsOfShown, WrittenIsOnDisk, SavedIsOnFile, HeldBy, SavePending
  <2>3. CASE writing # None
    <3>1. writing' = [writing EXCEPT !.current = FALSE]
      BY <1>1, <1>3, <2>3 DEF OutdateWrite, SavePending
    <3>2. /\ ~writing'.current
          /\ writing'.stage = writing.stage
          /\ writing'.path = writing.path
          /\ writing'.content = writing.content
      BY <2>3, <3>1, WriteFields DEF Typed
    <3> QED BY <1>1, <1>3, <2>1, <2>3, <3>2
            DEF OnFile, WriteIsOfShown, WrittenIsOnDisk, SavedIsOnFile, HeldBy, Unreported, SavePending
  <2> QED BY <2>2, <2>3
<1> QED BY <1>2, <1>3

LEMMA OnFileStep ==
  ASSUME Typed, HasFile, OnFile, [Next]_vars
  PROVE  OnFile'
<1>0. writing # None => /\ writing.path \in Files /\ writing.content \in Version \cup {None}
                        /\ writing.current \in BOOLEAN
                        /\ writing.stage \in {"queued", "done", "failed"}
  BY WriteFields DEF Typed
<1>1. CASE UNCHANGED content
  BY <1>1 DEF content, OnFile, WriteIsOfShown, WrittenIsOnDisk, SavedIsOnFile, HeldBy, Unreported,
              SavePending
<1>2. CASE Edit
  <2>1. doc # None /\ saved' \in {saved, None} /\ UNCHANGED <<disk, path, outdated>>
    BY <1>2 DEF Edit
  <2>2. doc' # None
    <3>1. doc' = [doc EXCEPT !.edit = made'] /\ doc \in Version
      BY <1>2, <2>1 DEF Edit, Typed
    <3>2. doc'.kind = doc.kind /\ doc.kind \in Kinds
      BY <3>1 DEF Version
    <3> QED BY <3>2 DEF None, Kinds
  <2>3. writing' = writing \/ (writing # None /\ writing' = [writing EXCEPT !.matches = FALSE])
    BY <1>2 DEF Edit, SavePending
  <2>4. CASE writing' = writing
    BY <2>1, <2>2, <2>4
       DEF OnFile, WriteIsOfShown, WrittenIsOnDisk, SavedIsOnFile, HeldBy, Unreported, SavePending
  <2>5. CASE writing # None /\ writing' = [writing EXCEPT !.matches = FALSE]
    <3>1. /\ writing' # None
          /\ writing'.current = writing.current /\ writing'.stage = writing.stage
          /\ writing'.path = writing.path /\ writing'.content = writing.content
      BY <2>5, WriteFields, WriteStays DEF Typed
    <3> QED BY <2>1, <2>2, <2>5, <3>1
            DEF OnFile, WriteIsOfShown, WrittenIsOnDisk, SavedIsOnFile, HeldBy, Unreported, SavePending
  <2> QED BY <2>3, <2>4, <2>5
<1>3. CASE Return
  <2>1. doc # None /\ doc' # None /\ UNCHANGED <<disk, saved, path, writing, outdated>>
    BY <1>3 DEF Return, past
  <2> QED BY <2>1 DEF OnFile, WriteIsOfShown, WrittenIsOnDisk, SavedIsOnFile, HeldBy, Unreported,
                      SavePending
<1>4. ASSUME NEW f \in Files, SaveTo(f), UNCHANGED <<disk, doc, saved, path, outdated>>
      PROVE  OnFile'
  <2>1. CASE UNCHANGED writing
    BY <1>4, <2>1
       DEF OnFile, WriteIsOfShown, WrittenIsOnDisk, SavedIsOnFile, HeldBy, Unreported, SavePending
  <2>2. CASE /\ ~SavePending
             /\ writing' = [path |-> f, content |-> doc, current |-> TRUE, matches |-> TRUE,
                            stage |-> "queued"]
    BY <1>4, <2>2
       DEF OnFile, WriteIsOfShown, WrittenIsOnDisk, SavedIsOnFile, HeldBy, Unreported, SavePending
  <2> QED BY <1>4, <2>1, <2>2 DEF SaveTo
<1>5. ASSUME NEW f \in Files, NEW data \in Version \cup {Blank},
             OpenSource(f, data), UNCHANGED disk
      PROVE  OnFile'
  BY <1>5, OpenSourceOnFile
<1>6. CASE WriteWorker
  <2>1. /\ writing # None /\ writing.stage = "queued" /\ writing \in WriteType
        /\ UNCHANGED <<doc, saved, path>>
    BY <1>6 DEF WriteWorker, SavePending, Typed
  <2>2. CASE writing' = [writing EXCEPT !.stage = "failed"] /\ UNCHANGED <<disk, outdated>>
    <3>1. /\ writing'.stage = "failed" /\ writing'.current = writing.current
          /\ writing'.content = writing.content
      BY <2>1, <2>2, WriteFields
    <3> QED BY <2>1, <2>2, <3>1
            DEF OnFile, WriteIsOfShown, WrittenIsOnDisk, SavedIsOnFile, HeldBy, Unreported, SavePending
  <2>3. CASE /\ writing' = [writing EXCEPT !.stage = "done"]
             /\ disk' = [disk EXCEPT ![writing.path] =
                           IF writing.content = None THEN Blank ELSE writing.content]
             /\ outdated' = (outdated \/ (~writing.current /\ writing.path = path))
    <3>1. /\ writing' # None
          /\ writing'.stage = "done" /\ writing'.current = writing.current
          /\ writing'.path = writing.path /\ writing'.content = writing.content
      BY <2>1, <2>3, WriteFields, WriteStays
    <3>2. WriteIsOfShown'
      BY <2>1, <3>1 DEF OnFile, WriteIsOfShown, SavePending
    <3>3. WrittenIsOnDisk'
      BY <1>0, <2>1, <2>3, <3>1 DEF WrittenIsOnDisk, Typed
    <3>4. SavedIsOnFile'
      <4>1. SUFFICES ASSUME doc' # None, saved' # None, ~outdated', ~Unreported'
                     PROVE  saved' \in HeldBy(path)'
        BY DEF SavedIsOnFile
      <4>2. ~outdated /\ path # writing.path
        BY <1>0, <2>1, <2>3, <3>1, <4>1 DEF Unreported, SavePending
      <4>3. saved \in HeldBy(path)
        BY <2>1, <4>1, <4>2 DEF OnFile, SavedIsOnFile, Unreported
      <4>4. path \in Files
        BY <2>1, <4>1 DEF HasFile
      <4>5. disk'[path] = disk[path]
        BY <2>1, <2>3, <4>2, <4>4 DEF Typed
      <4> QED BY <2>1, <4>3, <4>5 DEF HeldBy
    <3> QED BY <3>2, <3>3, <3>4 DEF OnFile
  <2> QED BY <1>6, <2>2, <2>3 DEF WriteWorker
<1>7. CASE Written
  <2>1. /\ writing # None /\ writing' = None /\ UNCHANGED <<disk, doc>>
        /\ Reported(writing.stage = "done")
    BY <1>7 DEF Written, SavePending
  <2>2. CASE writing.stage = "done" /\ writing.current
    <3>1. /\ path' = writing.path /\ saved' \in {writing.content, None}
      BY <2>1, <2>2 DEF Reported
    <3> QED BY <2>1, <2>2, <3>1
            DEF OnFile, WriteIsOfShown, WrittenIsOnDisk, SavedIsOnFile, HeldBy, SavePending
  <2>3. CASE ~(writing.stage = "done" /\ writing.current)
    <3>1. UNCHANGED <<path, saved, outdated>> /\ ~Unreported
      BY <2>1, <2>3 DEF Reported, Unreported
    <3> QED BY <2>1, <3>1
            DEF OnFile, WriteIsOfShown, WrittenIsOnDisk, SavedIsOnFile, HeldBy, SavePending
  <2> QED BY <2>2, <2>3
<1> QED BY <1>1, <1>2, <1>3, <1>4, <1>5, <1>6, <1>7, ContentCases

-----------------------------------------------------------------------------
(* Closing.                                                                *)

shut == <<open, closing, wanted, writing, doc, agreed, outdated, disk, path>>

\* A closed window only could report a write, and there is none.
LEMMA ClosedStays ==
  ASSUME Typed, CloseIsDue, ~open, [Next]_vars
  PROVE  UNCHANGED shut
<1>1. writing = None
  BY DEF CloseIsDue, SavePending
<1>2. ~Free
  BY DEF Free
<1>3. ~User
  BY <1>2 DEF User, Edit, Return, OpenFile, OpenDialog, OpenDisplay, ChooseFile, Dismiss,
      Discard, OpenAnyway, ToggleIgnore, Save, SaveAs, SaveAsResponse, CloseRequest,
      DiscardClose, CancelClose
<1>4. ~DisplaysListed /\ ~WriteWorker /\ ~Written /\ \A i \in DOMAIN reads : ~ReadWorker(i) /\ ~SourceRead(i)
  BY <1>1 DEF DisplaysListed, WriteWorker, Written, SavePending, ReadWorker, SourceRead
<1> QED BY <1>3, <1>4 DEF Next, vars, past, shut

\* What a step of an open window may do to its close request.
LEMMA CloseCases ==
  ASSUME Typed, [Next]_vars
  PROVE  \/ UNCHANGED <<open, closing, wanted>>
         \/ CloseRequest \/ DiscardClose \/ CancelClose \/ Written
<1>1. CASE UNCHANGED vars
  BY <1>1 DEF vars, past
<1>2. CASE \/ OpenDialog \/ OpenDisplay \/ DisplaysListed \/ Dismiss \/ OpenAnyway \/ ToggleIgnore
           \/ \E f \in Files : OpenFile(f) \/ \E d \in dialogs : ChooseFile(d, f)
           \/ \E f \in asking : Discard(f)
  BY <1>2 DEF OpenDialog, OpenDisplay, DisplaysListed, Dismiss, OpenAnyway, ToggleIgnore,
              OpenFile, ChooseFile, Discard, unchangedByRequest
<1>3. CASE Edit \/ Return \/ WriteWorker \/ \E i \in DOMAIN reads : ReadWorker(i) \/ SourceRead(i)
  BY <1>3 DEF Edit, Return, WriteWorker, ReadWorker, SourceRead, past
<1>4. CASE Save \/ SaveAs \/ \E f \in Files : SaveAsResponse(f)
  BY <1>4 DEF Save, SaveAs, SaveAsResponse, unchangedBySave, past
<1> QED BY <1>1, <1>2, <1>3, <1>4, SessionAssumption DEF SessionAssumption, Next, User

LEMMA CloseStep ==
  ASSUME SessionInv, Typed', OnFile', [Next]_vars
  PROVE  CloseIsDue'
<1>0. Typed /\ CloseIsDue /\ OnFile
  BY DEF SessionInv, OnFile
<1>1. CASE ~open
  BY <1>0, <1>1, ClosedStays DEF shut, CloseIsDue, HeldBy, SavePending
<1>2. CASE open /\ UNCHANGED <<open, closing, wanted>>
  BY <1>0, <1>2 DEF CloseIsDue
<1>3. CASE open /\ CloseRequest
  <2>1. /\ UNCHANGED <<disk, doc, saved, path, writing, outdated, agreed>> /\ wanted' = TRUE
        /\ ~open' => ~SavePending /\ ~Dirty
    <3>1. CASE SavePending
      BY <1>3, <3>1 DEF CloseRequest, unchangedByClose
    <3>2. CASE ~SavePending /\ Dirty
      BY <1>3, <3>2 DEF CloseRequest, unchangedByClose
    <3>3. CASE ~SavePending /\ ~Dirty
      BY <1>3, <3>3 DEF CloseRequest, unchangedByClose
    <3> QED BY <3>1, <3>2, <3>3
  <2>2. ASSUME ~open' PROVE doc = None \/ outdated \/ doc \in HeldBy(path)
    BY <1>0, <2>1, <2>2 DEF OnFile, SavedIsOnFile, Unreported, Dirty
  <2> QED BY <2>1, <2>2 DEF CloseIsDue, HeldBy, SavePending
<1>4. CASE open /\ DiscardClose
  <2>1. UNCHANGED <<doc, writing>> /\ agreed' = doc /\ wanted' = TRUE /\ (~open' => ~SavePending)
    BY <1>4 DEF DiscardClose, unchangedByClose
  <2> QED BY <2>1 DEF CloseIsDue, SavePending
<1>5. CASE open /\ CancelClose
  BY <1>5 DEF CancelClose, CloseIsDue
<1>6. CASE open /\ Written
  <2>1. /\ writing' = None /\ UNCHANGED <<disk, doc, agreed>>
        /\ AnswerClose(writing.stage = "done")
        /\ wanted' = (wanted /\ writing.stage = "done")
    BY <1>6 DEF Written
  <2>2. closing' = FALSE
    BY <2>1 DEF AnswerClose
  <2>3. ASSUME ~open' PROVE closing /\ writing.stage = "done" /\ doc = saved'
    BY <1>6, <2>1, <2>3 DEF AnswerClose
  <2>4. ASSUME ~open' PROVE doc' = None \/ outdated' \/ doc' \in HeldBy(path)'
    BY <2>1, <2>3, <2>4 DEF OnFile, SavedIsOnFile, Unreported, SavePending
  <2>5. ~open' => wanted'
    BY <1>0, <2>1, <2>3 DEF CloseIsDue
  <2> QED BY <2>1, <2>2, <2>4, <2>5 DEF CloseIsDue, SavePending
<1> QED BY <1>0, <1>1, <1>2, <1>3, <1>4, <1>5, <1>6, CloseCases

-----------------------------------------------------------------------------
(* The theorems.                                                           *)

LEMMA SessionInvInit == Init => SessionInv
<1> SUFFICES ASSUME Init PROVE SessionInv
  OBVIOUS
<1>1. Len(reads) = 0 /\ ~SavePending /\ doc = None /\ saved = None
  BY DEF Init, SavePending
<1>2. OnlyNewestRead
  BY <1>1 DEF OnlyNewestRead
<1>3. CloseIsDue
  BY DEF Init, CloseIsDue
<1> QED BY <1>1, <1>2, <1>3, TypedInit
        DEF SessionInv, WriteIsOfShown, WrittenIsOnDisk, SavedIsOnFile

LEMMA SessionInvStep == SessionInv /\ [Next]_vars => SessionInv'
<1> SUFFICES ASSUME SessionInv, [Next]_vars PROVE SessionInv'
  OBVIOUS
<1>1. Typed' /\ HasFile' /\ OnlyNewestRead'
  BY TypedStep, ReadsStep DEF SessionInv
<1>2. OnFile'
  BY OnFileStep DEF SessionInv, OnFile
<1>3. CloseIsDue'
  BY <1>1, <1>2, CloseStep
<1> QED BY <1>1, <1>2, <1>3 DEF SessionInv, OnFile

LEMMA SessionInvariant == Spec => []SessionInv
BY SessionInvInit, SessionInvStep, PTL DEF Spec

(***************************************************************************)
(* The state of a window's document keeps its type, whatever the user does *)
(* while files are read and written (document.cpp).                        *)
(***************************************************************************)
THEOREM SessionTypeCorrect == Spec => []TypeOK
<1>1. SessionInv => TypeOK
  <2> SUFFICES ASSUME SessionInv PROVE TypeOK
    OBVIOUS
  <2>1. {writable, hadErrors, ignore, retry, closing, listing, open, wanted, outdated}
          \subseteq BOOLEAN
    BY DEF SessionInv, Typed
  <2>2. \A i \in DOMAIN reads : reads[i] \in ReadType
    BY DEF SessionInv, Typed
  <2>3. doc = None => saved = None
    BY DEF SessionInv, WriteIsOfShown
  <2> QED BY <2>1, <2>2, <2>3 DEF SessionInv, Typed, TypeOK
<1> QED BY <1>1, SessionInvariant, PTL

(***************************************************************************)
(* A document shown as unmodified is what its file holds, or what reading  *)
(* the file gives when its last block is cut short, unless another         *)
(* document was written over the file after it was read                    *)
(* (saved_history_position, document_serial, wnd_on_written, edid_load).   *)
(***************************************************************************)
THEOREM UnmodifiedMeansOnFile == Spec => []UnmodifiedIsOnItsFile
<1>1. SessionInv => UnmodifiedIsOnItsFile
  BY DEF SessionInv, SavedIsOnFile, Unreported, UnmodifiedIsOnItsFile, Settled, Dirty,
         SavePending
<1> QED BY <1>1, SessionInvariant, PTL

(***************************************************************************)
(* A window that closes leaves a document that its file gives back, or the *)
(* user agreed to drop that version (wnd_on_close_request, wnd_on_written).*)
(***************************************************************************)
THEOREM ClosingKeepsWork == Spec => []ClosedKeepsWork
<1>1. SessionInv => ClosedKeepsWork
  BY DEF SessionInv, CloseIsDue, ClosedKeepsWork, SavePending
<1> QED BY <1>1, SessionInvariant, PTL

(***************************************************************************)
(* A window closes only while its user wants it closed (close_after_save). *)
(***************************************************************************)
THEOREM ClosingIsWanted == Spec => []CloseIsWanted
<1>1. SessionInv => CloseIsWanted
  BY DEF SessionInv, CloseIsDue, CloseIsWanted
<1> QED BY <1>1, SessionInvariant, PTL

(***************************************************************************)
(* A close request that waits for a save is answered when it ends: the     *)
(* window closes or asks, unless the save failed (wnd_on_written).         *)
(***************************************************************************)
THEOREM ClosingIsAnswered == Spec => CloseIsAnswered
<1>1. ASSUME SessionInv, [Next]_vars, closing, ~closing'
      PROVE  ~open' \/ "close" \in dialogs' \/ writing.stage = "failed"
  <2>1. Typed /\ CloseIsDue
    BY <1>1 DEF SessionInv
  <2>2. open
    BY <1>1, <2>1, ClosedStays DEF shut
  <2>3. ~CancelClose /\ ~UNCHANGED closing
    BY <1>1 DEF CancelClose
  <2>4. ~CloseRequest
    <3> SUFFICES ASSUME CloseRequest PROVE closing' \in {closing, TRUE}
      BY <1>1
    <3>1. CASE SavePending
      BY <3>1 DEF CloseRequest
    <3>2. CASE ~SavePending /\ Dirty
      BY <3>2 DEF CloseRequest
    <3>3. CASE ~SavePending /\ ~Dirty
      BY <3>3 DEF CloseRequest
    <3> QED BY <3>1, <3>2, <3>3
  <2>5. ~DiscardClose
    BY <1>1 DEF DiscardClose
  <2>6. Written
    BY <1>1, <2>1, <2>3, <2>4, <2>5, CloseCases
  <2>7. writing.stage \in {"done", "failed"}
    BY <2>1, <2>6, WriteFields DEF Written, SavePending, Typed
  <2> QED BY <1>1, <2>2, <2>6, <2>7 DEF Written, AnswerClose
<1>2. SessionInv /\ [Next]_vars =>
        [(closing /\ ~closing') =>
           (~open' \/ "close" \in dialogs' \/ writing.stage = "failed")]_vars
  BY <1>1
<1> QED BY <1>2, SessionInvariant, PTL DEF Spec, CloseIsAnswered

(***************************************************************************)
(* A slow read never replaces the document opened after it: only the       *)
(* newest read is not cancelled (wnd_load_file).                           *)
(***************************************************************************)
THEOREM NewestFileOpens == Spec => NewestFileWins
<1>1. ASSUME SessionInv, [Next]_vars, NEW i \in DOMAIN reads, Landed(i)
      PROVE  i = Len(reads)
  <2>1. Typed /\ HasFile /\ OnlyNewestRead
    BY <1>1 DEF SessionInv
  <2>2. reads' = WithoutRead(i) /\ source' # source /\ Len(reads') = Len(reads) - 1
    BY <1>1, <2>1, WithoutReadType DEF Landed, Typed
  <2>3. PICK j \in DOMAIN reads : SourceRead(j)
    <3>1. Len(reads) \in Nat
      BY <2>1 DEF Typed
    <3>2. ~UNCHANGED reads
      BY <2>2, <3>1
    <3>3. ASSUME NEW j \in DOMAIN reads, ReadWorker(j) PROVE FALSE
      BY <2>2, <3>3 DEF ReadWorker
    <3>4. ~\E f \in Files : LoadFile(f) /\ UNCHANGED <<doc, source>>
      BY <2>2
    <3> QED BY <1>1, <2>1, <3>2, <3>3, <3>4, ReadsCases
  <2>4. reads' = WithoutRead(j) /\ ~reads[j].cancelled
    BY <2>2, <2>3 DEF SourceRead
  <2> QED BY <2>1, <2>2, <2>4, NewestReadEnds
<1>2. SessionInv /\ [Next]_vars =>
        [\A i \in DOMAIN reads : Landed(i) => i = Len(reads)]_vars
  BY <1>1
<1> QED BY <1>2, SessionInvariant, PTL DEF Spec, NewestFileWins

(***************************************************************************)
(* A document that was unmodified when another file was asked for is what  *)
(* its file gives back when the other replaces it, whatever was edited,    *)
(* undone and saved meanwhile: changes of that time are asked about, and   *)
(* the saved position stays that of the version written                    *)
(* (wnd_on_source_read, wnd_on_written).                                   *)
(***************************************************************************)
THEOREM ReplacedWasOnFile == Spec => ReplacedIsOnFile
<1> DEFINE Kept(i) == \/ doc = None \/ reads[i].wasDirty
                      \/ outdated \/ ~Settled
                      \/ doc \in HeldBy(path)
<1>1. ASSUME SessionInv, [Next]_vars, NEW i \in DOMAIN reads,
             reads' = WithoutRead(i), doc' # doc
      PROVE  Kept(i)
  <2>1. Typed /\ HasFile /\ OnlyNewestRead /\ SavedIsOnFile /\ Len(reads) \in Nat
    BY <1>1 DEF SessionInv, Typed
  <2>2. Len(reads') = Len(reads) - 1
    BY <1>1, <2>1, WithoutReadType DEF Typed
  <2>3. PICK j \in DOMAIN reads : SourceRead(j)
    <3>1. ~UNCHANGED reads
      BY <2>1, <2>2
    <3>2. ASSUME NEW j \in DOMAIN reads, ReadWorker(j) PROVE FALSE
      BY <1>1, <3>2 DEF ReadWorker
    <3>3. ~\E f \in Files : LoadFile(f) /\ UNCHANGED <<doc, source>>
      BY <1>1
    <3> QED BY <1>1, <2>1, <3>1, <3>2, <3>3, ReadsCases
  <2>4. reads' = WithoutRead(j) /\ ~reads[j].cancelled /\ ~MustAsk(reads[j])
    BY <1>1, <2>3 DEF SourceRead
  <2>5. i = j
    BY <1>1, <2>1, <2>4, NewestReadEnds
  \* The document is unmodified, so its version is the one at the saved position.
  <2>6. SUFFICES ASSUME doc # None, ~reads[i].wasDirty, ~outdated, Settled
                 PROVE  doc \in HeldBy(path)
    OBVIOUS
  <2>7. saved = doc
    BY <2>4, <2>5, <2>6 DEF MustAsk, Dirty
  <2>8. ~Unreported
    BY <2>6 DEF Settled, Unreported, SavePending
  <2> QED BY <2>1, <2>6, <2>7, <2>8 DEF SavedIsOnFile
<1>2. SessionInv /\ [Next]_vars =>
        [\A i \in DOMAIN reads : (reads' = WithoutRead(i) /\ doc' # doc) => Kept(i)]_vars
  BY <1>1
<1> QED BY <1>2, SessionInvariant, PTL DEF Spec, ReplacedIsOnFile
=============================================================================
