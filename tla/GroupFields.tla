---------------------------- MODULE GroupFields ----------------------------
(***************************************************************************)
(* The fields of one group while they are edited: a value is written into  *)
(* the bytes, the group is laid out again when the field decides how       *)
(* (RebuildGroup), the edit is remembered, and undoing it writes the value *)
(* that was shown before.  What is in a group is BaseGroups, CtaGroups,    *)
(* ExtendedGroups and DisplayIDGroups; here they are put to use.           *)
(*                                                                         *)
(* A step is one finished edit: the text of a session is its last one, and *)
(* the idle handler has run (EditHistory has the steps between).  Fields   *)
(* that are read only stay so.                                             *)
(***************************************************************************)
EXTENDS DisplayIDGroups

CONSTANTS
  Images       \* groups of a file: [place, data, edits], the last a bound

VARIABLES
  place,       \* what kind of group it is, and where
  data,        \* its bytes, the first at 0
  layout,      \* its parts and their fields, as they were last made
  history,     \* the edits done, the last of them the first to be undone
  edits        \* edits that may still be made
vars == <<place, data, layout, history, edits>>
-----------------------------------------------------------------------------
(* How the bytes at a place are laid out.                                  *)
BlockOpens(l) == l.opens /\ l.parts[1].class \notin UnknownBlocks
Layout(p, b) ==
  CASE p = "base"       -> edibase(b)
    [] p = "input"      -> vindsc(b)
    [] p = "display"    -> bddcs(b)
    [] p = "features"   -> spft(b)
    [] p = "colors"     -> chromxy(b)
    [] p = "modes"      -> resmap(b)
    [] p = "timing"     -> dmt_std2(b)
    [] p = "descriptor" -> ParseAltDtor(b)
    [] p = "cta header" -> cea_hdr(b)
    [] p = "cta block"  -> ParseDBC_TAG(b).parts
    [] p = "did header" -> displayid_hdr(b)
    [] p = "did1 block" -> displayid_data_block(18, b)
    [] p = "did2 block" -> displayid_data_block(32, b)
Opens(p, b) == p = "cta block" => BlockOpens(ParseDBC_TAG(b))

ImagesAssumption ==
  \A image \in Images : image.edits \in Nat /\ Opens(image.place, image.data)
ASSUME ImagesAssumption

(* RebuildGroup after a write into a part.  A data block of DisplayID is   *)
(* never made again, a CTA block in it is, alone and of the same size.     *)
InDisplayID == place \in {"did1 block", "did2 block"}
RebuildGroup(i, bytes) ==
  IF ~InDisplayID THEN Layout(place, bytes)
  ELSE [layout EXCEPT ![i] =
          Shift(ParseDBC_TAG(Slice(bytes, layout[i].at, layout[i].size)).parts[1], layout[i].at)]
\* Mutant: every format can be made.
RefusedNever(part, f, bytes) == FALSE
\* A descriptor of a format nothing is known of cannot be made.
Refused(part, f, bytes) ==
  /\ part.class = "SAD"
  /\ "FR" \in f.is
  /\ SAD(bytes, part.at).init = "fault"
LaysOut(f) == f.is \cap {"FR", "INIT"} # {}
-----------------------------------------------------------------------------
Init ==
  /\ \E image \in Images :
       /\ place = image.place
       /\ data = image.data
       /\ layout = Layout(image.place, image.data)
       /\ edits = image.edits
  /\ history = << >>

(* A value is written into a field of a part: typed, or chosen from the    *)
(* list of the field.  An edit that shows the same value as before is not  *)
(* remembered; one that makes other parts is undone with them.             *)
Remember(f, v, before, bytes, new) ==
  history' = IF Shown(f, bytes) = before THEN history
             ELSE Append(history, [field |-> f, before |-> before, was |-> data, saved |-> bytes,
                                   typed |-> v, layout |-> IF new = layout THEN << >> ELSE layout])
\* Mutant: the refused value stays in the bytes.
FinishKeepingRefused(i, f, v, before, bytes) ==
  IF Refused(layout[i], f, bytes) THEN data' = bytes /\ UNCHANGED <<layout, history>>
  ELSE /\ data' = bytes
       /\ layout' = IF LaysOut(f) THEN RebuildGroup(i, bytes) ELSE layout
       /\ Remember(f, v, before, bytes, layout')
Finish(i, f, v, before, bytes) ==
  IF Refused(layout[i], f, bytes)
    \* The value goes back at once, and the edit is forgotten.
    THEN data' = Write(f, bytes, before) /\ UNCHANGED <<layout, history>>
    ELSE \E new \in {IF LaysOut(f) THEN RebuildGroup(i, bytes) ELSE layout} :
           data' = bytes /\ layout' = new /\ Remember(f, v, before, bytes, new)
Edit(i, f, v) ==
  /\ Finish(i, f, v, Shown(f, data), Write(f, data, v))
  /\ edits' = edits - 1
  /\ UNCHANGED place

Editable(f) == "RD" \notin f.is
\* row_on_entry_changed, row_on_switch_notify
Type(i, f, v) ==
  /\ Editable(f) /\ f.list = {}
  /\ Accepts(f, data, v)
  /\ Edit(i, f, v)
\* row_on_combo_notify: the number of the entry is written as it is, save for
\* the handlers with a rule of their own.
Ruled == {"minfreq", "maxfreq", "vic", "native"}
Choose(i, f, v) ==
  /\ Editable(f) /\ v \in f.list
  /\ f.conv \in Ruled => Accepts(f, data, v)
  /\ Edit(i, f, v)

Takes(f, b, v) == (f.list = {} \/ f.conv \in Ruled) => Accepts(f, b, v)
\* Mutant: the parts, and the bytes they were left with, come back last.
UndoValueFirst ==
  /\ history # << >>
  /\ LET e       == Last(history)
         rebuilt == e.layout # << >>
     IN  /\ Takes(e.field, data, e.before)
         /\ data' = IF rebuilt THEN e.saved ELSE Write(e.field, data, e.before)
         /\ layout' = IF rebuilt THEN e.layout ELSE layout
  /\ history' = Front(history)
  /\ UNCHANGED <<place, edits>>

(* The last edit is taken back: first the parts it made, then its value.   *)
(* A value that is refused stays, without the parts.                       *)
Undo ==
  /\ history # << >>
  /\ LET e       == Last(history)
         rebuilt == e.layout # << >>
         bytes   == IF rebuilt THEN e.saved ELSE data
     IN  /\ layout' = IF rebuilt THEN e.layout ELSE layout
         /\ IF Takes(e.field, bytes, e.before)
              THEN /\ data' = Write(e.field, bytes, e.before)
                   /\ history' = Front(history)
              ELSE /\ data' = bytes
                   /\ history' = [history EXCEPT ![Len(history)].layout = << >>]
         /\ UNCHANGED <<place, edits>>

\* Typed beside the limits and the middle: clocks (in quarters of a MHz) just
\* above and below a whole ten, and the last quarters that need no carry and
\* the first that do.
Between(f) == CASE f.conv = "maxclock" -> {641, 661, 679}
                [] f.conv = "quarters" -> {39, 40}
                [] OTHER               -> {}
Values(f) == IF f.list # {} THEN f.list
             ELSE IF IsBytes(f) THEN {}
             ELSE {f.lo, (f.lo + f.hi) \div 2, f.hi} \cup Between(f)
Next ==
  \/ /\ edits > 0
     /\ \E i \in DOMAIN layout : \E k \in DOMAIN layout[i].fields :
          LET f == layout[i].fields[k]
          IN  \E v \in Values(f) : Type(i, f, v) \/ Choose(i, f, v)
  \/ Undo
Spec == Init /\ [][Next]_vars
-----------------------------------------------------------------------------
(* Properties.  What the code gets wrong is named, so that all the rest is  *)
(* claimed.                                                                *)
Fields == UNION {{layout[i].fields[k] : k \in DOMAIN layout[i].fields} : i \in DOMAIN layout}
IsEdit == Len(history') > Len(history)
IsUndo == Len(history') < Len(history)
Edited == Last(history').field
Undone == Last(history)
Remembered == {history[k].field : k \in DOMAIN history}

\* The parts and fields shown are those that opening the bytes would make: a
\* field that decides them has the flag that lays the group out again, and
\* undoing brings the right parts back (RebuildGroup, wnd_apply_history_step).
\* Not in DisplayID, where a data block is never made again, and not while a
\* GTF parameter is written over the type of its descriptor.
Misplaced == {"gtf_m"}
FieldsFollowBytes ==
  \/ InDisplayID
  \/ \E f \in Remembered : f.name \in Misplaced
  \/ layout = Layout(place, data)

\* Undoing an edit leaves the bytes that were there before it, if writing the
\* text shown for them would have kept them: what a handler reads and writes
\* beside the value (flags, a carry, a native bit) is put back as well.  Two
\* handlers forget: the native bit of a video code is dropped with a code that
\* has none, and forty quarters are carried into the tens for good.
Carries(f, v) == f.conv = "quarters" /\ v >= 40
Forgets(f, v) == f.conv = "vic" \/ Carries(f, v)
UndoRestores ==
  [][IsUndo /\ Write(Undone.field, Undone.was, Undone.before) = Undone.was
       => data' = Undone.was \/ Forgets(Undone.field, Undone.typed)]_vars

\* The value an edit replaced is accepted again by the handler, in whatever
\* state the edit left the bytes the handler looks at, when it is within the
\* limits of its field.  A code of the reserved range is not, and neither are
\* forty quarters where there are no two tens to take them off: a file may hold
\* them, and replacing them cannot be undone.
NoTens(b) == b[9] <= 1
CanUndo ==
  history # << >> =>
    LET e     == Last(history)
        bytes == IF e.layout = << >> THEN data ELSE e.saved
    IN  e.before \in e.field.lo..e.field.hi /\ e.field.conv # "vic"
          => \/ Takes(e.field, bytes, e.before)
             \/ Carries(e.field, e.before) /\ NoTens(bytes)

\* Bytes that an edit changes can be undone, and an edit that is taken back or
\* not remembered leaves them alone.  Typing again the latency that is shown for
\* none, or the delay that is shown for a signed one, changes bytes unnoticed.
Retyped(f) == f.conv \in {"latency", "delay"} /\ data' = Write(f, data, Shown(f, data))
ChangesAreRemembered ==
  [][edits' < edits /\ data' # data => IsEdit \/ \E f \in Fields : Retyped(f)]_vars

\* The text that was accepted is the text then shown, to the step of the field,
\* unless it is a number the field has no bits for.  The clock of the range
\* limits is kept to its quarter when the extension is CVT, and is otherwise cut
\* to tens of MHz: 165.00 is then shown as 160.00.
Step(f, b) ==
  CASE f.times > 1 -> f.times - 1
    [] f.conv = "maxclock" -> IF MRL_Ext(Raw(f, b)) = 4 THEN 0 ELSE 39
    [] f.conv \in {"gamma", "chroma", "coef", "delay", "latency", "clock25", "clock125"} -> 1
    [] OTHER -> 0
Bits(f) == FoldRight(LAMBDA p, n : p[3] + n, f.where, 0)
HasBits(f, raw) ==
  IF f.conv \in {"coef", "signed"} THEN raw \in (-(2 ^ (Bits(f) - 1)))..(2 ^ (Bits(f) - 1) - 1)
  ELSE raw \in 0..(2 ^ Bits(f) - 1)
WrittenIsRead ==
  [][IsEdit => LET v == Last(history').typed
               IN  \/ Shown(Edited, data') \in (v - Step(Edited, data))..v
                   \/ ~HasBits(Edited, Stored(Edited, data, v))
                   \/ Edited.conv = "zeroed" \/ Carries(Edited, v)]_vars

\* Every bit of a group is shown by some field, so that nothing a file holds is
\* out of sight.  What is not: the points of a white point descriptor, the
\* bytes of established timings looked for behind the descriptor, the two high
\* bits of the widest line of a CVT range, the GTF parameter that is looked for
\* elsewhere, the two bytes of a display device that others are read for, and
\* the tail of longer DisplayID descriptors.
Hidden(p) ==
  CASE p.class = "ET3" -> (12..17) \X (0..7)
    [] p.class = "WPD" -> {6, 11} \X (0..7)
    [] p.class = "MRL" /\ data[10] = 4 -> {12} \X {0, 1}
    [] p.class = "MRL" /\ data[10] = 2 -> {14, 15} \X (0..7)
    [] p.class = "VSD" -> {p.at + 15} \X (2..7)
    [] p.class = "DSP" -> {13, 20} \X (0..7)
    [] p.class = "DID-T7" -> ((p.at + 20)..(p.at + p.size - 1)) \X (0..7)
    [] p.class = "DID-AS" -> ({p.at} \X {6, 7}) \cup ({p.at + 4} \X (2..7))
                               \cup (((p.at + 6)..(p.at + p.size - 1)) \X (0..7))
    [] p.class = "DID-RANGE" -> {p.at + 8} \X (0..6)
    [] OTHER -> {}
BytesAreCovered ==
  (DOMAIN data) \X (0..7) \subseteq
    UNION {BitsOf(f) : f \in Fields} \cup UNION {Hidden(layout[i]) : i \in DOMAIN layout}

\* An edit changes the value of one field, and of those that are another view
\* of the same bits.  Some that are not views are changed too: their handlers
\* are given the byte of another field.
ViewOf(code, names) == {{code, name} : name \in names}
Views ==
  ViewOf("DMT_2", {"X-res", "V-freq", "asp_ratio"})
  \cup ViewOf("CVT_3", {"Y-res", "res0_01", "asp_ratio", "vref_60_rb", "vref_85", "vref_75",
                        "vref_60", "vref_50", "pref_vref", "res2_7"})
  \cup ViewOf("rate_offsets", {"min_Vfreq", "max_Vfreq", "min_Hfreq", "max_Hfreq"})
  \cup ViewOf("max_PixClk", {"maxPixClk_apb", "mrl_ext"})
  \cup {{"VIC", "Native"}, {"num_chn", "MC4"}, {"VESA compat", "IF Type"}}
WrongByte ==
  {{"ContProt", "subpixlc"}, {"frm_delta", "conv_mode", "frm_rate"}, {"aud_delay", "dly_sign"}}
EditChangesOneValue ==
  [][IsEdit => \A g \in Fields :
       \/ g = Edited
       \/ Shown(g, data') = Shown(g, data)
       \/ \E names \in Views \cup WrongByte : {g.name, Edited.name} \subseteq names
       \/ {g.name, Edited.name} \cap Misplaced # {}]_vars

\* A block that was read from a file can be read again after an edit, unless
\* the edit was of a field its parent is laid out by (a count, a length, a
\* size): those are not refused when the parts no longer fit.
EditedOpensAgain ==
  \/ Opens(place, data)
  \/ \E f \in Remembered : "INIT" \in f.is
-----------------------------------------------------------------------------
(* What is said of the program and does not hold.                          *)

\* docs/usage.md: a length that no longer fits is refused.
LengthsThatDoNotFitAreRefused ==
  (\E f \in Remembered : f.name = "Blk length") => Opens(place, data)

\* EDID.h: bytes 14 and 15 are the GTF M value.
GtfMIsInItsBytes ==
  [][IsEdit /\ Edited.name = "gtf_m" => \A n \in DOMAIN data \ {14, 15} : data'[n] = data[n]]_vars

\* docs/usage.md: changing a field that decides the layout of its group
\* rebuilds the group from its data.
LayoutFollowsBytes == layout = Layout(place, data)

\* docs/usage.md: undo covers field edits.
UndoTakesBack == [][IsUndo => data' = Undone.was]_vars
=============================================================================
