--------------------------- MODULE DisplayIDGroups ---------------------------
(***************************************************************************)
(* The groups of a DisplayID extension (src/core/DisplayID.cpp): the       *)
(* header, and a data block with the sub-groups its tag, version and flags *)
(* call for.  How blocks make up a section is DisplayIDSection.            *)
(***************************************************************************)
EXTENDS ExtendedGroups

(* The header: five bytes and the two checksums.                           *)
displayid_hdr(b) ==
  << Part("DID-HDR", 0, 7,
       << RD(ByteVal("Extension tag", 0)), RD(BitF8Val("Version", 1, 4, 4)),
          RD(BitF8Val("Revision", 1, 0, 4)), RD(Upto(ByteVal("Payload length", 2), 121)),
          VS(ByteVal("Product type", 3)), RD(ByteVal("Extension count", 4)),
          RD(ByteVal("DisplayID checksum", 5)), RD(ByteVal("EDID checksum", 6)) >>) >>

displayid_db_fields ==
  << RD(ByteVal("Tag", 0)), BitF8Val("Revision", 1, 0, 3), BitF8Val("Flags", 1, 3, 5),
     RD(Upto(ByteVal("Payload length", 2), 121)) >>
-----------------------------------------------------------------------------
(* What a data block holds; bytes counted from the start of each.          *)
ValuePlusOne16(name, byte) == Plus(Word16(name, byte), 1)
ValuePlusOne15(name, byte) == Plus(BitF16Val(name, byte, 0, 15), 1)
DisplayID_PixelClock(name, byte, conv) ==
  Field(name, conv, [i \in 1..3 |-> <<byte + i - 1, 0, 8>>], 1, 2 ^ 24)

displayid_timing(clock) ==
  << DisplayID_PixelClock("Pixel clock", 0, clock), VS(BitF8Val("Aspect ratio", 3, 0, 4)),
     BitVal("Interlaced", 3, 4), VS(BitF8Val("Stereo support", 3, 5, 2)),
     BitVal("Preferred", 3, 7),
     ValuePlusOne16("Horizontal active", 4), ValuePlusOne16("Horizontal blanking", 6),
     ValuePlusOne15("Horizontal front porch", 8), ValuePlusOne16("Horizontal sync width", 10),
     BitVal("Horizontal sync positive", 9, 7),
     ValuePlusOne16("Vertical active", 12), ValuePlusOne16("Vertical blanking", 14),
     ValuePlusOne15("Vertical front porch", 16), ValuePlusOne16("Vertical sync width", 18),
     BitVal("Vertical sync positive", 17, 7) >>
displayid_type1_timing == displayid_timing("clock25")
displayid_type7_timing == displayid_timing("clock125")

\* Revision 0 has one byte for the highest rate.
displayid_range(revision) ==
  << DisplayID_PixelClock("Minimum pixel clock", 0, "clock125"),
     DisplayID_PixelClock("Maximum pixel clock", 3, "clock125"), ByteVal("Minimum refresh", 6),
     IF revision = 0 THEN ByteVal("Maximum refresh", 7) ELSE DisplayID_MaxRefresh(7),
     BitVal("Seamless timing change", 8, 7) >>

DisplayID_QuarterMs(name, byte) == ByteVal(name, byte)
DisplayID_MaxRefreshPlusOne(byte) == Plus(DisplayID_MaxRefresh(byte), 1)
displayid_adaptive_sync ==
  << BitVal("Native panel range", 0, 0), BitVal("Increase without jitter", 0, 1),
     VS(BitF8Val("Refresh type", 0, 2, 2)), BitVal("No seamless transition", 0, 4),
     BitVal("Decrease without jitter", 0, 5), DisplayID_QuarterMs("Maximum duration increase", 1),
     ByteVal("Minimum refresh", 2), DisplayID_MaxRefreshPlusOne(3),
     DisplayID_QuarterMs("Maximum duration decrease", 5) >>

displayid_raw_payload(n) == [i \in 1..n |-> ByteVal("Payload byte", i - 1)]
RawPart(at, n) ==
  IF n > 0 THEN << Part("DID-RAW", at, n, displayid_raw_payload(n)) >> ELSE << >>
-----------------------------------------------------------------------------
(* displayid_data_block_cl::init.                                          *)

\* Descriptors of one size, as many as fit.
Descriptors(b, class, size, fields) ==
  LET n == b[2] \div size
  IN  [i \in 1..n |-> Part(class, 3 + (i - 1) * size, size, fields)]
      \o RawPart(3 + n * size, b[2] % size)

Shift(part, at) ==
  [part EXCEPT !.at = @ + at, !.fields = [i \in DOMAIN @ |-> Moved(@[i], at)]]
(* CTA blocks one after the other.  A block that opens and has one part is  *)
(* that part; any other is raw.                                            *)
Slice(b, at, n) == [i \in 0..(n - 1) |-> Byte(b, at + i)]
ShownPart(layout, at, size) ==
  IF layout.opens /\ Len(layout.parts) = 1 THEN << Shift(layout.parts[1], at) >>
  ELSE RawPart(at, size)
CtaPart(b, at, size) == ShownPart(ParseDBC_TAG(Slice(b, at, size)), at, size)
CtaParts(b) ==
  LET end == 3 + b[2]
      Next(s, k) ==
        LET size == 1 + (Byte(b, s.at) % 32)
        IN  IF s.stop \/ s.at + size > end THEN [s EXCEPT !.stop = TRUE]
            ELSE [s EXCEPT !.at = @ + size, !.parts = @ \o CtaPart(b, s.at, size)]
      WithRest(s) == s.parts \o RawPart(s.at, end - s.at)
  IN  WithRest(FoldLeft(Next, [at |-> 3, parts |-> << >>, stop |-> FALSE],
                        [k \in 1..b[2] |-> k]))

displayid_data_block(version, b) ==
  LET sub == (b[1] \div 16) % 8
  IN  << Part("DID-DB", 0, 3, displayid_db_fields) >> \o
      CASE version >= 32 /\ b[0] = 34 ->
             Descriptors(b, "DID-T7", 20 + sub, displayid_type7_timing)
        [] version >= 32 /\ b[0] = 37 /\ b[2] = 9 ->
             << Part("DID-RANGE", 3, 9, displayid_range(b[1] % 8)) >>
        [] version >= 32 /\ b[0] = 43 ->
             Descriptors(b, "DID-AS", 6 + sub, displayid_adaptive_sync)
        [] version < 32 /\ b[0] = 3 -> Descriptors(b, "DID-T1", 20, displayid_type1_timing)
        [] b[0] = 129 -> CtaParts(b)
        [] OTHER -> RawPart(3, b[2])
=============================================================================
