--------------------------- MODULE ExtendedGroups ---------------------------
(***************************************************************************)
(* The data blocks of a CTA-861 extension whose type is in their second    *)
(* byte (src/core/CEA_ET.cpp), laid out by the same descriptors as the     *)
(* others.                                                                 *)
(***************************************************************************)
EXTENDS CtaGroups, BaseGroups

NormV(name, byte) == Field(name, "signed", << <<byte, 0, 8>> >>, -128, 127)
Reserved(f, hi) == RD(Upto(f, hi))
-----------------------------------------------------------------------------
(* Blocks of one part.                                                     *)
CEA_VCDB ==
  Flat("VCDB", 2, 2, 2, {},
    << Fixed(<< BitF8Val("S_CE01", 2, 0, 2), BitF8Val("S_IT01", 2, 2, 2),
                BitF8Val("S_PT01", 2, 4, 2), BitVal("QS", 2, 6), BitVal("QY", 2, 7) >>, 1) >>)

VendorOnly(class) == Flat(class, 4, 31, 2, {}, << Fixed(<< RD(ByteStr("IEEE-OUI", 2, 3)) >>, 3) >>)
CEA_VSVD == VendorOnly("VSVD")
CEA_VSAD == VendorOnly("VSAD")

CEA_CLDB ==
  Flat("CLDB", 3, 3, 2, {},
    << Fixed(Switches(2, 0, <<"xvYCC601", "xvYCC709", "sYCC601", "opYCC601", "opRGB",
                              "BT2020cYCC", "BT2020YCC", "BT2020RGB">>), 1),
       Fixed(<< Reserved(BitF8Val("MD03", 3, 0, 4), 7), RD(BitF8Val("resvd46", 3, 4, 3)),
                BitVal("DCI-P3", 3, 7) >>, 1) >>)

CEA_HDRS ==
  Flat("HDRS", 3, 6, 2, {},
    << Fixed(Switches(2, 0, <<"SDR", "HDR", "SMPTE_ST_2084", "HLG", "ET_4">>)
             \o << RD(BitVal("ET_5", 2, 5)), RD(BitF8Val("ET6-7", 2, 6, 2)),
                   RD(BitVal("SM_0", 3, 0)), RD(BitF8Val("SM1-7", 3, 1, 7)) >>, 2),
       FieldGroup(<< FR(Luminance("max_lum", 4)), Luminance("avg_lum", 5),
                     Luminance("min_lum", 6) >>, 3, {"LAYOUT", "LEN"}) >>)

CEA_T7VTB ==
  Flat("T7VTB", 22, 22, 2, {},
    << Fixed(<< BitF8Val("Blk_rev", 2, 0, 3), BitVal("DSC_PT", 2, 3), BitF8Val("T7_M", 2, 4, 3),
                BitVal("F37", 2, 7),
                Field("Pixel clock", "kHz", [i \in 1..3 |-> <<2 + i, 0, 8>>], 1, 2 ^ 24 - 1),
                VS(BitF8Val("asp_ratio", 6, 0, 4)), BitVal("T7_IL", 6, 4),
                VS(BitF8Val("3D_support", 6, 5, 2)), BitVal("T7_Y420", 6, 7),
                Word16("HApix", 7), Word16("HBpix", 9), BitF16Val("Hoffs", 11, 0, 15),
                Word16("HsyncW", 13), BitVal("HSP", 12, 7), Word16("VAlin", 15),
                Word16("VBpix", 17), BitF16Val("Voffs", 19, 0, 15), Word16("VsyncW", 21),
                BitVal("VSP", 20, 7) >>, 21) >>)

CEA_HFEEODB == Flat("HFEEODB", 2, 2, 2, {}, << Fixed(<< ByteVal("ext_blks", 2) >>, 1) >>)
CEA_HFSCDB ==
  Flat("HFSCDB", 3, 31, 2, {"LAYOUT"},
       << Fixed(<< RD(Word16("reserved", 2)) >>, 2) >> \o HF_groups)
CEA_UnkET == Flat("UNK-ET", 0, 31, 2, {}, << >>)

\* One bit for each video descriptor of the extension.
y42c(b) ==
  LET n == blk_len(b) - 1
      bits == [i \in 1..(8 * (IF n > 0 THEN n ELSE 0)) |->
                 BitVal("svd", 2 + (i - 1) \div 8, (i - 1) % 8)]
  IN  [opens |-> n >= 1, parts |-> << Part("Y42C", 0, blk_len(b) + 1, CEA_BlkHdr(2) \o bits) >>]
-----------------------------------------------------------------------------
(* VESA display device: five parts that are all made from the whole block. *)
VDDD_IF_MaxF == Field("if_fmax", "plain", << <<6, 0, 8>>, <<5, 0, 2>> >>, 0, 63)
vddd_iface ==
  << Upto(BitF8Val("if_type", 2, 4, 4), 12), Upto(BitF8Val("n_lanes", 2, 0, 4), 4),
     BitF8Val("version", 3, 4, 4), BitF8Val("release", 3, 0, 4),
     BitF8Val("if_fmin", 5, 2, 6), VDDD_IF_MaxF >>
vddd_cprot == << Upto(ByteVal("ContProt", 4), 3) >>
VDDD_AudioDelay == Field("aud_delay", "delay", << <<18, 0, 8>> >>, 0, 254)
vddd_audio ==
  << Reserved(BitF8Val("resvd04", 17, 0, 5), 7) >>
  \o Switches(17, 5, <<"audio_ovr", "sep_achn", "vid_achn">>)
  \o << VDDD_AudioDelay, BitVal("dly_sign", 18, 7) >>

VDDD_HVpix_cnt(name, byte) == Plus(Word16(name, byte), 1)
\* The text is read into a variable that is not the one stored.
VDDD_AspRatio == Plus(Field("aspect", "zeroed", << <<11, 0, 8>> >>, 0, 255), 100)
VDDD_HVpx_pitch(name, byte) == Field(name, "zeroed", << <<byte, 0, 8>> >>, 0, 255)
\* The sub-pixel layout and the frame rate are read from bytes of others.
vddd_disp ==
  << VDDD_HVpix_cnt("hpix_cnt", 7), VDDD_HVpix_cnt("vpix_cnt", 9), VDDD_AspRatio,
     BitF8Val("scan_dir", 12, 0, 2), BitF8Val("pix0_pos", 12, 2, 2),
     BitF8Val("rotation", 12, 4, 2), BitF8Val("orientation", 12, 6, 2),
     Upto(ByteVal("subpixlc", 4), 12),
     VDDD_HVpx_pitch("hpix_pitch", 14), VDDD_HVpx_pitch("vpix_pitch", 15),
     Reserved(BitF8Val("resvd02", 16, 0, 3), 7) >>
  \o Switches(16, 3, <<"deinterlacing", "ovrdrive", "d_drive">>)
  \o << Upto(BitF8Val("dither", 16, 6, 2), 7), BitF8Val("frm_delta", 19, 0, 6),
        BitF8Val("conv_mode", 19, 6, 2), ByteVal("frm_rate", 19),
        BitF8Val("cbd_dev", 21, 0, 4), BitF8Val("cbd_iface", 21, 4, 4),
        BitF8Val("resp_time", 30, 0, 7), BitVal("resp_type", 30, 7),
        BitF8Val("V_overscan", 31, 0, 4), BitF8Val("H_overscan", 31, 4, 4) >>
vddd_cxy ==
  << Upto(BitF8Val("n_colors", 23, 0, 2), 15), Upto(BitF8Val("resvd32", 23, 2, 2), 15) >>
  \o [i \in 1..6 |-> Moved(<< CHredX, CHredY, CHgrnX, CHgrnY, CHbluX, CHbluY >>[i], 22)]
CEA_VDDD(b) ==
  LET subs == << <<"IFP", vddd_iface>>, <<"CPT", vddd_cprot>>, <<"DSP", vddd_disp>>,
                 <<"AUD", vddd_audio>>, <<"CXY", vddd_cxy>> >>
  IN  IF blk_len(b) = 31
        THEN [opens |-> TRUE,
              parts |-> << Part("VDDD", 0, 2, CEA_BlkHdr(2)) >>
                        \o [i \in 1..5 |-> Part(subs[i][1], 0, 32, subs[i][2])]]
        \* A block of any other length: its last byte is in no part.
        ELSE [opens |-> FALSE,
              parts |-> << Part("VDDD", 0, 2, CEA_BlkHdr(2)) >> \o UnknownPart(2, blk_len(b) - 2)]
-----------------------------------------------------------------------------
(* Blocks of one kind of sub-group.                                        *)
HDRD_mtd(b, at, left) ==
  LET m     == b[at]
      type  == Byte(b, at + 1) + 256 * Byte(b, at + 2)
      wrong == m < 2 \/ (IF type = 3 THEN m # 2 ELSE m < 4)
      n     == Min({29, left, Max({m, 2}) + 1})
      head  == << INIT(Reserved(ByteVal("mtd_len", 0), 29)), INIT(RD(Word16("mtd_type", 1))) >>
      rest  == CASE n <= 3 -> << >>
                 [] n > 3 /\ type # 3 ->
                      << RD(BitF8Val("mtd_ver", 3, 0, 4)), RD(BitF8Val("rsvd", 3, 4, 4)) >>
                      \o insert_unk_byte(4, n - 4)
                 [] OTHER -> insert_unk_byte(3, n - 3)
  IN  SubGroup(IF wrong \/ (n > 3 /\ type = 3) THEN "message" ELSE "ok", "MTD", n, head \o rest)
CEA_HDRD(b) ==
  base_DBC_Init_RootGrp(b, Root("HDRD", 5, 31, 2, << >>, 0, UntilEnd("MTD", 3)),
                        LAMBDA kind, at, left : HDRD_mtd(b, at, left))

CEA_VFPD(b) ==
  base_DBC_Init_RootGrp(b, Root("VFPD", 2, 31, 2, << >>, 0, UntilEnd("SVR", 1)),
                        LAMBDA kind, at, left : SubGroup("ok", "SVR", 1, << ByteVal("SVR", 0) >>))
CEA_Y42V(b) ==
  base_DBC_Init_RootGrp(b, Root("Y42V", 2, 31, 2, << >>, 0, UntilEnd("SVD", 1)),
                        LAMBDA kind, at, left : SubGroup("ok", "SVD", 1, SVD_fields))

(* Timings by code: one byte or two for each, by a bit of the header.      *)
T8VTB_hdr ==
  << BitF8Val("blk_rev", 2, 0, 3), INIT(BitVal("TCS", 2, 3)), BitVal("F34", 2, 4),
     BitVal("T8Y420", 2, 5), BitF8Val("code_type", 2, 6, 2) >>
CEA_T8VTB(b) ==
  LET two == (Byte(b, 2) \div 8) % 2 = 1
  IN  base_DBC_Init_RootGrp(b,
        Root("T8VTB", 2, 31, 2, T8VTB_hdr, 1, UntilEnd("VTC", IF two THEN 2 ELSE 1)),
        LAMBDA kind, at, left :
          IF two THEN SubGroup("ok", "DMT2", 2, dmt_std2_fields)
          ELSE SubGroup("ok", "DMT1", 1, << Among(ByteVal("DMT_1", 0), {1, 88}) >>))

(* Timings by formula: six bytes or seven for each.                        *)
T10VTB_hdr ==
  << BitF8Val("blk_rev", 2, 0, 3), BitVal("F33", 2, 3), INIT(BitF8Val("T10_M", 2, 4, 3)),
     BitVal("F37", 2, 7) >>
T10_vtd(seven) ==
  << BitF8Val("T_formula", 0, 0, 3), BitVal("F43", 0, 3), BitVal("VR_HB", 0, 4),
     VS(BitF8Val("3D_support", 0, 5, 2)), BitVal("Y420", 0, 7), Word16("HApix", 1),
     Word16("VAlin", 3) >>
  \o IF seven THEN << BitF16Val("Vref", 5, 0, 10), BitF8Val("res6", 6, 2, 6) >>
     ELSE << ByteVal("Vref", 5) >>
CEA_T10VTB(b) ==
  LET seven == (Byte(b, 2) \div 16) % 8 # 0
      size  == IF seven THEN 7 ELSE 6
  IN  base_DBC_Init_RootGrp(b,
        Root("T10VTB", 2, 31, 2, T10VTB_hdr, 1, UntilEnd("VTD", size)),
        LAMBDA kind, at, left : SubGroup("ok", "VTD", size, T10_vtd(seven)))
-----------------------------------------------------------------------------
(* Speakers.                                                               *)
HADB_ahf ==
  << BitF8Val("max_strm_cnt", 2, 0, 2), BitVal("srt_mix", 2, 2),
     Upto(BitF8Val("res3_37", 2, 3, 5), 3), INIT(Upto(BitF8Val("num_a3dsc", 3, 0, 3), 3)),
     Upto(BitF8Val("res4_37", 3, 3, 5), 3) >>
sab3d == << Upto(BitF8Val("ACAT", 3, 4, 4), 3) >> \o SAB_SPM_fields(0)
         \o << Upto(BitF8Val("res3_04", 3, 0, 4), 3) >>
CEA_HADB(b) ==
  base_DBC_Init_RootGrp(b,
    Root("HADB", 3, 31, 2, HADB_ahf, 2,
         [i \in 1..(Byte(b, 3) % 8) |-> <<"SAD", 3>>] \o << <<"SAB3D", 4>> >>),
    LAMBDA kind, at, left :
      IF kind = "SAD" THEN SAD(b, at) ELSE SubGroup("ok", "SAB3D", 4, sab3d))

RMCD_hdr == << Upto(BitF8Val("spk_cnt", 2, 0, 5), 7) >> \o Switches(2, 5, <<"SLD", "Speaker", "Display">>)
CEA_RMCD(b) ==
  base_DBC_Init_RootGrp(b,
    Root("RMCD", 11, 11, 2, RMCD_hdr, 1,
         << <<"SPM", 3>>, <<"SPKD", 3>>, <<"DSPC", 3>> >>),
    LAMBDA kind, at, left :
      SubGroup("ok", kind, 3,
        CASE kind = "SPM" -> SAB_SPM_fields(0)
          [] kind = "SPKD" -> << ByteVal("Xmax", 0), ByteVal("Ymax", 1), ByteVal("Zmax", 2) >>
          [] kind = "DSPC" -> << NormV("DisplayX", 0), NormV("DisplayY", 1), NormV("DisplayZ", 2) >>))

(* A speaker with a place of its own takes five bytes, any other two.      *)
spkld_fields ==
  << BitF8Val("Channel", 0, 0, 5), BitVal("Active", 0, 5), INIT(BitVal("COORD", 0, 6)),
     BitVal("resvd7", 0, 7), Among(Upto(BitF8Val("Speaker_ID", 1, 0, 5), 27), {0, 27}),
     Upto(BitF8Val("resvd57", 1, 5, 3), 3), NormV("CoordX", 2), NormV("CoordY", 3),
     NormV("CoordZ", 4) >>
SPKLD(b, at, left) ==
  LET coord == (b[at] \div 64) % 2 = 1
      head  == SubSeq(spkld_fields, 1, 6)
  IN  CASE ~coord   -> SubGroup("ok", "SPKLD", 2, head)
        [] coord /\ left >= 5 -> SubGroup("ok", "SPKLD", 5, spkld_fields)
        [] OTHER -> SubGroup("message", "SPKLD", left, head \o insert_unk_byte(2, left - 2))
CEA_SLDB(b) ==
  base_DBC_Init_RootGrp(b, Root("SLDB", 3, 31, 2, << >>, 0, UntilEnd("SPKLD", 2)),
                        LAMBDA kind, at, left : SPKLD(b, at, left))
-----------------------------------------------------------------------------
(* Short frames: a header, then descriptors that each say their length.    *)
IFD_len == INIT(BitF8Val("Blk length", 0, 5, 3))
IFD_code == INIT(BitF8Val("IFT Code", 0, 0, 5))
IFDB_sub(b, kind, at, left) ==
  LET len == b[at] \div 32
      sub == CASE kind = "IFPD" ->
                    SubGroup("ok", "IFPD", 2 + len,
                      << RD(BitF8Val("resvd04", 0, 0, 5)), IFD_len, ByteVal("n_VSIFs", 1) >>
                      \o insert_unk_byte(2, len))
               [] b[at] % 32 = 1 ->
                    SubGroup("ok", "VSIFD", 4 + len,
                      << IFD_code, IFD_len, RD(ByteStr("IEEE-OUI", 1, 3)) >>
                      \o insert_unk_byte(4, len))
               [] b[at] % 32 = 0 -> SubGroup("fault", "SIFD", 1, << >>)
               [] OTHER ->
                    SubGroup("ok", "SIFD", 1 + len,
                      << IFD_code, IFD_len >> \o insert_unk_byte(1, len))
  IN  IF sub.size > left THEN [sub EXCEPT !.init = "fault"] ELSE sub
CEA_IFDB(b) ==
  base_DBC_Init_RootGrp(b,
    Root("IFDB", 3, 31, 2, << >>, 0, << <<"IFPD", 2>> >> \o UntilEnd("IFD", 1)),
    LAMBDA kind, at, left : IFDB_sub(b, kind, at, left))
-----------------------------------------------------------------------------
(* ParseDBC_TAG: which block the bytes are; a type that is not known makes *)
(* a group of bytes and is a fault of the file.                            *)
UnknownBlocks == {"UNK-ET", "UNK-TC"}
FlatBlock(x) ==
  CASE x = 0 -> CEA_VCDB [] x = 1 -> CEA_VSVD [] x = 5 -> CEA_CLDB [] x = 6 -> CEA_HDRS
    [] x = 17 -> CEA_VSAD [] x = 34 -> CEA_T7VTB [] x = 120 -> CEA_HFEEODB
    [] x = 121 -> CEA_HFSCDB [] OTHER -> CEA_UnkET
ParseDBC_ExTag(b) ==
  LET x == Byte(b, 1)
  IN  CASE x = 2 -> CEA_VDDD(b) [] x = 7 -> CEA_HDRD(b) [] x = 13 -> CEA_VFPD(b)
        [] x = 14 -> CEA_Y42V(b) [] x = 15 -> y42c(b) [] x = 18 -> CEA_HADB(b)
        [] x = 19 -> CEA_RMCD(b) [] x = 20 -> CEA_SLDB(b) [] x = 32 -> CEA_IFDB(b)
        [] x = 35 -> CEA_T8VTB(b) [] x = 42 -> CEA_T10VTB(b)
        [] OTHER -> base_DBC_Init_FlatGrp(b, FlatBlock(x))
ParseDBC_TAG(b) ==
  LET tag == b[0] \div 32
  IN  CASE tag = 1 -> adb(b) [] tag = 2 -> vdb(b) [] tag = 3 -> vsd(b) [] tag = 4 -> sab(b)
        [] tag = 5 -> vdtc(b) [] tag = 7 -> ParseDBC_ExTag(b)
        [] OTHER -> unktc(b)
=============================================================================
