----------------------------- MODULE BaseGroups -----------------------------
(***************************************************************************)
(* The groups of the base block: the fixed ones of src/core/EDID_base.cpp  *)
(* and the four descriptors of src/core/EDID_dsc.cpp.  Each operator gives *)
(* the parts of a group, with their fields, for the bytes `b' it was made  *)
(* from; bytes are counted from the start of the group.                    *)
(***************************************************************************)
EXTENDS Fields

-----------------------------------------------------------------------------
(* Vendor and product, 20 bytes and the two last of the block.             *)
MfcId == RD(Field("mfc_id", "letters", << <<9, 0, 8>>, <<8, 0, 8>> >>, 0, 32767))
ProdSN == RD(ByteStr("serial", 12, 4))
ProdWk == RD(Field("prod_week", "week", << <<16, 0, 8>> >>, 0, 255))
ProdYr == RD(Plus(ByteVal("prod_year", 17), 1990))

edibase_fields ==
  << RD(ByteStr("header", 0, 8)), MfcId, RD(Word16("prod_id", 10)), ProdSN, ProdWk, ProdYr,
     RD([Upto(ByteVal("edid_ver", 18), 1) EXCEPT !.lo = 1]),
     RD(Upto(ByteVal("edid_rev", 19), 4)), RD(Upto(ByteVal("num_extblk", 20), 3)),
     RD(ByteVal("checksum", 21)) >>
edibase(b) == << Part("BED", 0, 22, edibase_fields) >>

(* Video input: the first bit says which of two sets of fields there is.   *)
\* Mutant: the field does not lay its group out again.
InputTypeLoose == VS(BitVal("Input Type", 0, 7))
InputType == FR(VS(BitVal("Input Type", 0, 7)))
in_analog ==
  << InputType, FR(BitVal("vsync", 0, 0)) >>
    \o Switches(0, 1, <<"sync_green", "comp_sync", "sep_sync", "blank_black">>)
    \o << BitF8Val("sync_wh_lvl", 0, 5, 2) >>
in_digital ==
  << InputType, BitVal("VESA compat", 0, 0), Among(BitF8Val("IF Type", 0, 0, 4), {0, 5}),
     Among(BitF8Val("Color Depth", 0, 4, 3), {0, 6}) >>
vindsc(b) == << Part("VID", 0, 1, IF b[0] >= 128 THEN in_digital ELSE in_analog) >>

bddcs(b) ==
  << Part("BDD", 0, 3, << ByteVal("max_hsize", 0), ByteVal("max_vsize", 1), Gamma8("gamma", 2) >>) >>

SPF_vsig == VS(BitF8Val("vsig_format", 0, 3, 2))
spft(b) ==
  << Part("SPF", 0, 1,
       Switches(0, 0, <<"gtf_cfreq", "dtd0_native", "std_srbg">>) \o << SPF_vsig >>
         \o Switches(0, 5, <<"dpms_off", "dpms_susp", "dpms_stby">>)) >>

(* Chromaticity: ten bits, the low two packed with three others.           *)
Chroma(name, high, low, bit) ==
  Field(name, "chroma", << <<low, bit, 2>>, <<high, 0, 8>> >>, 0, 999)
CHredX == Chroma("red_x", 2, 0, 6)
CHredY == Chroma("red_y", 3, 0, 4)
CHgrnX == Chroma("green_x", 4, 0, 2)
CHgrnY == Chroma("green_y", 5, 0, 0)
CHbluX == Chroma("blue_x", 6, 1, 6)
CHbluY == Chroma("blue_y", 7, 1, 4)
CHwhtX == Chroma("white_x", 8, 1, 2)
CHwhtY == Chroma("white_y", 9, 1, 0)
chromxy(b) ==
  << Part("CXY", 0, 10,
       << CHredX, CHredY, CHgrnX, CHgrnY, CHbluX, CHbluY, CHwhtX, CHwhtY >>) >>

resmap(b) ==
  << Part("ETM", 0, 3,
       Switches(0, 0, <<"800x600x60", "800x600x56", "640x480x75", "640x480x72",
                        "640x480x67", "640x480x60", "720x400x88", "720x400x70">>)
       \o Switches(1, 0, <<"1280x1024x75", "1024x768x75", "1024x768x72", "1024x768x60",
                           "1024x768x87i", "832x624x75", "800x600x75", "800x600x72">>)
       \o Switches(2, 0, <<"reserved0", "reserved1", "reserved2", "reserved3",
                           "reserved4", "reserved5", "reserved6", "1152x870x75">>)) >>

(* A standard timing, two bytes that are also one code of a list.          *)
STI_Xres == FR(Upto([Times(Plus(ByteVal("X-res", 0), 31), 8) EXCEPT !.lo = 256], 2288))
STI_Vref == FR(Plus(BitF8Val("V-freq", 1, 0, 6), 60))
dmt_std2_fields ==
  << STI_Xres, STI_Vref, FR(VS(BitF8Val("asp_ratio", 1, 6, 2))),
     FR(Among(Field("DMT_2", "plain", << <<1, 0, 8>>, <<0, 0, 8>> >>, 0, 65535),
              {257, 12608, 33216})) >>
dmt_std2(b) == << Part("DMT2", 0, 2, dmt_std2_fields) >>

(* A CVT code, three bytes that are also one code of a list.               *)
CVT3_Yres ==
  FR(Times(Plus(Field("Y-res", "plain", << <<0, 0, 8>>, <<1, 4, 4>> >>, 0, 4095), 1), 2))
dmt_cvt3_fields ==
  << CVT3_Yres, RD(BitF8Val("res0_01", 1, 0, 2)), FR(VS(BitF8Val("asp_ratio", 1, 2, 2))) >>
    \o Switches(2, 0, <<"vref_60_rb", "vref_85", "vref_75", "vref_60", "vref_50">>)
    \o << VS(BitF8Val("pref_vref", 2, 5, 2)), RD(BitVal("res2_7", 2, 7)),
          FR(Among(Field("CVT_3", "plain", << <<2, 0, 8>>, <<1, 0, 8>>, <<0, 0, 8>> >>,
                         0, 2 ^ 24 - 1), {8330273, 9377826})) >>
-----------------------------------------------------------------------------
(* Detailed timings.                                                       *)
Wide(name, low, high, bit, bits) ==
  Field(name, "plain", << <<low, 0, 8>>, <<high, bit, bits>> >>, 0, 2 ^ (8 + bits) - 1)
DTD_PixClk == FR(Word16("Pixel clock", 0))
DTD_HApix == Wide("H-Active pix", 2, 4, 4, 4)
DTD_HBpix == Wide("H-Blank pix", 3, 4, 0, 4)
DTD_VAlin == Wide("V-Active lines", 5, 7, 4, 4)
DTD_VBlin == Wide("V-Blank lines", 6, 7, 0, 4)
\* Mutant: the bits of the sync width.
DTD_HOsyncShifted == Wide("H-Sync offs", 8, 11, 4, 2)
DTD_HOsync == Wide("H-Sync offs", 8, 11, 6, 2)
DTD_HsyncW == Wide("H-Sync width", 9, 11, 4, 2)
\* Mutant: the bits of the sync width.
DTD_VOsyncShifted == Field("V-Sync offs", "plain", << <<10, 4, 4>>, <<11, 0, 2>> >>, 0, 63)
DTD_VOsync == Field("V-Sync offs", "plain", << <<10, 4, 4>>, <<11, 2, 2>> >>, 0, 63)
DTD_VsyncW == Field("V-Sync width", "plain", << <<10, 0, 4>>, <<11, 0, 2>> >>, 0, 63)
DTD_Hsize == Wide("H-Size", 12, 14, 4, 4)
DTD_Vsize == Wide("V-Size", 13, 14, 0, 4)
dtd_fields ==
  << DTD_PixClk, DTD_HApix, DTD_HBpix, DTD_VAlin, DTD_VBlin, DTD_HOsync, DTD_HsyncW,
     DTD_VOsync, DTD_VsyncW, DTD_Hsize, DTD_Vsize, ByteVal("H-Border pix", 15),
     ByteVal("V-Border lines", 16), BitF8Val("sync_type", 17, 3, 2) >>
    \o Switches(17, 1, <<"Hsync_type", "Vsync_type">>)
    \o << BitVal("il2w_stereo", 17, 0), BitF8Val("stereo_mode", 17, 5, 2),
          BitVal("interlace", 17, 7) >>
dtd(b) == << Part("DTD", 0, 18, dtd_fields) >>
-----------------------------------------------------------------------------
(* The other descriptors.                                                  *)
ALT_DType == RD(Among(ByteVal("dsc_type", 3), {16, 247, 255}))
AltDescHdr ==
  << RD(Word24("zero_hdr", 0)), ALT_DType, RD(Upto(ByteVal("rsvd4", 4), 0)) >>
dsc_ver_fld == RD(ByteVal("ver", 5))

(* Range limits.  The frequencies share flags in byte 4, the clock its low *)
(* bits with the extension; the extension's type says what follows it.     *)
MRL_Rate(name, conv, byte, shift) ==
  FR(Field(name, conv, << <<byte, 0, 8>>, <<4, shift, 2>> >>, 1, 510))
MRL_MaxPixClkField ==
  FR(Field("max_PixClk", "maxclock", << <<9, 0, 8>>, <<12, 2, 6>>, <<10, 0, 8>> >>, 40, 10200))
mrl_common ==
  << RD(Upto(ByteVal("rate_offsets", 4), 15)),
     MRL_Rate("min_Vfreq", "minfreq", 5, 0), MRL_Rate("max_Vfreq", "maxfreq", 6, 0),
     MRL_Rate("min_Hfreq", "minfreq", 7, 2), MRL_Rate("max_Hfreq", "maxfreq", 8, 2),
     MRL_MaxPixClkField, FR(Among(ByteVal("mrl_ext", 10), {0, 1, 2, 4})) >>
\* The handler takes the start of the descriptor for that of its extension.
MRL_02_GTFM == Word16("gtf_m", 3)
mrl_GTF ==
  << RD(Upto(ByteVal("resvd", 11), 0)), ByteVal("sfreq_sec", 12), ByteVal("gtf_c", 13),
     MRL_02_GTFM, ByteVal("gtf_k", 16), ByteVal("gtf_j", 17) >>
MRL_04_PixClkField ==
  FR(Field("maxPixClk_apb", "quarters", << <<12, 2, 6>>, <<9, 0, 8>> >>, 0, 63))
mrl_CVT ==
  << BitF8Val("CVT_majorV", 11, 4, 4), BitF8Val("CVT_minorV", 11, 0, 4), MRL_04_PixClkField,
     Upto(ByteVal("max_HApix", 13), 1023), RD(Upto(BitF8Val("rsvd14_02", 14, 0, 3), 3)) >>
    \o Switches(14, 3, <<"aspr_4_3", "aspr_16_9", "aspr_16_10", "aspr_5_4", "aspr_15_9">>)
    \o << RD(Upto(BitF8Val("rsvd15_02", 15, 0, 3), 3)) >>
    \o Switches(15, 3, <<"blank_std", "blank_rb">>)
    \o << BitF8Val("pref_ar", 15, 5, 3), RD(Upto(BitF8Val("rsvd16_03", 16, 0, 4), 3)) >>
    \o Switches(16, 4, <<"H_shrink", "H_stretch", "V_shrink", "V_stretch">>)
    \o << ByteVal("pref_vref", 17) >>
mrl(b) ==
  << Part("MRL", 0, 18, SubSeq(AltDescHdr, 1, 2) \o mrl_common \o
       CASE b[10] = 4 -> mrl_CVT [] b[10] = 2 -> mrl_GTF [] OTHER -> insert_unk_byte(11, 7)) >>

(* White points.  No number format: a point can be neither read nor typed. *)
WhitePoint(n, at) ==
  [i \in 1..3 |-> Field(<<"wp_idx", "wp_x", "wp_y">>[i] \o n, "none",
                        << <<at + <<0, 2, 3>>[i], 0, 8>> >>, 0, 255)]
    \o << Gamma8("wp_gamma" \o n, at + 4) >>
wpt(b) ==
  << Part("WPD", 0, 18, AltDescHdr \o WhitePoint("1", 5) \o WhitePoint("2", 10)
       \o << RD(Upto(Word24("pad", 15), 663584)) >>) >>

txtd(b) ==
  << Part("TXT", 0, 18, AltDescHdr \o
       << RD(FR(FldPadStr("text", 5, 13))), RD(FR(ByteStr("bytes", 5, 13))) >>) >>

Coefficient(name, byte) ==
  Field(name, "coef", << <<byte, 0, 8>>, <<byte + 1, 0, 8>> >>, -3276800, 3276700)
dcm(b) ==
  << Part("DCM", 0, 18, AltDescHdr \o << dsc_ver_fld >> \o
       [i \in 1..6 |-> Coefficient(<<"red_a3", "red_a2", "grn_a3", "grn_a2", "blu_a3",
                                     "blu_a2">>[i], 4 + 2 * i)]) >>

(* base_AltDesc_Init_RootGrp: as many sub-groups as there are, then the    *)
(* rest of the descriptor as bytes.                                        *)
base_AltDesc_Init_RootGrp(class, fields, at, sub, n, size, subfields) ==
  << Part(class, 0, at, fields) >>
    \o [i \in 1..n |-> Part(sub, at + size * (i - 1), size, subfields)]
    \o IF at + n * size = 18 THEN << >>
       ELSE << Part("PAD", at + n * size, 18 - at - n * size,
                    insert_unk_byte(0, 18 - at - n * size)) >>
ast(b) == base_AltDesc_Init_RootGrp("AST", AltDescHdr, 5, "DMT2", 6, 2, dmt_std2_fields)
ct3(b) ==
  base_AltDesc_Init_RootGrp("CT3", AltDescHdr \o << dsc_ver_fld >>, 6, "CVT3", 4, 3,
                            dmt_cvt3_fields)

(* Established timings: 44 switches, then six bytes whose place is added   *)
(* twice, once to the start of the data and once in the field.             *)
et3_gen_data_fields ==
  [i \in 1..44 |-> BitVal("mode", IF i > 40 THEN 11 ELSE 6 + (i - 1) \div 8,
                          IF i > 40 THEN i - 37 ELSE (i - 1) % 8)]
    \o << RD(BitF8Val("reserved", 11, 0, 4)) >>
    \o insert_unk_byte(12 + 12, 6)
et3(b) == << Part("ET3", 0, 18, AltDescHdr \o << dsc_ver_fld >> \o et3_gen_data_fields) >>

unk(b) == << Part("UNK", 0, 18, AltDescHdr \o insert_unk_byte(5, 13)) >>

(* ParseAltDtor: which descriptor the 18 bytes are.                        *)
ParseAltDtor(b) ==
  CASE b[0] + b[1] > 0 -> dtd(b)
    [] OTHER -> CASE b[3] = 247 -> et3(b)
                  [] b[3] = 248 -> ct3(b)
                  [] b[3] = 249 -> dcm(b)
                  [] b[3] = 250 -> ast(b)
                  [] b[3] = 251 -> wpt(b)
                  [] b[3] = 253 -> mrl(b)
                  [] b[3] \in {252, 254, 255} -> txtd(b)
                  [] OTHER -> unk(b)
=============================================================================
