----------------------------- MODULE CtaGroups -----------------------------
(***************************************************************************)
(* The data blocks of a CTA-861 extension (src/core/CEA.cpp): how a block  *)
(* is divided into sub-groups and fields by the descriptor of its type,    *)
(* and the blocks with a tag code of their own.                            *)
(*                                                                         *)
(* A block is laid out from its bytes `b'; its first byte says how many    *)
(* follow.  A layout is [opens, parts]: whether a file with the block can  *)
(* be opened, and the parts the block has once it is edited, which are the *)
(* same when it opens.                                                     *)
(***************************************************************************)
EXTENDS Fields

blk_len(b) == b[0] % 32

\* The part of a group that does not fill its descriptor.
UnknownPart(at, n) ==
  IF n > 0 THEN << Part("UNK-DAT", at, n, insert_unk_byte(0, n)) >> ELSE << >>

CEA_DBC_Len == FR(RD(BitF8Val("Blk length", 0, 0, 5)))
CEA_DBC_Tag == FR(RD(Among(BitF8Val("Tag Code", 0, 5, 3), {1, 2, 3, 4, 5, 7})))
CEA_DBC_ExTag == FR(RD(Among(ByteVal("Ext Tag Code", 1), {0, 7, 13, 34, 120})))
CEA_BlkHdr(hdr) == SubSeq(<< CEA_DBC_Len, CEA_DBC_Tag, CEA_DBC_ExTag >>, 1, hdr + 1)
-----------------------------------------------------------------------------
(* Blocks without sub-groups: the fields of one part, in groups of fields. *)

FieldGroup(fields, size, flags) == [fields |-> fields, size |-> size, flags |-> flags]
Fixed(fields, size) == FieldGroup(fields, size, {})
Flexible(fields, size) == FieldGroup(fields, size, {"LAYOUT"})
Flat(class, min, max, hdr, flags, groups) ==
  [class |-> class, min |-> min, max |-> max, hdr |-> hdr, flags |-> flags, groups |-> groups]

\* A part being made: how far it goes, the bytes left, and its fields.
Added(s, fields, size) ==
  [s EXCEPT !.at = @ + size, !.left = @ - size, !.fields = @ \o fields]

(* base_DBC_Init_GrpFields: the fields that fit, each by its own size; too  *)
(* few of them are a fault unless the group is of flexible length.         *)
Take(s, f) ==
  IF s.stop \/ s.left < Len(f.where) THEN [s EXCEPT !.stop = TRUE]
  ELSE Added(s, << f >>, Len(f.where))
SizeChecked(s, ok) == [s EXCEPT !.ok = ok, !.stop = ~ok]
Taken(from, s, g) == SizeChecked(s, s.at = from + g.size \/ "LEN" \in g.flags)
GrpFields(s, g) == Taken(s.at, FoldLeft(Take, s, g.fields), g)

\* A group of fields as a whole, if there are bytes for it.
GrpWhole(s, g, flexible) ==
  IF s.left >= g.size THEN Added(s, g.fields, g.size)
  ELSE [s EXCEPT !.stop = TRUE, !.ok = @ /\ flexible]

FlatLayout(dsc, len, end) ==
  [opens |-> len \in dsc.min..dsc.max /\ end.ok,
   parts |-> << Part(dsc.class, 0, len + 1,
                     end.fields \o insert_unk_byte(end.at, end.left)) >>]
base_DBC_Init_FlatGrp(b, dsc) ==
  LET size  == blk_len(b) + 1
      Next(s, g) == CASE s.stop               -> s
                      [] "LAYOUT" \in g.flags -> GrpFields(s, g)
                      [] OTHER                -> GrpWhole(s, g, "LAYOUT" \in dsc.flags)
  IN  FlatLayout(dsc, blk_len(b),
        FoldLeft(Next,
                 [at |-> dsc.hdr, left |-> size - (IF size >= dsc.hdr THEN dsc.hdr ELSE 1),
                  fields |-> CEA_BlkHdr(dsc.hdr), ok |-> TRUE, stop |-> FALSE],
                 dsc.groups))
-----------------------------------------------------------------------------
(* Blocks with sub-groups.                                                 *)

\* A sub-group made from its bytes; "message" is a fault that is only told,
\* "fault" one that leaves its bytes to an unknown part.
SubGroup(init, class, size, fields) ==
  [init |-> init, class |-> class, size |-> size, fields |-> fields]
\* `ahf' fields after the header, in `ahf_sz' bytes; the kinds of sub-group
\* that follow, the least bytes of each, in the order they are tried.
Root(class, min, max, hdr, ahf, ahf_sz, kinds) ==
  [class |-> class, min |-> min, max |-> max, hdr |-> hdr, ahf |-> ahf,
   ahf_sz |-> ahf_sz, kinds |-> kinds]
UntilEnd(kind, least) == [i \in 1..31 |-> <<kind, least>>]

RootLayout(dsc, len, head, end) ==
  [opens |-> len \in dsc.min..dsc.max /\ end.ok,
   parts |-> << Part(dsc.class, 0, head,
                     CEA_BlkHdr(dsc.hdr) \o IF head = dsc.hdr THEN << >> ELSE dsc.ahf) >>
               \o end.subs \o UnknownPart(end.at, end.left)]
Appended(s, sub) ==
  IF sub.init = "fault" THEN [s EXCEPT !.stop = TRUE, !.ok = FALSE]
  ELSE [s EXCEPT !.at = @ + sub.size, !.left = @ - sub.size,
                 !.subs = Append(@, Part(sub.class, s.at, sub.size, sub.fields)),
                 !.ok = sub.init = "ok"]
Tried(s, least, sub) ==
  CASE s.stop         -> s
    [] s.left < least -> [s EXCEPT !.stop = TRUE, !.ok = @ /\ s.left = 0]
    [] OTHER          -> Appended(s, sub)
base_DBC_Init_RootGrp(b, dsc, Init(_, _, _)) ==
  LET size  == blk_len(b) + 1
      data  == size - (IF size >= dsc.hdr THEN dsc.hdr ELSE 1)
      \* No room for the additional fields: they are left out.
      short == data < dsc.ahf_sz
      head  == dsc.hdr + IF short THEN 0 ELSE dsc.ahf_sz
      Next(s, kind) == Tried(s, kind[2], Init(kind[1], s.at, s.left))
  IN  RootLayout(dsc, blk_len(b), head,
        FoldLeft(Next, [at |-> head, left |-> data + dsc.hdr - head, subs |-> << >>,
                        ok |-> TRUE, stop |-> short],
                 dsc.kinds))
-----------------------------------------------------------------------------
(* Audio: descriptors of three bytes, laid out by format and extension.    *)
SAD_AFC == FR(Among(BitF8Val("AFC", 0, 3, 4), {1, 2, 9, 14, 15}))
SAD_ACE_TC == FR(Among([Upto(BitF8Val("ACE_TC", 2, 3, 5), 13) EXCEPT !.lo = 1], {4, 8, 11, 12, 13}))
byte0(name) == << Upto(BitF8Val(name, 0, 0, 3), 8), SAD_AFC, RD(BitVal("rsvd0_7", 0, 7)) >>
SAD_LPCM_MC ==
  Field("num_chn", "plain", << <<0, 0, 3>>, <<0, 7, 1>>, <<1, 7, 1>> >>, 0, 32)
byte0_afc15_ace13 == << SAD_LPCM_MC, SAD_AFC >>

rates == Switches(1, 0, <<"sf_32kHz", "sf_44.1kHz", "sf_48kHz", "sf_88.2kHz", "sf_96kHz",
                          "sf_176.4kHz", "sf_192kHz">>)
byte1_afc1_14_ace11 == rates \o << RD(BitVal("rsvd1_7", 1, 7)) >>
byte1_afc15_ace456810 == SubSeq(rates, 1, 5) \o << RD(Upto(BitF8Val("rsvd1_57", 1, 5, 3), 1)) >>
byte1_afc15_ace12_fsmp ==
  [i \in 1..8 |-> IF i \in {1, 4, 6} THEN RD(BitVal("rsvd1", 1, i - 1))
                  ELSE byte1_afc1_14_ace11[i]]
byte1_afc15_ace13 == rates \o << RD(BitVal("MC4", 1, 7)) >>

byte2_afc1 == Switches(2, 0, <<"sample16b", "sample20b", "sample24b">>)
                \o << RD(Upto(BitF8Val("rsvd2_37", 2, 3, 5), 0)) >>
SAD_BitRate == Times(ByteVal("Max bitrate", 2), 8)
byte2_afc9_13 == << ByteVal("byte2", 2) >>
byte2_afc14 == << RD(Upto(BitF8Val("profile", 2, 0, 3), 0)), RD(Upto(BitF8Val("rsvd2_37", 2, 3, 5), 0)) >>
byte2_afc15_ace456 ==
  << RD(BitVal("SysH_22_2", 2, 0)), BitVal("960_TL", 2, 1), BitVal("1024_TL", 2, 2), SAD_ACE_TC >>
byte2_afc15_ace8_10 == Switches(2, 0, <<"MPS_L", "960_TL", "1024_TL">>) \o << SAD_ACE_TC >>
byte2_afc15_ace11 == Switches(2, 0, <<"LCP", "BP">>) \o << RD(BitVal("rsvd2_2", 2, 2)), SAD_ACE_TC >>
byte2_afc15_ace12 == << Upto(BitF8Val("AFC_dep_val", 2, 0, 3), 0), SAD_ACE_TC >>
byte2_afc15_ace13 == Switches(2, 0, <<"s16bit", "s20bit", "s24bit">>) \o << SAD_ACE_TC >>

AsFormat == {4, 5, 6, 8, 10}
KnownACE == AsFormat \cup {11, 12, 13}
\* No fields are generated for a format that is not known.
Known(AFC, ACE) == AFC \in 1..14 \/ (AFC = 15 /\ ACE \in KnownACE)
data_byte0(AFC, ACE) ==
  IF AFC < 15 \/ ACE \in AsFormat THEN byte0("num_chn")
  ELSE CASE ACE = 11 -> byte0("MPEGH_3DA") [] ACE = 12 -> byte0("rsvd0_02")
         [] ACE = 13 -> byte0_afc15_ace13
data_byte1(AFC, ACE) ==
  IF AFC < 15 \/ ACE = 11 THEN byte1_afc1_14_ace11
  ELSE CASE ACE \in AsFormat -> byte1_afc15_ace456810 [] ACE = 12 -> byte1_afc15_ace12_fsmp
         [] ACE = 13 -> byte1_afc15_ace13
data_byte2(AFC, ACE) ==
  CASE AFC = 1 -> byte2_afc1 [] AFC \in 2..8 -> << SAD_BitRate >>
    [] AFC \in 9..13 -> byte2_afc9_13 [] AFC = 14 -> byte2_afc14
    [] OTHER -> CASE ACE \in 4..6 -> byte2_afc15_ace456 [] ACE \in {8, 10} -> byte2_afc15_ace8_10
                  [] ACE = 11 -> byte2_afc15_ace11 [] ACE = 12 -> byte2_afc15_ace12
                  [] ACE = 13 -> byte2_afc15_ace13
\* The extension's code is shown right after the format.
gen_data_layout(AFC, ACE) ==
  LET all == data_byte0(AFC, ACE) \o data_byte1(AFC, ACE) \o data_byte2(AFC, ACE)
  IN  IF AFC = 15 THEN InsertAt(Front(all), 3, SAD_ACE_TC) ELSE all

SAD(b, at) ==
  LET AFC == (Byte(b, at) \div 8) % 16
      ACE == Byte(b, at + 2) \div 8
  IN  IF Known(AFC, ACE) THEN SubGroup("ok", "SAD", 3, gen_data_layout(AFC, ACE))
      ELSE SubGroup("fault", "SAD", 3, << >>)

adb(b) ==
  base_DBC_Init_RootGrp(b, Root("ADB", 3, 31, 1, << >>, 0, UntilEnd("SAD", 3)),
                        LAMBDA kind, at, left : SAD(b, at))
-----------------------------------------------------------------------------
(* Video: descriptors of one byte, a code and for some a native bit.       *)
SVD_fields ==
  << FR(Among(Field("VIC", "vic", << <<0, 0, 8>> >>, 0, 255), {1, 64, 65, 127, 193, 219})),
     FR(Field("Native", "native", << <<0, 0, 8>> >>, 0, 1)) >>
vdb(b) ==
  base_DBC_Init_RootGrp(b, Root("VDB", 1, 31, 1, << >>, 0, UntilEnd("SVD", 1)),
                        LAMBDA kind, at, left : SubGroup("ok", "SVD", 1, SVD_fields))
-----------------------------------------------------------------------------
(* Vendors: the identifier chooses between the layouts.                    *)
IEEE_OUI == FR(RD(ByteStr("IEEE-OUI", 1, 3)))
Latency(name, byte) == FR(Field(name, "latency", << <<byte, 0, 8>> >>, 0, 500))
VSD_MaxTMDS(byte, hi) == Upto(Times(ByteVal("Max_TMDS", byte), 5), hi)
Vendor(groups) ==
  Flat("VSD", 3, 31, 1, {"LAYOUT"}, << Flexible(<< IEEE_OUI >>, 3) >> \o groups)

VSD_grp ==
  Flat("VSD", 3, 31, 1, {"LAYOUT"},
    << Flexible(<< IEEE_OUI, RD(Word16("src phy", 4)) >>, 5),
       Fixed(Switches(6, 0, <<"DVI_dual", "reserved1", "reserved2", "DC_Y444", "DC_30bit",
                              "DC_36bit", "DC_48bit", "Supports_AI">>), 1),
       Fixed(<< VSD_MaxTMDS(7, 255) >>, 1),
       Fixed(<< Upto(BitF8Val("reserved", 8, 0, 6), 0), BitVal("i_latency", 8, 6),
                BitVal("latency_f", 8, 7) >>, 1),
       FieldGroup([i \in 1..4 |-> Latency(<<"Video Latency", "Audio Latency", "Video iLatency",
                                            "Audio iLatency">>[i], 8 + i)],
                  4, {"LAYOUT", "LEN"}) >>)

HF_VRRmax == Field("VRRmax", "plain", << <<10, 0, 8>>, <<9, 6, 2>> >>, 0, 1023)
HF_frl_fld == Switches(7, 0, <<"DC_30bit_420", "DC_36bit_420", "DC_48bit_420", "UHD_VIC">>)
                \o << BitF8Val("Max_FRL_Rate", 7, 4, 4) >>
HF_groups ==
  << Fixed(<< ByteVal("Version", 4) >>, 1), Fixed(<< VSD_MaxTMDS(5, 1275) >>, 1),
     Fixed(Switches(6, 0, <<"3D_OSD_Disparity", "3D_Dual_View", "3D_Independent_View",
                            "LTE_340Mcsc_Scramble", "CCBPCI", "Cable_Status", "RR_Capable",
                            "SCDC_Present">>), 1),
     Fixed(HF_frl_fld, 1),
     Fixed(Switches(8, 0, <<"FAPA_start_location", "ALLM", "FVA", "CNMVRR", "CinemaVRR",
                            "M_delta", "QMS", "FAPA_End_Extended">>), 1),
     Fixed(<< BitF8Val("VRRmin", 9, 0, 6), HF_VRRmax >>, 2),
     Fixed(Switches(11, 0, <<"DSC_10bpc", "DSC_12bpc", "DSC_16bpc", "DSC_All_bpp",
                             "QMS_TFRmin", "QMS_TFRmax", "DSC_Native_420", "DSC_1p2">>), 1),
     Fixed(<< BitF8Val("DSC_MaxSlices", 12, 0, 4), BitF8Val("DSC_Max_FRL_Rate", 12, 4, 4) >>, 1),
     Fixed(<< BitF8Val("DSC_TotalChunkKBytes", 13, 0, 6), RD(BitF8Val("reserved", 13, 6, 2)) >>, 1) >>
HF_VSD_grp == Vendor(HF_groups)

DisplayID_MaxRefresh(byte) ==
  Field("Max_Refresh", "plain", << <<byte, 0, 8>>, <<byte + 1, 0, 2>> >>, 0, 1023)
\* A luminance stands for its code: the text is that of the nearest one.
Luminance(name, byte) == ByteVal(name, byte)
AMD_groups(max) ==
  << Fixed(<< FR(ByteVal("Version", 4)), ByteVal("Feature_Caps", 5), ByteVal("Min_Refresh", 6) >>, 3),
     Fixed(<< ByteVal(max, 7) >>, 1), Fixed(<< ByteVal("Flags_1x", 8) >>, 1),
     Fixed(<< ByteVal("Flags_2x", 9), FR(Luminance("Max_Luminance", 10)),
              Luminance("Min_Luminance", 11), FR(Luminance("Max_Luminance_2", 12)),
              Luminance("Min_Luminance_2", 13) >>, 5) >>
AMD_VSD_grp == Vendor(AMD_groups("Max_Refresh"))
AMD3_VSD_grp ==
  Vendor(AMD_groups("Max_Refresh_8bit") \o << Fixed(<< DisplayID_MaxRefresh(14) >>, 2) >>)

vsd(b) ==
  LET oui == IF blk_len(b) >= 3 THEN <<b[3], b[2], b[1]>> ELSE << >>
  IN  base_DBC_Init_FlatGrp(b,
        CASE oui = <<196, 93, 216>> -> HF_VSD_grp
          [] oui = <<0, 0, 26>> -> IF blk_len(b) >= 4 /\ b[4] >= 3 THEN AMD3_VSD_grp ELSE AMD_VSD_grp
          [] oui \in {<<0, 12, 3>>, << >>} -> VSD_grp
          [] OTHER -> Vendor(<< >>))
-----------------------------------------------------------------------------
(* Speakers, transfer characteristic, unknown codes.                       *)
SAB_SPM_fields(at) ==
  Switches(at, 0, <<"FL_FR", "LFE1", "FC", "BL_BR", "BC", "FLC_FRC", "rsvd0_6", "FLW_FRW">>)
  \o Switches(at + 1, 0, <<"TpFL_TpFR", "TpC", "TpFC", "LS_RS", "LFE2", "TpBC", "SiL_SiR",
                           "TpSiL_TpSiR">>)
  \o Switches(at + 2, 0, <<"TpBL_TpBR", "BtFC", "BtFL_BtFR", "rsvd2_3">>)
  \o [i \in 1..4 |-> RD(BitVal("rsvd2", at + 2, 3 + i))]
sab(b) == base_DBC_Init_FlatGrp(b, Flat("SAB", 3, 3, 1, {}, << Fixed(SAB_SPM_fields(1), 3) >>))
vdtc(b) ==
  base_DBC_Init_FlatGrp(b, Flat("VDTC", 1, 1, 1, {}, << Fixed(<< Gamma8("gamma", 1) >>, 1) >>))
unktc(b) == base_DBC_Init_FlatGrp(b, Flat("UNK-TC", 0, 31, 1, {}, << >>))

\* The header of the extension, and the byte after the last of its blocks.
cea_hdr(b) ==
  << Part("CHD", 0, 4,
       << RD(ByteVal("Extension tag", 0)), RD(ByteVal("Revision", 1)), RD(ByteVal("DTD offset", 2)),
          RD(BitF8Val("num_dtd", 3, 0, 4)) >>
       \o Switches(3, 4, <<"YCbCr 4:2:2", "YCbCr 4:4:4", "Basic Audio", "Underscan">>)
       \o << RD(ByteVal("checksum", 4)) >>) >>
=============================================================================
