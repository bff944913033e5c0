---------------------------- MODULE MCGroupFields ----------------------------
(* Groups for the runs of GroupFields: at each place, blocks of zeros, of   *)
(* ones and of mixed bits, and blocks with the codes that decide a layout.  *)
EXTENDS GroupFields

Bytes(s) == [i \in 0..(Len(s) - 1) |-> s[i + 1]]
Fill(k, i) == CASE k = 1 -> 0 [] k = 2 -> 255 [] k = 3 -> 90 [] k = 4 -> (37 * i + 11) % 256
Filled(n) == {[i \in 1..n |-> Fill(k, i)] : k \in 1..4}
At(p, seqs) == {[place |-> p, data |-> Bytes(s), edits |-> 1] : s \in seqs}
Twice(images) == {[i EXCEPT !.edits = 2] : i \in images}
Behind(head, seqs) == {head \o s : s \in seqs}
-----------------------------------------------------------------------------
Descriptor(type, seqs) == Behind(<<0, 0, 0, type, 0>>, seqs)
Ranges ==
  {<<flags, 50, 90, 30, 100, tens, ext, x, y, 10, 11, 12, 13, 14>> :
     flags \in {0, 10, 14, 15}, tens \in {1, 17}, ext \in {0, 1, 2, 4},
     x \in {0, 17}, y \in {8, 255}}
BaseImages ==
  At("base", Filled(22)) \cup At("input", Filled(1)) \cup At("display", Filled(3))
  \cup At("features", Filled(1)) \cup At("colors", Filled(10)) \cup At("modes", Filled(3))
  \cup At("timing", Filled(2) \cup {<<49, 89>>}) \cup At("descriptor",
       Filled(18)
       \cup {<<0, 0, 0, 253>> \o SubSeq(r, 1, 14) : r \in Ranges}
       \cup UNION {Descriptor(t, Filled(13)) : t \in {16, 247, 248, 249, 250, 251, 252}})
  \cup At("cta header", Filled(5))

Cta(tag, seqs) == {<<32 * tag + Len(s)>> \o s : s \in seqs}
Ext(x, seqs) == Cta(7, Behind(<<x>>, seqs))
Sad(afc, ace, n) == <<n + 8 * afc, 7, 8 * ace + 1>>
Sads == {Sad(afc, 0, 1) : afc \in {1, 2, 9, 14}} \cup {Sad(15, ace, 2) : ace \in {4, 8, 11, 12, 13}}
Vendors == {<<3, 12, 0>>, <<216, 93, 196>>, <<26, 0, 0>>, <<1, 2, 3>>}
Parsed(images) == {i \in images : BlockOpens(ParseDBC_TAG(i.data))}
CtaBlocks ==
  Cta(1, Sads \cup {s \o Sad(1, 4, 1) : s \in Sads}) \cup Cta(2, Filled(3) \cup {<<129, 64, 193>>, <<128, 1, 65>>})
  \cup Cta(3, {v \o f : v \in Vendors, f \in UNION {Filled(n) : n \in {0, 1, 5, 10, 13}}})
  \cup Cta(3, {<<26, 0, 0, 3>> \o f : f \in Filled(12)})
  \cup Cta(4, Filled(3)) \cup Cta(5, Filled(1))
  \cup UNION {Ext(x, Filled(n)) : x \in {0, 1, 2, 5, 6, 13, 14, 15, 17, 19, 34, 120, 121},
                                   n \in {1, 2, 4, 5, 10, 21, 30}}
  \cup Ext(7, {<<5, 1, 0, 1, 2, 3>>, <<2, 3, 0, 4, 2, 0, 1, 9>>})
  \cup Ext(18, {<<7, 0>> \o f : f \in Filled(4)} \cup {<<1, 1>> \o Sad(1, 0, 1) \o f : f \in Filled(4)})
  \cup Ext(20, {<<1, 2>>, <<65, 2, 128, 127, 3>>, <<33, 27, 65, 3, 0, 5, 255>>, <<255, 255, 1, 2, 3, 1, 2>>})
  \cup Ext(32, {<<0, 1, 2>>, <<32, 1, 9, 33, 1, 2, 3, 4>>, <<0, 0, 66, 7, 8, 4>>})
  \cup Ext(35, {<<0, 5, 6>>, <<9, 49, 89, 1, 2>>})
  \cup Ext(42, {<<0>> \o f : f \in Filled(12)} \cup {<<17>> \o f : f \in Filled(7)})
CtaImages == Parsed(At("cta block", CtaBlocks))

Did(tag, flags, seqs) == {<<tag, flags, Len(s)>> \o s : s \in seqs}
DisplayIDImages ==
  At("did header", Filled(7))
  \cup At("did1 block", Did(3, 0, Filled(20) \cup Filled(22)) \cup Did(7, 0, Filled(4)))
  \cup At("did2 block",
         Did(34, 0, Filled(21)) \cup Did(34, 34, Filled(22)) \cup Did(37, 0, Filled(9)) \cup Did(37, 1, Filled(9))
         \cup Did(43, 0, Filled(12)) \cup Did(43, 16, Filled(7))
         \cup Did(129, 0, {<<65, 1, 227, 5, 255, 0>>, <<99, 26, 0, 0>>, <<106, 26, 0, 0, 2, 1, 1, 1, 1, 1, 1>>}))
\* Groups whose layout is decided by an edit are edited twice.
Relaid ==
  At("input", {<<90>>, <<213>>}) \cup At("timing", {<<49, 89>>})
  \cup At("cta block",
         Cta(1, {Sad(1, 0, 1), Sad(15, 4, 2)}) \cup Cta(2, {<<129, 193>>})
         \cup Ext(20, {<<65, 2, 128, 127, 3>>}) \cup Ext(32, {<<32, 1, 9, 33, 1, 2, 3, 4>>})
         \cup Ext(35, {<<9, 49, 89>>}))
AllImages == BaseImages \cup CtaImages \cup DisplayIDImages \cup Twice(Relaid)

\* One image for each run that a property fails in.
GtfRange == At("descriptor", {<<0, 0, 0, 253, 0, 50, 90, 30, 100, 17, 2, 0, 8, 10, 11, 12, 13, 14>>})
ShortFrames == At("cta block", Ext(32, {<<32, 1, 9, 33, 1, 2, 3, 4>>}))
Timing7 == At("did2 block", Did(34, 0, {[i \in 1..20 |-> 90]}))
Latencies == At("cta block", Cta(3, {<<3, 12, 0, 16, 0, 0, 0, 128, 0, 11>>}))
=============================================================================
