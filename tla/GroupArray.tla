----------------------------- MODULE GroupArray -----------------------------
(***************************************************************************)
(* The array of groups both kinds of extension block share: the base_      *)
(* functions of core/grpar.cpp.  gs[i] is item i; item 0, the header of    *)
(* the block, is not in gs.  A group has a size and at, the offset of its  *)
(* first byte in the block, which the functions update from the place of a *)
(* change on.                                                              *)
(***************************************************************************)
EXTENDS Integers, Sequences, SequencesExt

\* An offset read from memory that no longer holds a group.
Stray == -1

Plus(at, size) == IF at = Stray THEN Stray ELSE at + size

\* Total size of a sequence of groups.
TotalSize(gs) ==
  LET total[n \in 0 .. Len(gs)] == IF n = 0 THEN 0 ELSE total[n - 1] + gs[n].size
  IN  total[Len(gs)]

At(group, offset) == [group EXCEPT !.at = offset]

UpdateAbsOffs(gs, first, at) ==
  [i \in DOMAIN gs |->
     IF i < first THEN gs[i]
                  ELSE At(gs[i], Plus(at, TotalSize(SubSeq(gs, first, i - 1))))]

\* Mutant: the groups behind the removed one keep their offsets.
CutOnly(gs, i) == RemoveAt(gs, i)

BaseCut(gs, i) == UpdateAbsOffs(RemoveAt(gs, i), i, gs[i].at)

\* The inserted group takes an offset, and those behind it follow.
PlaceAt(gs, i, group, at) == UpdateAbsOffs(InsertAt(gs, i, group), i, at)

\* In front of item i.
BaseInsertUp(gs, i, group) == PlaceAt(gs, i, group, gs[i].at)

\* Behind item i, which may be the header.  Behind the last item, the group
\* is put in front of it and moved down: it then follows its offset and size.
BaseInsertDn(gs, header, i, group) ==
  LET n == Len(gs)
  IN  PlaceAt(gs, i + 1, group,
              IF i < n THEN gs[i + 1].at
              ELSE IF n = 0 THEN header ELSE Plus(gs[n].at, gs[n].size))

\* Items i and i + 1 change places.
BaseMoveDn(gs, i) ==
  UpdateAbsOffs([gs EXCEPT ![i] = gs[i + 1], ![i + 1] = gs[i]], i, gs[i].at)
=============================================================================
