----------------------------- MODULE MCEdidFile -----------------------------
(* EDIDs for the runs of EdidFile.  Sizes are scaled down: three of the     *)
(* shorter data blocks or two timings fill most of an extension.            *)
EXTENDS EdidFile

Data(size)      == Item("data", size, 0)
Override(count) == Item("override", OverrideSize, count)
Timing          == Item("timing", TimingSize, 0)
Junk            == Item("junk", 1, 0)

File(blocks, count, timings, native, offset, items) ==
  [blocks |-> blocks, count |-> count, timings |-> timings,
   native |-> native, offset |-> offset, items |-> items]

\* In order.
Regular ==
  {File(2, 1, 1, 2, 7, <<Data(3), Timing>>),
   File(2, 1, 1, 2, 4, <<Timing, Timing>>),
   File(3, 1, 1, 0, 10, <<Override(2), Data(3)>>)}

\* Opened with errors ignored only, and then not always parsed.
Damaged ==
  {File(2, 1, 1, 2, 6, <<Data(3), Timing>>),
   File(2, 1, 1, 0, 7, <<Data(3), Timing, Junk>>),
   File(2, 2, 1, 2, 4, <<Timing>>),
   File(3, 1, 1, 0, 10, <<Override(3), Data(3)>>),
   File(2, 1, 1, 2, 7, <<Data(3)>>),
   File(2, 1, 1, 0, 2, <<Data(3)>>)}

\* A header, with nothing behind it.
Empty == {File(2, 1, 1, 0, 0, <<>>), File(2, 1, 1, 0, 4, <<>>)}

AllFiles == Regular \cup Damaged \cup Empty
Native   == {File(2, 1, 1, 2, 4, <<Timing>>)}
Headers  == {File(2, 1, 1, 0, 0, <<>>)}
Overrides == {File(3, 1, 1, 0, 10, <<Override(2), Data(3)>>)}
=============================================================================
