------------------------ MODULE MCDisplayIDSection ------------------------
(* Sections for the runs of DisplayIDSection.                              *)
EXTENDS DisplayIDSection

File(sizes, padding) == [sizes |-> sizes, padding |-> padding]

\* No padding: the payload grows with every block.
Unpadded == {File(<<>>, 0), File(<<4>>, 0), File(<<3, 5>>, 0), File(<<3, 4, 3>>, 0)}

\* Padding shorter than, equal to and longer than a block, also alone.
Padded == {File(<<>>, 3), File(<<4>>, 2), File(<<3>>, 4), File(<<3, 4>>, 5), File(<<4, 3>>, 3),
           File(<<5, 5>>, 2)}

Sections == Unpadded \cup Padded

ShortPadding == {File(<<4>>, 2)}
ExactPadding == {File(<<4>>, 3)}
Roomy        == {File(<<3>>, 0)}
Full         == {File(<<3>>, 0), File(<<6, 5>>, 0)}

Nothing  == {}
AfterCta == {0, 4}
===========================================================================
