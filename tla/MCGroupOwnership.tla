-------------------------- MODULE MCGroupOwnership --------------------------
(* Files for the runs of GroupOwnership.                                   *)
EXTENDS GroupOwnership

CONSTANTS base, section

\* A base block with one group, which has a sub-group; no section.
Nested == [size |-> 2,
           array |-> [a \in {base, section, 1, 2} |->
                        IF a = base THEN {1} ELSE IF a = 1 THEN {2} ELSE {}],
           padding |-> {}]

\* A base block with a group and a DisplayID section with padding only.
Padded == [size |-> 2,
           array |-> [a \in {base, section, 1, 2} |->
                        IF a = base THEN {1} ELSE IF a = section THEN {2} ELSE {}],
           padding |-> {2}]

TwoBlocks       == {base, section}
OneNested       == {Nested}
NestedAndPadded == {Nested, Padded}
===========================================================================
