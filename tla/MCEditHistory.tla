--------------------------- MODULE MCEditHistory ---------------------------
(* Values for the constants of EditHistory; every cfg picks from them. *)
EXTENDS EditHistory

None == {}

\* A dropdown whose values decide the layout of its group.
Dropdown == {"tag"}

\* A free entry, and one whose value decides the layout of its group.
Note == {"note"}
Length == {"len"}
LengthAndSwitch == {"len", "bit"}

\* An entry of which one value changes the type of its group, as pixel clock 0
\* does, and a switch that decides the layout of another.
Clock == {"clock"}
Switch == {"bit"}
ClockAndSwitch == {"clock", "bit"}

\* The data of two detailed timings, which can change places, and a dropdown.
DropdownAndTimings == {"tag", "first", "second"}
=============================================================================
