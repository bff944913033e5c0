------------------------- MODULE MCDocumentSession -------------------------
(* Files for the runs of DocumentSession. *)
EXTENDS DocumentSession

OneFile  == {"a"}
TwoFiles == {"a", "b"}
NoFile   == {}
=============================================================================
