--------------------------- MODULE MCIndexHistory ---------------------------
(* Instance of IndexHistory for TLC. *)
EXTENDS IndexHistory, MCIndexRun

MCOneContent == {c2}
=============================================================================
