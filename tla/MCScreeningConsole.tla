------------------------- MODULE MCScreeningConsole -------------------------
(***************************************************************************)
(* Two documents, so that calls made for the first can be answered when    *)
(* the second is on the screen.                                            *)
(***************************************************************************)
EXTENDS ScreeningConsole

CONSTANTS d1, d2

MCDocuments == {d1, d2}
=============================================================================
