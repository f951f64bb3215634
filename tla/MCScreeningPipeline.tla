------------------------ MODULE MCScreeningPipeline ------------------------
(***************************************************************************)
(* Two identities: one is on the watchlist, neither on the built-in        *)
(* list.                                                                   *)
(***************************************************************************)
EXTENDS ScreeningPipeline

CONSTANTS listed, unlisted

MCIdentities == {listed, unlisted}
MCList == {listed}
MCOffline == {}
=============================================================================
