----------------------------- MODULE MCTuioServer -----------------------------
(***************************************************************************)
(* A server with one marker and up to three sessions, all its profiles     *)
(* enabled.                                                                *)
(***************************************************************************)
EXTENDS TuioServer

OneSymbol == {7}
AllProfiles == {"object", "cursor", "blob"}
=============================================================================
