----------------------------- MODULE MCTransports ---------------------------
(***************************************************************************)
(* A small instance of the transports: two clients, two receiving threads. *)
(* For the packets, strings that take one word, fill their last word, or   *)
(* need a word for the zero byte alone; blobs with and without padding; a  *)
(* buffer that holds nested bundles or two messages.                       *)
(***************************************************************************)
EXTENDS Transports, TLC

CONSTANTS p1, p2, t1, t2

MCTextLength == ("a" :> 1) @@ ("bcde" :> 4) @@ ("#bundle" :> 7)
MCBlobLength == ("z" :> 0) @@ ("y" :> 5)
MCPrograms == {{"T", "i", "s"}, {"F", "d", "b"}, {"N", "c", "S"}, {"I", "r", "t"},
               {"f", "h", "m"}}
=============================================================================
