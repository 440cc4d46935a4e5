----------------------------- MODULE MCProtocol -----------------------------
(***************************************************************************)
(* One server, whose messages are all of one profile, either both full and *)
(* periodic or neither; two markers, so that a session may come back with  *)
(* another one.  Blobs, whose code is the cursors' but for BlobSet, are    *)
(* not repeated.                                                           *)
(***************************************************************************)
EXTENDS Protocol

ModesOf(profiles) == {[full |-> repeats, periodic |-> repeats, profiles |-> profiles]
                        : repeats \in BOOLEAN}
OneProfile == ModesOf({"object"}) \cup ModesOf({"cursor"}) \cup {m \in ModesOf({"blob"}) : ~m.full}
OneSource == {"table"}
TwoSymbols == {7, 8}
=============================================================================
