------------------------------ MODULE MCTracking ------------------------------
(***************************************************************************)
(* Two regions and the whole picture, fingers at three places of which the *)
(* middle one overlaps the others, and two markers; one picture may be     *)
(* missed.  Either the processors for fingers or those for markers are     *)
(* installed: they share only the registry.                                *)
(***************************************************************************)
EXTENDS Tracking

Installed == [processors : {<<"Contour", "ContourCompute">>}, dictionary : {1}]
             \cup [processors : {<<"Aruco", "ArucoCompute">>}, dictionary : 0 .. 3]
Names == <<"a", "b">>
Request(code, region, rect) == [code |-> code, region |-> region, rect |-> rect]
Commands == {Request("put", "b", "inside"), Request("update", "a", "outside"),
             Request("put", "a", "inside"),
             Request("put", "b", "garbled"), Request("put", "a", "short"),
             Request("delete", "b", "none"), Request("delete", "a", "none")}
Fingers == {<<Speck>>, <<1>>, <<2, 0>>}
MarkersSeen == {<<>>, <<0>>, <<1>>, <<1, 0>>, <<2>>, <<3, 0>>}
AllSymbols == 0 .. 3
=============================================================================
