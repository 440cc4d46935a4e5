----------------------------- MODULE MCMotionCam -----------------------------
(***************************************************************************)
(* MotionCam on a grid of 4 x 5 cells: a first picture without motion, with*)
(* two cells in a row of which the second is missed, or with a region that *)
(* grows twice and one in the last corner; then one with motion in the     *)
(* first corner or none.                                                   *)
(***************************************************************************)
EXTENDS MotionCam

Scenes == {{}, {<<1, 0>>, <<1, 4>>}, {<<0, 0>>, <<1, 1>>, <<3, 4>>}}
TwoPictures == <<Scenes, {{}, {<<0, 0>>}}>>
=============================================================================
