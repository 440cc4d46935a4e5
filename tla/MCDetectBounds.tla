---------------------------- MODULE MCDetectBounds ----------------------------
(***************************************************************************)
(* Pictures of four markers at the corners of a crooked table, and of      *)
(* three and five: every choice of numbers up to 5, every choice of        *)
(* orientations for some legal and nearly legal numbers, and these numbers *)
(* in every order of detection with the camera hung in every way.          *)
(***************************************************************************)
EXTENDS DetectBounds

(* A square with its top left at p, rotated by o quarters; for o = -1 it   *)
(* stands on a corner.                                                     *)
Straight == <<<<0, 0>>, <<2, 0>>, <<2, 2>>, <<0, 2>>>>
Tilted == <<<<1, 0>>, <<2, 1>>, <<1, 2>>, <<0, 1>>>>
Square(p, o) ==
  [j \in 0 .. 3 |-> LET c == IF o = -1 THEN Tilted[j + 1] ELSE Straight[((j + o) % 4) + 1]
                    IN  [x |-> p[1] + c[1], y |-> p[2] + c[2]]]

Picture(ids, places, turns) ==
  [i \in DOMAIN ids |-> [id |-> ids[i], corner |-> Square(places[i], turns[i])]]

Upward == <<<<0, 1>>, <<12, 0>>, <<13, 7>>, <<2, 9>>>>
Hung(q) == [i \in 1 .. 4 |-> Upward[((i + q - 1) % 4) + 1]]
Narrow == <<<<5, 0>>, <<9, 4>>, <<5, 8>>, <<1, 4>>>>
Layouts == {Hung(q) : q \in 0 .. 3} \cup {Narrow}

Numbers == {<<0, 1, 2, 3>>, <<0, 1, 4, 5>>, <<1, 2, 3, 4>>, <<0, 1, 3, 4>>, <<0, 2, 3, 5>>}
Turns == {<<0, 0, 2, 2>>, <<0, 1, 2, 3>>, <<3, 3, 0, 0>>}

Shuffled(s, p) == [i \in 1 .. 4 |-> s[p[i]]]

Pictures ==
  {Picture(ids, Upward, <<0, 1, 2, 3>>) : ids \in [1 .. 4 -> 0 .. 5]}
  \cup {Picture(ids, Upward, turns) : ids \in Numbers, turns \in [1 .. 4 -> -1 .. 3]}
  \cup {Picture(Shuffled(ids, p), Shuffled(layout, p), Shuffled(turns, p)) :
          ids \in Numbers, layout \in Layouts, turns \in Turns, p \in Orders}
  \cup {Picture(<<0, 1, 2>>, Upward, <<0, 1, 2>>),
        Picture(<<0, 1, 2, 3, 9>>, Append(Upward, <<5, 5>>), <<0, 1, 2, 3, 0>>)}
=============================================================================
