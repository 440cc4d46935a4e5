----------------------------- MODULE DetectBounds -----------------------------
(***************************************************************************)
(* config/DetectBounds.cpp: which part of the table a camera sees.  The    *)
(* table is divided into sections, one per camera, and has a marker at     *)
(* each end of each border between two sections: numbered clockwise, 0 at  *)
(* the top left.  verifyMarkerPlacement looks for the four markers around  *)
(* one section, calculateRoi derives from them where the section lies in   *)
(* the picture, and getScreenPosition where on the table a point is.       *)
(*                                                                         *)
(* A marker is its number and its corners, clockwise from its own top      *)
(* left, in whole pixels with y pointing down.  The vectors `ids' and      *)
(* `corners' are one sequence of markers, which starts with index 1.       *)
(***************************************************************************)
EXTENDS Integers, Sequences, FiniteSetsExt

Point == [x : Int, y : Int]
Marker == [id : Nat, corner : [0 .. 3 -> Point]]

CONSTANTS Shots,                     (* what detectMarkers finds in a picture *)
          CameraWidth, CameraHeight,
          MaxShots                   (* bound: pictures taken in a run        *)

ASSUME ShotsAssumption == Shots \subseteq Seq(Marker)
ASSUME MaxShotsAssumption == MaxShots \in Nat

VARIABLES shot,     (* the last picture                                       *)
          markers,  (* ids and corners                                        *)
          okay,     (* what verifyMarkerPlacement returned for it             *)
          bounds,   (* x, y, width, height, rot, sections, sectionNum,        *)
                    (* leftOverflow, baseline, baseheight                     *)
          shots     (* the number of pictures taken                           *)

vars == <<shot, markers, okay, bounds, shots>>

Defaults == [x |-> 0, y |-> 0, width |-> CameraWidth, height |-> CameraHeight,
             rot |-> 0, sections |-> 1, sectionNum |-> 0, leftOverflow |-> 0,
             baseline |-> CameraWidth, baseheight |-> CameraHeight]

Init == /\ shot = <<>>
        /\ markers = <<>>
        /\ okay = FALSE
        /\ bounds = Defaults
        /\ shots = 0
-----------------------------------------------------------------------------
Swapped(m, j) == [m EXCEPT ![j] = m[j + 1], ![j + 1] = m[j]]

(* One comparison of the bubble sort: two equal numbers are a trap that    *)
(* ends it.                                                                *)
CompareAt(s, j) ==
  IF s.trap = "shut" THEN s
  ELSE [trap |-> IF s.m[j].id = s.m[j + 1].id THEN "shut" ELSE "open",
        m    |-> IF s.m[j].id > s.m[j + 1].id THEN Swapped(s.m, j) ELSE s.m]

(* The inner loop ends one step too early. *)
ShortPassMutant(s) == CompareAt(CompareAt(s, 1), 2)

(* The passes of the sort over four markers: each inner loop is one        *)
(* comparison shorter than the one before, the last one is empty.          *)
FirstPass(s) == CompareAt(CompareAt(CompareAt(s, 1), 2), 3)
SecondPass(s) == CompareAt(CompareAt(s, 1), 2)
ThirdPass(s) == CompareAt(s, 1)

BubbleSort(m) == ThirdPass(SecondPass(FirstPass([trap |-> "open", m |-> m])))

(* sortMarkers returns false with the trap shut. *)
SortMarkers(m) == IF Len(m) = 4 THEN BubbleSort(m) ELSE [trap |-> "shut", m |-> m]

(* Which way the line from a to b points: 0 for right and down, then       *)
(* clockwise.  A line along an axis has no orientation.                    *)
Orientation(a, b) == CASE a.x < b.x /\ a.y < b.y -> 0
                       [] a.x > b.x /\ a.y < b.y -> 1
                       [] a.x > b.x /\ a.y > b.y -> 2
                       [] a.x < b.x /\ a.y > b.y -> 3
                       [] OTHER -> -1

Turned(o, quarters) == (o + quarters) % 4

(* The pairs are only compared by their sums. *)
PairsMutant(m) == /\ m[4].id >= 3
                  /\ (m[4].id + m[1].id) % 2 = 1
                  /\ m[1].id + m[4].id = m[2].id + m[3].id

(* Two pairs of neighbours whose sums match. *)
PairsMatch(m) == /\ m[4].id >= 3
                 /\ (m[4].id + m[1].id) % 2 = 1
                 /\ m[1].id + m[4].id = m[2].id + m[3].id
                 /\ m[1].id + 1 = m[2].id
                 /\ m[3].id + 1 = m[4].id

OrientationsMatch(m) ==
  LET o == [i \in 1 .. 4 |-> Orientation(m[i].corner[0], m[i].corner[2])]
  IN  /\ o[2] \in {o[1], Turned(o[1], 1)}
      /\ o[3] \in {Turned(o[2], 1), Turned(o[2], 2)}
      /\ o[4] \in {o[3], Turned(o[3], 1)}
      /\ m[2].id + 1 = m[3].id => o[3] = Turned(o[2], 1)

(* verifyMarkerPlacement: the markers are kept, and sorted as far as the   *)
(* sort went, whatever it returns.                                         *)
VerifyMarkerPlacement ==
  /\ shots < MaxShots
  /\ shots' = shots + 1
  /\ shot' \in Shots
  /\ LET s == SortMarkers(shot')
     IN  /\ markers' = s.m
         /\ okay' = (s.trap = "open" /\ PairsMatch(s.m) /\ OrientationsMatch(s.m))
  /\ UNCHANGED bounds
-----------------------------------------------------------------------------
Abs(n) == IF n < 0 THEN -n ELSE n

(* Division by two in C++. *)
Half(n) == IF n < 0 THEN -((-n) \div 2) ELSE n \div 2

(* The overflow is measured from the wrong end of the picture. *)
SameSideMutant(m, box, rot) ==
  LET c == m[1].corner[0]
  IN  CASE rot = 0 -> c.x - box.x
        [] rot = 2 -> c.x - box.x
        [] rot = 1 -> c.y - box.y
        [] rot = 3 -> c.y - box.y
        [] OTHER   -> box.y

(* How far the first marker is from the edge of the picture it is next to. *)
LeftOverflow(m, box, rot) ==
  LET c == m[1].corner[0]
  IN  CASE rot = 0 -> c.x - box.x
        [] rot = 2 -> box.x + box.width - c.x
        [] rot = 1 -> c.y - box.y
        [] rot = 3 -> box.y + box.height - c.y
        [] OTHER   -> box.y

(* The smallest rectangle around the first four markers. *)
Box(m) == LET xs == {m[i].corner[j].x : i \in 1 .. 4, j \in 0 .. 3}
              ys == {m[i].corner[j].y : i \in 1 .. 4, j \in 0 .. 3}
          IN  [x |-> Min(xs), y |-> Min(ys),
               width |-> Max(xs) - Min(xs), height |-> Max(ys) - Min(ys)]

Roi(m) ==
  LET box == Box(m)
      a   == m[1].corner[0]
      b   == m[3].corner[0]
      rot == Orientation(a, b)
      lying == rot \in {0, 2}
  IN  [x |-> box.x, y |-> box.y, width |-> box.width, height |-> box.height,
       rot |-> rot,
       sections |-> Half(m[1].id + m[4].id - 1),
       sectionNum |-> m[1].id,
       leftOverflow |-> LeftOverflow(m, box, rot),
       baseline |-> IF lying THEN Abs(a.x - b.x) ELSE Abs(a.y - b.y),
       baseheight |-> IF lying THEN Abs(a.y - b.y) ELSE Abs(a.x - b.x)]

(* calculateRoi, for the markers of the last picture, whatever was said of *)
(* them.  With fewer than four it has no defined result; that case is in   *)
(* TableServer.                                                            *)
CalculateRoi == /\ Len(markers) >= 4
                /\ bounds' = Roi(markers)
                /\ UNCHANGED <<shot, markers, okay, shots>>

Next == VerifyMarkerPlacement \/ CalculateRoi

Spec == Init /\ [][Next]_vars
-----------------------------------------------------------------------------
(* getScreenPosition: p, seen from where the section is upright, ... *)
Upright(b, p) == CASE b.rot = 1 -> [x |-> p.y, y |-> b.width - p.x]
                   [] b.rot = 2 -> [x |-> b.width - p.x, y |-> b.height - p.y]
                   [] b.rot = 3 -> [x |-> b.height - p.y, y |-> p.x]
                   [] OTHER     -> p

(* ... and as the numerators of two fractions: of the whole table's width, *)
(* whose denominator is sections * baseline, and of its height, whose      *)
(* denominator is baseheight.                                              *)
ScreenPosition(b, p) ==
  LET q == Upright(b, p)
  IN  [x |-> q.x - b.leftOverflow + b.sectionNum * b.baseline, y |-> q.y]
-----------------------------------------------------------------------------
(* The markers around section k of a table with n sections, clockwise.     *)
IsSection(m, n, k) ==
  [i \in 1 .. 4 |-> m[i].id] = <<k, k + 1, 2 * n - k, 2 * n - k + 1>>

(* DetectBounds.cpp:189-261: the tests of verifyMarkerPlacement leave only *)
(* the markers around one section of some table: not the pairs of two      *)
(* sections, nor of tables with half a section.                            *)
AcceptedIsASection ==
  okay => \E n \in 1 .. markers[4].id : \E k \in 0 .. n - 1 : IsSection(markers, n, k)

Ascending(m) == \A i \in 1 .. 3 : m[i].id < m[i + 1].id

Orders == {p \in [1 .. 4 -> 1 .. 4] : \A i, j \in 1 .. 4 : p[i] = p[j] => i = j}

(* DetectBounds.cpp:166-187: it does not matter in which order the markers *)
(* are detected.  Stopping at equal numbers neither hides a legal section  *)
(* nor lets a duplicate through.                                           *)
AnyOrderIsAccepted ==
  Len(shot) = 4 =>
    (okay <=> \E p \in Orders : LET m == [i \in 1 .. 4 |-> shot[p[i]]]
                                IN  Ascending(m) /\ PairsMatch(m) /\ OrientationsMatch(m))

InRoi(b, p) == [x |-> p.x - b.x, y |-> p.y - b.y]

(* The camera of section k sees the table's width from k/n to (k + 1)/n:   *)
(* these are the screen positions of the borders' first and third marker,  *)
(* and neither fraction has the denominator 0.                             *)
CoversShare(b, m) ==
  /\ b.sectionNum \in 0 .. b.sections - 1
  /\ b.rot # -1 =>
       /\ b.baseline > 0 /\ b.baseheight > 0
       /\ ScreenPosition(b, InRoi(b, m[1].corner[0])).x = b.sectionNum * b.baseline
       /\ ScreenPosition(b, InRoi(b, m[3].corner[0])).x = (b.sectionNum + 1) * b.baseline

(* DetectBounds.cpp:90-126, 263-323: the bounds of markers that were found *)
(* okay put the section where it belongs, whichever way the camera hangs.  *)
RoiCoversShare == [][bounds' # bounds /\ okay => CoversShare(bounds', markers)]_vars
=============================================================================
