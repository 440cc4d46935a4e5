---------------------------- MODULE MotionRegions ----------------------------
(***************************************************************************)
(* callbacks/MotionRegion.cpp and callbacks/MotionVectorCallback.cpp: how  *)
(* the motion vectors of a frame become rectangular regions.  A picture is *)
(* the set of cells <<row, col>>, counted from 0, whose motion exceeds the *)
(* threshold; a region is a rectangle of cells.                            *)
(***************************************************************************)
EXTENDS Integers, SequencesExt

CONSTANTS Rows, Cols,       \* MotionRegion::num_rows and num_cols
          Width, Height     \* the size of the camera's picture, in pixels

ASSUME GridAssumption == {Rows, Cols, Width, Height} \subseteq Nat \ {0}

Cells == (0 .. Rows - 1) \X (0 .. Cols - 1)
Region == {r \in [row : 0 .. Rows - 1, col : 0 .. Cols - 1, height : 1 .. Rows, width : 1 .. Cols] :
             r.row + r.height <= Rows /\ r.col + r.width <= Cols}

RowsOf(r) == r.row .. r.row + r.height - 1
ColsOf(r) == r.col .. r.col + r.width - 1
CellsOf(r) == RowsOf(r) \X ColsOf(r)

-----------------------------------------------------------------------------
(* Growing a region, which stops at the edges of the grid.                 *)

GrowUp(r) == IF r.row > 0 THEN [r EXCEPT !.row = @ - 1, !.height = @ + 1] ELSE r
GrowLeft(r) == IF r.col > 0 THEN [r EXCEPT !.col = @ - 1, !.width = @ + 1] ELSE r
GrowDown(r) == IF r.row + r.height < Rows THEN [r EXCEPT !.height = @ + 1] ELSE r

GrowRight(r) == IF r.col + r.width < Cols THEN [r EXCEPT !.width = @ + 1] ELSE r

\* A new region is a cell and what surrounds it.
Around(cell) ==
  GrowRight(GrowLeft(GrowDown(GrowUp([row |-> cell[1], col |-> cell[2], width |-> 1, height |-> 1]))))

(* A region grows to the side on which it has motion of its own.  Whether  *)
(* a cell was searched is always asked of the left column or the top row.  *)
CheckLeft(hot, searched, r) ==
  IF \E row \in RowsOf(r) : <<row, r.col>> \notin searched /\ <<row, r.col>> \in hot
  THEN GrowLeft(r) ELSE r

CheckRight(hot, searched, r) ==
  IF \E row \in RowsOf(r) : /\ <<row, r.col>> \notin searched
                            /\ <<row, r.col + r.width - 1>> \in hot
  THEN GrowRight(r) ELSE r

CheckTop(hot, searched, r) ==
  IF \E col \in ColsOf(r) : <<r.row, col>> \notin searched /\ <<r.row, col>> \in hot
  THEN GrowUp(r) ELSE r

CheckBottom(hot, searched, r) ==
  IF \E col \in ColsOf(r) : /\ <<r.row, col>> \notin searched
                            /\ <<r.row + r.height - 1, col>> \in hot
  THEN GrowDown(r) ELSE r

GrowRound(hot, searched, r) ==
  CheckBottom(hot, searched, CheckRight(hot, searched,
    CheckTop(hot, searched, CheckLeft(hot, searched, r))))

GrowRegion(hot, searched, region) ==
  LET grown[r \in Region] == LET next == GrowRound(hot, searched, r)
                             IN  IF next = r THEN r ELSE grown[next]
  IN  grown[region]

-----------------------------------------------------------------------------
(* The scan over the cells, row by row.  The first searched cell of a row  *)
(* ends the row.                                                           *)
Visit(hot, s, cell) ==
  IF s.ended THEN s
  ELSE IF cell \in s.searched THEN [s EXCEPT !.ended = TRUE]
  ELSE IF cell \notin hot THEN s
  ELSE LET r == GrowRegion(hot, s.searched, Around(cell))
       IN  [s EXCEPT !.regions = Append(@, r), !.searched = @ \cup CellsOf(r)]

\* It ends the rows that follow, too.
ScanRowMutant(hot, s, row) ==
  LET after[n \in 0 .. Cols] == IF n = 0 THEN s ELSE Visit(hot, after[n - 1], <<row, n - 1>>)
  IN  after[Cols]

ScanRow(hot, s, row) ==
  LET after[n \in 0 .. Cols] == IF n = 0 THEN [s EXCEPT !.ended = FALSE]
                                ELSE Visit(hot, after[n - 1], <<row, n - 1>>)
  IN  after[Cols]

RegionsOf(hot) ==
  LET below[n \in 0 .. Rows] == IF n = 0 THEN [searched |-> {}, regions |-> <<>>, ended |-> FALSE]
                                ELSE ScanRow(hot, below[n - 1], n - 1)
  IN  below[Rows].regions

\* RawOutputCallback: the part of the camera's picture a region stands for.
Roi(r) == [x |-> r.col * (Width \div Cols), y |-> r.row * (Height \div Rows),
           width |-> r.width * (Width \div Cols), height |-> r.height * (Height \div Rows)]
=============================================================================
