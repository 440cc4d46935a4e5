------------------------------- MODULE IdPool --------------------------------
(***************************************************************************)
(* How tuio/TuioManager.cpp numbers cursors and blobs: a new one takes the *)
(* number of a removed one if there is a gap, and the next number else, so *)
(* that the numbers on the table stay small.                               *)
(*                                                                         *)
(* A pool is the list of cursors on the table (cursorList), the list of    *)
(* removed ones that are kept because their number is a gap                *)
(* (freeCursorList), and the highest number in use (maxCursorID).  Nothing *)
(* depends on the order of the lists except which of several equally close *)
(* free cursors is taken, and positions are left out: any of them may be   *)
(* the closest.  A cursor is its session number and its cursor number.     *)
(***************************************************************************)
EXTENDS Integers, FiniteSets, FiniteSetsExt

Entry == [sid : Nat, id : Nat]
PoolType == [live : SUBSET Entry, free : SUBSET Entry, max : Int]

EmptyPool == [live |-> {}, free |-> {}, max |-> -1]

Ids(S) == {e.id : e \in S}
Sids(S) == {e.sid : e \in S}

(* The highest number in S, -1 when S is empty. *)
Highest(S) == IF S = {} THEN -1 ELSE Max(Ids(S))

(* A single gap is overlooked. *)
LateGapMutant(p) == Cardinality(p.live) < p.max

(* Is a gap to be filled?  Then freeCursorList.begin() is dereferenced.    *)
TakesFree(p) == Cardinality(p.live) <= p.max

(* addTuioCursor: the pools it may leave behind. *)
Adds(p, sid) ==
  IF TakesFree(p)
  THEN {[p EXCEPT !.live = @ \cup {[sid |-> sid, id |-> f.id]},
                  !.free = @ \ {f}] : f \in p.free}
  ELSE {[p EXCEPT !.live = @ \cup {[sid |-> sid, id |-> Cardinality(p.live)]},
                  !.max = Cardinality(p.live)]}

(* The highest number is lowered, the free numbers above it are kept. *)
NoTrimMutant(p, S) ==
  LET rest == p.live \ S
      top  == IF p.max \in Ids(S) THEN Highest(rest) ELSE p.max
  IN  [live |-> rest,
       free |-> p.free \cup {e \in S : e.id < top},
       max  |-> top]

(* removeTuioCursor for each member of S, in whatever order: when the      *)
(* highest number goes, the free ones above the new highest are deleted,   *)
(* all of them when nothing is left; a lower one is kept for its number.   *)
Removes(p, S) ==
  LET rest == p.live \ S
      top  == IF p.max \in Ids(S) THEN Highest(rest) ELSE p.max
  IN  [live |-> rest,
       free |-> {f \in p.free \cup S : f.id <= top},
       max  |-> top]

(* One call of removeTuioCursor. *)
RemoveOne(p, e) ==
  LET rest == p.live \ {e}
  IN  IF e.id = p.max
      THEN [live |-> rest,
            free |-> {f \in p.free : f.id <= Highest(rest)},
            max  |-> Highest(rest)]
      ELSE [p EXCEPT !.live = rest,
                     !.free = IF e.id < p.max THEN @ \cup {e} ELSE @]
-----------------------------------------------------------------------------
(* No two entries of S carry the same number. *)
DistinctIds(S) == \A e, f \in S : e.id = f.id => e = f

(* The numbers of the cursors on the table and of those kept as gaps are   *)
(* distinct and are exactly 0..max, and max is on the table: whenever      *)
(* addTuioCursor looks for a free cursor there is one, and a number it     *)
(* makes up is not in use.                                                 *)
PoolOK(p) ==
  /\ p \in PoolType
  /\ IsFiniteSet(p.live) /\ IsFiniteSet(p.free)
  /\ p.live \cap p.free = {}
  /\ DistinctIds(p.live \cup p.free)
  /\ Ids(p.live \cup p.free) = 0 .. p.max
  /\ p.max >= -1
  /\ p.max >= 0 => p.max \in Ids(p.live)
=============================================================================
