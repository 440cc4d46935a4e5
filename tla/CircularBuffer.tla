--------------------------- MODULE CircularBuffer ---------------------------
(***************************************************************************)
(* The circular buffer of tech_tests/RaspiVid.c: the encoder's callback    *)
(* writes the stream into a ring of len cells and keeps, in a second ring, *)
(* where each intra frame starts; main() saves it from the oldest of       *)
(* those.  A cell holds the number of the stream's unit that was written   *)
(* there last, 0 if none was.                                              *)
(***************************************************************************)
EXTENDS Integers, Sequences

CONSTANT IframeSlots    \* IFRAME_BUFSIZE, 60000 in the code
ASSUME IframeSlotsAssumption == IframeSlots \in Nat \ {0}

Slots == 0 .. IframeSlots - 1
NextSlot(i) == (i + 1) % IframeSlots

EmptyRing(len) == [len |-> len, wptr |-> 0, wrapped |-> FALSE,
                   cells |-> [p \in 0 .. len - 1 |-> 0],
                   iframes |-> [i \in Slots |-> 0], wpos |-> 0, rpos |-> 0, start |-> -1]

\* A frame may come in several buffers: frame_start remembers its first cell.
FrameStart(r) == IF r.start = -1 THEN r.wptr ELSE r.start

Noted(r, key, last) ==
  [r EXCEPT !.iframes = IF key THEN [@ EXCEPT ![r.wpos] = FrameStart(r)] ELSE @,
            !.wpos = IF key THEN NextSlot(@) ELSE @,
            !.start = IF last THEN -1 ELSE FrameStart(r)]

\* Writing n cells at wptr runs over cell p.
RunsOver(r, n, p) == \/ r.wptr <= p /\ r.wptr + n > p
                     \/ r.wptr > p /\ r.wptr + n > p + r.len

\* The slots the loop that moves iframe_buff_rpos along stops at, and the
\* first of them.  With none the loop never ends.
StopsAt(r, n) == {i \in Slots : ~RunsOver(r, n, r.iframes[i])}
Spins(r, n) == NextSlot(r.rpos) # r.wpos /\ StopsAt(r, n) = {}
MovedAlong(r, n) ==
  LET Turns(i) == (i - r.rpos) % IframeSlots
  IN IF NextSlot(r.rpos) = r.wpos \/ StopsAt(r, n) = {} THEN r
     ELSE [r EXCEPT !.rpos = CHOOSE i \in StopsAt(r, n) :
                               \A j \in StopsAt(r, n) : Turns(i) <= Turns(j)]

\* Of the two memcpys the second begins at the start of the ring and knows no
\* end: what does not fit into the ring overruns it.
Overruns(r, n) == r.wptr + n > 2 * r.len

\* A cell keeps the last unit that falls on it.
Copied(r, units) ==
  LET n == Len(units)
      Behind(p) == (r.wptr + n - 1 - p) % r.len
  IN [r EXCEPT !.cells = [p \in DOMAIN @ |-> IF Behind(p) < n THEN units[n - Behind(p)] ELSE @[p]],
               !.wrapped = @ \/ r.wptr + n > r.len,
               !.wptr = (@ + n) % r.len]

\* One buffer of the stream that is neither a header nor side information.
Pushed(r, units, key, last) == Copied(MovedAlong(Noted(r, key, last), Len(units)), units)

\* What main() saves: from the oldest intra frame to the end of the ring,
\* then from its start to where the writer is.
From(r) == r.iframes[r.rpos]
ToEnd(r) == IF r.wrapped THEN r.len - From(r) ELSE 0
WholeStartMutant(r) == IF ~r.wrapped THEN r.wptr ELSE From(r)
ToStart(r) == IF ~r.wrapped THEN r.wptr
              ELSE IF r.wptr < From(r) THEN r.wptr ELSE From(r)
Cells(r, first, n) == [i \in 1 .. n |-> r.cells[first + i - 1]]

\* The writer has passed the oldest intra frame that is still whole in this
\* lap, so the rest of the ring behind it is older than its start.
Lapped(r) == r.wrapped /\ From(r) < r.wptr
=============================================================================
