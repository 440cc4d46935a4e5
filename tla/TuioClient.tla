------------------------------ MODULE TuioClient ------------------------------
(***************************************************************************)
(* tuio/TuioClient.cpp: processOSC, which turns the bundles of one or      *)
(* several servers into lists of objects, cursors and blobs.  A client is  *)
(* a record with the fields of the class; an operator takes a client and   *)
(* gives the client, or the set of clients, it leaves behind.              *)
(*                                                                         *)
(* A bundle is a source message, an alive message, set messages and an     *)
(* fseq message of one profile, in this order, so that aliveObjectList and *)
(* frameObjects, which are filled by them, live as long as the bundle and  *)
(* are not among the fields.                                               *)
(*                                                                         *)
(* What a set message says is a place (position, angle and size) and a     *)
(* motion (speeds and accelerations; of a blob those of its rotation).     *)
(* Lists are sequences, since the first that matches is taken.  The lists  *)
(* and numbers of one kind are kept together: objectList, cursorList and   *)
(* freeCursorList with maxCursorID, blobList and freeBlobList with         *)
(* maxBlobID; objects have no numbers.                                     *)
(***************************************************************************)
EXTENDS Integers, FiniteSets, SequencesExt, Lists

CONSTANT Window   (* how far behind a late frame may be: 100 in the code  *)

ASSUME WindowAssumption == Window \in Nat \ {0}

Kinds == {"object", "cursor", "blob"}

AtRest == 0         (* no motion                                          *)
Estimated == -1     (* the client's own estimate of it                    *)

Emptied(h) == [list |-> <<>>, free |-> <<>>, max |-> h.max]

(* The constructors and initialize. *)
NewClient == [sourceList |-> <<>>, source_id |-> 0, currentFrame |-> -1,
              held |-> [kind \in Kinds |-> [list |-> <<>>, free |-> <<>>, max |-> [n \in {0} |-> -1]]]]

(* disconnect forgets the lists, not the frame and not the numbers. *)
Disconnected(c) == [c EXCEPT !.held = [kind \in Kinds |-> Emptied(c.held[kind])]]
-----------------------------------------------------------------------------
(* The first name has number 0. *)
Known(c, name) == Contains(c.sourceList, name)
NumberOf(c, name) == (CHOOSE n \in DOMAIN c.sourceList : c.sourceList[n] = name) - 1

ObjectSource(c, name) ==
  IF Known(c, name) THEN [c EXCEPT !.source_id = NumberOf(c, name)]
  ELSE [c EXCEPT !.sourceList = Append(@, name), !.source_id = Len(c.sourceList)]

(* max with the highest number of one source. *)
Given(max, id, top) == [n \in {id} \cup DOMAIN max |-> IF n = id THEN top ELSE max[n]]

(* The numbers of a new source are counted from the beginning. *)
Counted(h, id) == [list |-> h.list, free |-> h.free, max |-> Given(h.max, id, -1)]

NumberedSource(c, kind, name) ==
  LET d == ObjectSource(c, name)
  IN  IF Known(c, name) THEN d
      ELSE [d EXCEPT !.held = [c.held EXCEPT ![kind] = Counted(c.held[kind], d.source_id)]]

CursorSource(c, name) == NumberedSource(c, "cursor", name)
BlobSource(c, name) == NumberedSource(c, "blob", name)

(* operator[] of a map makes a 0. *)
Highest(max, id) == IF id \in DOMAIN max THEN max[id] ELSE 0
-----------------------------------------------------------------------------
Entry(state, src, s, id) == [state |-> state, src |-> src, sid |-> s.sid, id |-> id,
                             place |-> s.place, motion |-> s.motion]

(* What a set message s adds to the entries of the frame, if like are the  *)
(* places in the list that match it and differing those it says news of.   *)
Noticed(c, s, list, like, differing, id) ==
  IF like = {} THEN Entry("added", c.source_id, s, id)
  ELSE Entry(IF Min(like) \in differing THEN "updated" ELSE "same", c.source_id, s,
             list[Min(like)].id)

Moved(list, s) == {n \in DOMAIN list : list[n].place # s.place \/ list[n].motion # s.motion}

(* The source is not compared; the symbol of one that is known is kept. *)
ObjectSet(c, s) ==
  LET list == c.held["object"].list
  IN  Noticed(c, s, list, {n \in DOMAIN list : list[n].sid = s.sid}, Moved(list, s), s.id)

CursorSet(c, s) ==
  LET list == c.held["cursor"].list
  IN  Noticed(c, s, list,
              {n \in DOMAIN list : list[n].sid = s.sid /\ list[n].src = c.source_id},
              Moved(list, s), -1)

(* Neither is the source compared nor the motion of the rotation. *)
BlobSet(c, s) ==
  LET list == c.held["blob"].list
  IN  Noticed(c, s, list, {n \in DOMAIN list : list[n].sid = s.sid},
              {n \in DOMAIN list : list[n].place # s.place}, -1)

SetMessage(c, kind, s) == CASE kind = "object" -> ObjectSet(c, s)
                            [] kind = "cursor" -> CursorSet(c, s)
                            [] kind = "blob"   -> BlobSet(c, s)

(* What the set messages of a bundle are found to say.  The list does not  *)
(* change before fseq.                                                     *)
Noted(c, kind, sets) ==
  LET all == [n \in DOMAIN sets |-> SetMessage(c, kind, sets[n])]
  IN  Chosen(all, {e \in ToSet(all) : e.state # "same"})

(* Those of the source that are not alive are found last. *)
Gone(c, kind, alive) ==
  LET list == c.held[kind].list
      gone == Chosen(list, {e \in ToSet(list) : e.src = c.source_id /\ e.sid \notin alive})
  IN  [n \in DOMAIN gone |-> Entry("removed", c.source_id, gone[n], gone[n].id)]

(* No frame is late, or a second bundle with the same number is. *)
NeverLateMutant(c, fseq) == FALSE
EqualIsLateMutant(c, fseq) == /\ fseq > 0
                              /\ fseq <= c.currentFrame
                              /\ c.currentFrame - fseq <= Window

(* The numbers of all sources and profiles are compared with one frame. *)
Late(c, fseq) == /\ fseq > 0
                 /\ fseq < c.currentFrame
                 /\ c.currentFrame - fseq <= Window

Arrived(c, fseq) == IF fseq > 0 THEN fseq ELSE c.currentFrame
-----------------------------------------------------------------------------
(* An entry of the frame is applied to what the client holds of its kind.  *)

(* The list without the first that is in S. *)
Without(list, S) ==
  LET found == {n \in DOMAIN list : list[n] \in S}
  IN  IF found = {} THEN list ELSE RemoveAt(list, Min(found))

(* A new one starts at rest. *)
Shown(e, id) == [src |-> e.src, sid |-> e.sid, id |-> id, place |-> e.place, motion |-> AtRest]

(* An update to another place without motion makes the client estimate the *)
(* motion; nobody may be there to update.                                  *)
Renewed(old, e) ==
  [src |-> old.src, sid |-> old.sid, id |-> old.id, place |-> e.place,
   motion |-> IF old.place # e.place /\ e.motion = AtRest THEN Estimated ELSE e.motion]

Refreshed(list, e) ==
  [n \in DOMAIN list |-> IF list[n].src = e.src /\ list[n].sid = e.sid
                         THEN Renewed(list[n], e) ELSE list[n]]

WithList(h, list) == [list |-> list, free |-> h.free, max |-> h.max]

RemoveObject(h, e) == WithList(h, Without(h.list, {o \in ToSet(h.list) : o.sid = e.sid}))
AddObject(h, e) == {WithList(h, Append(h.list, Shown(e, e.id)))}
UpdateObject(h, e) == WithList(h, Refreshed(h.list, e))
-----------------------------------------------------------------------------
Own(list, src) == Chosen(list, {e \in ToSet(list) : e.src = src})
HighestID(list) == Max({-1} \cup {list[n].id : n \in DOMAIN list})

(* The free ones of the source that have no number below the highest go.   *)
Trimmed(free, src, top) == Chosen(free, {f \in ToSet(free) : f.src = src => f.id <= top})

RemoveCursor(h, e) ==
  LET rest == Without(h.list, {o \in ToSet(h.list) : o.src = e.src /\ o.sid = e.sid})
      max  == Highest(h.max, e.src)
      top  == HighestID(Own(rest, e.src))
  IN  IF e.id = max
      THEN [list |-> rest, free |-> Trimmed(h.free, e.src, top), max |-> Given(h.max, e.src, top)]
      ELSE [list |-> rest, max |-> h.max,
            free |-> IF e.id < max THEN Append(h.free, [src |-> e.src, id |-> e.id]) ELSE h.free]

(* The free ones that may be the closest: one of the source's, or the      *)
(* first, whose source is not looked at.                                   *)
Closest(free, src) == {1} \cup {n \in DOMAIN free : free[n].src = src}

FindsFree(free, src, max) == Len(Own(free, src)) \in 1 .. max

AddCursor(h, e) ==
  LET count == Len(Own(h.list, e.src))
      Longer(id) == Append(h.list, Shown(e, id))
  IN  IF FindsFree(h.free, e.src, Highest(h.max, e.src))
      THEN {[list |-> Longer(h.free[n].id), free |-> RemoveAt(h.free, n), max |-> h.max]
              : n \in Closest(h.free, e.src)}
      ELSE {[list |-> Longer(count), free |-> h.free, max |-> Given(h.max, e.src, count)]}

UpdateCursor(h, e) == WithList(h, Refreshed(h.list, e))

(* The code for blobs is that for cursors. *)
RemoveBlob(h, e) == RemoveCursor(h, e)
AddBlob(h, e) == AddCursor(h, e)
UpdateBlob(h, e) == UpdateCursor(h, e)
-----------------------------------------------------------------------------
Removed(kind, h, e) == CASE kind = "object" -> RemoveObject(h, e)
                         [] kind = "cursor" -> RemoveCursor(h, e)
                         [] kind = "blob"   -> RemoveBlob(h, e)

Added(kind, h, e) == CASE kind = "object" -> AddObject(h, e)
                       [] kind = "cursor" -> AddCursor(h, e)
                       [] kind = "blob"   -> AddBlob(h, e)

Updated(kind, h, e) == CASE kind = "object" -> UpdateObject(h, e)
                         [] kind = "cursor" -> UpdateCursor(h, e)
                         [] kind = "blob"   -> UpdateBlob(h, e)

Applied(kind, h, e) == CASE e.state = "removed" -> {Removed(kind, h, e)}
                         [] e.state = "added"   -> Added(kind, h, e)
                         [] e.state = "updated" -> {Updated(kind, h, e)}

(* The entries of a frame, in the order they were found. *)
AllApplied(kind, h, entries) ==
  LET after[n \in 0 .. Len(entries)] ==
        IF n = 0 THEN {h} ELSE UNION {Applied(kind, g, entries[n]) : g \in after[n - 1]}
  IN  after[Len(entries)]

(* fseq, for a client that knows the source.  The entries are bound, not   *)
(* defined, so that TLC finds them once.                                   *)
Committed(c, kind, p) ==
  IF Late(c, p.fseq) THEN {c}
  ELSE UNION {{[sourceList |-> c.sourceList, source_id |-> c.source_id,
                currentFrame |-> Arrived(c, p.fseq), held |-> [c.held EXCEPT ![kind] = h]]
                 : h \in AllApplied(kind, c.held[kind], entries)}
               : entries \in {Noted(c, kind, p.sets) \o Gone(c, kind, p.alive)}}

ObjectBundle(c, p) == Committed(ObjectSource(c, p.source), "object", p)
CursorBundle(c, p) == Committed(CursorSource(c, p.source), "cursor", p)
BlobBundle(c, p) == Committed(BlobSource(c, p.source), "blob", p)

(* processOSC for all messages of a bundle. *)
ProcessOSC(c, p) == CASE p.kind = "object" -> ObjectBundle(c, p)
                      [] p.kind = "cursor" -> CursorBundle(c, p)
                      [] p.kind = "blob"   -> BlobBundle(c, p)

List(c, kind) == c.held[kind].list
=============================================================================
