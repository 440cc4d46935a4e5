----------------------------- MODULE TuioManager -----------------------------
(***************************************************************************)
(* tuio/TuioManager.cpp: the objects (markers), cursors (touches) and      *)
(* blobs on the table, and the frame they were last seen in.  The three    *)
(* lists share one session counter; cursors and blobs are numbered by a    *)
(* pool each, an object brings its own symbol number.                      *)
(*                                                                         *)
(* Times matter only in the comparison with currentFrameTime, so that the  *)
(* model keeps the set of those seen in the current frame.  A callback of  *)
(* a listener changes nothing here and is left out.                        *)
(***************************************************************************)
EXTENDS IdPool

CONSTANTS Symbols,      (* numbers of markers                           *)
          MaxSessions   (* bound: session numbers given out in a run    *)

ASSUME SymbolsAssumption == Symbols \subseteq Nat
ASSUME MaxSessionsAssumption == MaxSessions \in Nat

VARIABLES
  objects,    (* objectList                                                *)
  cursors,    (* cursorList, freeCursorList, maxCursorID                   *)
  blobs,      (* blobList, freeBlobList, maxBlobID                         *)
  sessionID,  (* the last session number that was given out                *)
  touched,    (* those whose getTuioTime() is currentFrameTime             *)
  added,      (* those in state TUIO_ADDED                                 *)
  moving,     (* those that isMoving()                                     *)
  changed     (* which of updateObject, updateCursor, updateBlob are set   *)

mvars == <<objects, cursors, blobs, sessionID, touched, added, moving, changed>>

Kinds == {"object", "cursor", "blob"}

MInit == /\ objects = {}
         /\ cursors = EmptyPool
         /\ blobs = EmptyPool
         /\ sessionID = -1
         /\ touched = {}
         /\ added = {}
         /\ moving = {}
         /\ changed = {}

(* Those of one kind that are on the table. *)
OnTable(kind) == CASE kind = "object" -> objects
                   [] kind = "cursor" -> cursors.live
                   [] kind = "blob"   -> blobs.live

Changed(kind) == changed' = changed \cup {kind}
-----------------------------------------------------------------------------
(* Every add draws the next session number. *)
NewSession(kind) ==
  /\ sessionID < MaxSessions
  /\ sessionID' = sessionID + 1
  /\ touched' = touched \cup {sessionID + 1}
  /\ added' = added \cup {sessionID + 1}
  /\ Changed(kind)
  /\ UNCHANGED moving

AddObject(symbol) ==
  /\ NewSession("object")
  /\ objects' = objects \cup {[sid |-> sessionID + 1, id |-> symbol]}
  /\ UNCHANGED <<cursors, blobs>>

AddCursor == /\ NewSession("cursor")
             /\ cursors' \in Adds(cursors, sessionID + 1)
             /\ UNCHANGED <<objects, blobs>>

AddBlob == /\ NewSession("blob")
           /\ blobs' \in Adds(blobs, sessionID + 1)
           /\ UNCHANGED <<objects, cursors>>
-----------------------------------------------------------------------------
(* updateTuioObject and updateTuioBlob return when the object was already  *)
(* seen in this frame; in updateTuioCursor that test is commented out.     *)
OncePerFrame(kind) == kind # "cursor"

(* updateTuioObject, updateTuioCursor, updateTuioBlob.  Whether it is      *)
(* moving afterwards depends on its speeds.                                *)
Update(kind, e) ==
  /\ OncePerFrame(kind) => e.sid \notin touched
  /\ touched' = touched \cup {e.sid}
  /\ added' = added \ {e.sid}
  /\ moving' \in {moving \cup {e.sid}, moving \ {e.sid}}
  /\ Changed(kind)
  /\ UNCHANGED <<objects, cursors, blobs, sessionID>>
-----------------------------------------------------------------------------
(* Those in S leave the table: the removed are in state TUIO_REMOVED, or   *)
(* deleted.                                                                *)
Forget(S) == /\ touched' = touched \ Sids(S)
             /\ added' = added \ Sids(S)
             /\ moving' = moving \ Sids(S)

(* A removal that does not ask for a bundle. *)
QuietMutant(kind, S) ==
  /\ objects' = IF kind = "object" THEN objects \ S ELSE objects
  /\ cursors' = IF kind = "cursor" THEN Removes(cursors, S) ELSE cursors
  /\ blobs' = IF kind = "blob" THEN Removes(blobs, S) ELSE blobs
  /\ Forget(S)
  /\ UNCHANGED <<sessionID, changed>>

TakeOff(kind, S) ==
  /\ objects' = IF kind = "object" THEN objects \ S ELSE objects
  /\ cursors' = IF kind = "cursor" THEN Removes(cursors, S) ELSE cursors
  /\ blobs' = IF kind = "blob" THEN Removes(blobs, S) ELSE blobs
  /\ Forget(S)
  /\ changed' = IF S = {} THEN changed ELSE changed \cup {kind}
  /\ UNCHANGED sessionID

(* removeTuioObject, removeTuioCursor, removeTuioBlob. *)
Take(kind, e) == TakeOff(kind, {e})

Untouched(kind) == {e \in OnTable(kind) : e.sid \notin touched}

(* removeUntouchedStoppedObjects, -Cursors, -Blobs start over from the     *)
(* head of the list after each removal.                                    *)
RemoveUntouchedStopped(kind) ==
  TakeOff(kind, {e \in Untouched(kind) : e.sid \notin moving})

(* resetTuioObjects, -Cursors, -Blobs. *)
Reset(kind) == TakeOff(kind, OnTable(kind))

(* stopUntouchedMovingObjects, -Cursors, -Blobs.  A cursor's stop() makes  *)
(* it idle and leaves its time alone; those of an object and of a blob are *)
(* an update, after which it may still be slowing down.                    *)
StopUntouchedMoving(kind) ==
  LET stopped == Sids({e \in Untouched(kind) : e.sid \in moving})
  IN  /\ IF kind = "cursor"
         THEN moving' = moving \ stopped /\ UNCHANGED touched
         ELSE /\ \E slowing \in SUBSET stopped : moving' = (moving \ stopped) \cup slowing
              /\ touched' = touched \cup stopped
      /\ changed' = IF stopped = {} THEN changed ELSE changed \cup {kind}
      /\ UNCHANGED <<objects, cursors, blobs, sessionID, added>>

(* initFrame.  Two frames may begin in the same microsecond. *)
InitFrame == /\ touched' \in {{}, touched}
             /\ UNCHANGED <<objects, cursors, blobs, sessionID, added, moving, changed>>
-----------------------------------------------------------------------------
MNext == \/ \E symbol \in Symbols : AddObject(symbol)
         \/ AddCursor
         \/ AddBlob
         \/ \E kind \in Kinds : \/ \E e \in OnTable(kind) : Update(kind, e) \/ Take(kind, e)
                                \/ RemoveUntouchedStopped(kind)
                                \/ Reset(kind)
                                \/ StopUntouchedMoving(kind)
         \/ InitFrame

MSpec == MInit /\ [][MNext]_mvars
-----------------------------------------------------------------------------
Pools == {cursors, blobs}
Everybody == objects \cup cursors.live \cup cursors.free \cup blobs.live \cup blobs.free

Present == UNION {Sids(OnTable(kind)) : kind \in Kinds}

(* Types.  What is kept about times and states is about those on the table. *)
MTypeOK == /\ objects \subseteq Entry
           /\ cursors \in PoolType
           /\ blobs \in PoolType
           /\ sessionID \in Int /\ sessionID >= -1
           /\ touched \cup added \cup moving \subseteq Present
           /\ changed \subseteq Kinds

(* TuioManager.cpp:131-142, 261-272: cursors on the table have different   *)
(* numbers, and so have blobs, whatever came and went before; the gap that *)
(* is filled exists.                                                       *)
NumbersOK == \A p \in Pools : PoolOK(p)

(* Nobody on the table shares a session number with anybody on the table   *)
(* or kept in a free list, of its own or of another kind, and none is      *)
(* ahead of the counter: a receiver can tell them apart for ever.          *)
SessionsOK ==
  /\ \A e \in Everybody : e.sid <= sessionID
  /\ \A e, f \in Everybody : e.sid = f.sid => e = f
  /\ \A kind, other \in Kinds : kind # other => OnTable(kind) \cap OnTable(other) = {}

(* Removing several in a loop comes to the same whatever the order: the    *)
(* pool does not depend on where a cursor stands in cursorList.            *)
OrderIrrelevant ==
  \A p \in Pools : \A S \in SUBSET p.live : \A e \in S :
     Removes(p, S) = Removes(RemoveOne(p, e), S \ {e})
=============================================================================
