------------------------------ MODULE TuioServer ------------------------------
(***************************************************************************)
(* tuio/TuioServer.cpp: what the table tells its receivers.  Between       *)
(* initFrame and commitFrame the program changes the lists of TuioManager; *)
(* commitFrame sends, for each kind that changed, the session numbers that *)
(* are alive and the data of those that were seen in this frame.           *)
(*                                                                         *)
(* A bundle that is too long for a packet is split, each part with the     *)
(* whole list of the alive: for a receiver that gets them all the parts    *)
(* are one bundle, and the model sends one.                                *)
(***************************************************************************)
EXTENDS TuioManager

CONSTANT Profiles   (* the kinds whose profile is enabled *)

ASSUME ProfilesAssumption == Profiles \subseteq {"object", "cursor", "blob"}

VARIABLES
  frame,      (* between initFrame and commitFrame: open, else closed     *)
  full,       (* full_update                                              *)
  periodic,   (* periodic_update                                          *)
  alive,      (* alive[kind]: the alive list sent last                    *)
  unsent      (* those whose data changed since it was sent               *)

svars == <<frame, full, periodic, alive, unsent>>

SInit == /\ MInit
         /\ frame = "closed"
         /\ full = FALSE
         /\ periodic = FALSE
         \* initialize() sends empty bundles
         /\ alive = [kind \in Kinds |-> {}]
         /\ unsent = {}
-----------------------------------------------------------------------------
BeginFrame == /\ frame = "closed"
              /\ InitFrame
              /\ frame' = "open"
              /\ UNCHANGED <<full, periodic, alive, unsent>>

Wrote(S) == unsent' = (unsent \cup S) \cap Present'

(* What the program does to the table within a frame. *)
Change ==
  /\ frame = "open"
  /\ \/ \E symbol \in Symbols : AddObject(symbol) /\ Wrote({sessionID + 1})
     \/ AddCursor /\ Wrote({sessionID + 1})
     \/ AddBlob /\ Wrote({sessionID + 1})
     \/ \E kind \in Kinds :
          \/ \E e \in OnTable(kind) : \/ Update(kind, e) /\ Wrote({e.sid})
                                      \/ Take(kind, e) /\ Wrote({})
          \/ RemoveUntouchedStopped(kind) /\ Wrote({})
          \/ Reset(kind) /\ Wrote({})
          \/ StopUntouchedMoving(kind) /\ Wrote(touched' \ touched)
  /\ UNCHANGED <<frame, full, periodic, alive>>

(* startCursorBundle and startBlobBundle leave out those in TUIO_ADDED,    *)
(* and so do addCursorMessage and addBlobMessage.                          *)
Listed(kind) == {e \in OnTable(kind) : kind = "object" \/ e.sid \notin added}

(* Without a change a bundle is due when the last one is an interval old:  *)
(* it has data only in full mode.                                          *)
Bundles(due) == changed \cup (IF periodic THEN due \cap Profiles ELSE {})

(* The alive list is sent, the data is not, when full mode is off. *)
FullOnlyMutant(kind) == Sids({e \in Listed(kind) : full})

Data(kind) == Sids({e \in Listed(kind) :
                      full \/ (kind \in changed /\ e.sid \in touched)})

CommitFrame ==
  /\ frame = "open"
  /\ frame' = "closed"
  /\ \E due \in SUBSET Kinds :
        /\ alive' = [kind \in Kinds |-> IF kind \in Bundles(due)
                                        THEN Sids(Listed(kind)) ELSE alive[kind]]
        /\ unsent' = unsent \ UNION {Data(kind) : kind \in Bundles(due)}
  /\ changed' = {}
  /\ UNCHANGED <<objects, cursors, blobs, sessionID, touched, added, moving, full, periodic>>

(* enableFullUpdate, disableFullUpdate, and the same for the messages that *)
(* are sent periodically: keys of the simulators.                          *)
Configure == /\ \/ full' = ~full /\ UNCHANGED periodic
                \/ periodic' = ~periodic /\ UNCHANGED full
             /\ UNCHANGED <<mvars, frame, alive, unsent>>
-----------------------------------------------------------------------------
SNext == BeginFrame \/ Change \/ CommitFrame \/ Configure

SSpec == SInit /\ [][SNext]_<<mvars, svars>>
-----------------------------------------------------------------------------
(* Between two frames every receiver that got the bundles knows who is on  *)
(* the table: whatever adds, updates or removes asks for a bundle.         *)
AliveInSync == frame = "closed" =>
                 \A kind \in Kinds : alive[kind] = Sids(Listed(kind))

(* Between two frames every receiver has the latest data of those it was   *)
(* told are alive, although only those with the frame's time are sent.     *)
DataInSync == frame = "closed" => \A kind \in Kinds : alive[kind] \cap unsent = {}
=============================================================================
