----------------------------- MODULE TableServer -----------------------------
(***************************************************************************)
(* server/TableServer.hpp with data/MessageBroker.hpp: the loop of the     *)
(* table thread, composed with the command server and the message queue    *)
(* that join it to the io_service thread.  Once per frame it pops the      *)
(* commands that came in, hands each to the vector bound to its code,      *)
(* carries out the server commands, and processes a video frame.           *)
(*                                                                         *)
(* A frame is what the table sees of the four corner markers: too few of   *)
(* them, four in a legal layout, or four in an illegal one.                *)
(***************************************************************************)
EXTENDS CommandServer, Lists

CONSTANTS VideoFile,   (* BOOLEAN: the source is a file, which is looped *)
          Preview      (* BOOLEAN: frames are shown in a window          *)

ASSUME SourceAssumption == VideoFile \in BOOLEAN /\ Preview \in BOOLEAN

VARIABLES
  tpc,         (* where the loop stands                                       *)
  commands,    (* serverCommands                                              *)
  regionMsgs,  (* data->regionMessages                                        *)
  cmd,         (* the iterator of processServerMessages                       *)
  markers,     (* DetectBounds::ids and corners, the last snapshot            *)
  bounds,      (* the snapshot the camera bounds were computed from           *)
  log          (* the commands that were parsed, in order                     *)

tableVars == <<tpc, commands, regionMsgs, cmd, markers, bounds, log>>
vars == <<qvars, cvars, tableVars>>

ServerCodes == {"ECHO", "VERIFY", "CALCULATE_ROI", "WRITE_BOUNDS", "READ_BOUNDS"}
RegionCodes == {"PUT_REGION", "UPDATE_REGION", "DELETE_REGION"}
(* "UNBOUND" is a positive code nobody bound, "MALFORMED" anything that is *)
(* no positive number.                                                     *)
AllCodes == ServerCodes \cup RegionCodes \cup {"UNBOUND", "MALFORMED"}

ASSUME CodesAssumption == Codes \subseteq AllCodes

Snapshots == {"few", "illegal", "legal"}

TInit == /\ tpc = "poll"
         /\ commands = <<>>
         /\ regionMsgs = <<>>
         /\ cmd = 1
         /\ markers = "few"
         /\ bounds = "none"
         /\ log = <<>>
-----------------------------------------------------------------------------
At(label) == ~crashed /\ tpc = label

(* msgQueue_->popAll(messages): with the mutex taken it is skipped until   *)
(* the next frame.                                                         *)
Poll == /\ At("poll")
        /\ \/ PopAllLock(Table) /\ tpc' = "popping"
           \/ Contended(Table) /\ tpc' = "serve"
        /\ UNCHANGED <<cvars, commands, regionMsgs, cmd, markers, bounds, log>>

PopStep == /\ At("popping")
           /\ \/ (PopAllCopy(Table) \/ PopAllClear(Table)) /\ UNCHANGED tpc
              \/ Unlock(Table) /\ tpc' = "parse"
           /\ UNCHANGED <<cvars, commands, regionMsgs, cmd, markers, bounds, log>>

(* getline and stoi see one command per string: what follows the first     *)
(* line is dropped.  Garbage can only follow a line without an end.        *)
Command(s) == [n |-> Head(s.cmds).n, from |-> Head(s.cmds).from, code |-> Head(s.cmds).code,
               intact |-> ~(s.garbled /\ Len(s.cmds) = 1)]

(* MessageBroker::put for each: what the vector bound to these codes gets. *)
Put(cs, codes) == Chosen(cs, {c \in ToSet(cs) : c.code \in codes})

(* messages->clear() forgotten: the next frame parses them again. *)
NoClearMutant ==
  /\ At("parse")
  /\ LET parsed == [i \in DOMAIN dest[Table] |-> Command(dest[Table][i])]
     IN  /\ commands' = commands \o Put(parsed, ServerCodes)
         /\ regionMsgs' = regionMsgs \o Put(parsed, RegionCodes)
         /\ log' = log \o parsed
  /\ tpc' = "serve"
  /\ UNCHANGED <<cvars, qvars, cmd, markers, bounds>>

Parse ==
  /\ At("parse")
  /\ LET parsed == [i \in DOMAIN dest[Table] |-> Command(dest[Table][i])]
     IN  /\ commands' = commands \o Put(parsed, ServerCodes)
         /\ regionMsgs' = regionMsgs \o Put(parsed, RegionCodes)
         /\ log' = log \o parsed
  /\ ClearDest(Table)
  /\ tpc' = "serve"
  /\ UNCHANGED <<cvars, cmd, markers, bounds>>

(* MessageBroker::respond broadcasts to every client, from this thread. *)
Respond(c, ok) == /\ BroadcastStart([n |-> c.n, ok |-> ok, intact |-> c.intact])
                  /\ tpc' = "respond"

Serving(code) == /\ At("serve")
                 /\ cmd <= Len(commands)
                 /\ commands[cmd].code = code

Echo == /\ Serving("ECHO")
        /\ Respond(commands[cmd], TRUE)
        /\ UNCHANGED <<qvars, commands, regionMsgs, cmd, markers, bounds, log>>

(* verifyMarkerPlacement takes a frame of its own, and keeps what it saw   *)
(* whether it likes it or not.                                             *)
Verify == /\ Serving("VERIFY")
          /\ markers' \in Snapshots
          /\ Respond([commands[cmd] EXCEPT !.intact = TRUE], markers' = "legal")
          /\ UNCHANGED <<qvars, commands, regionMsgs, cmd, bounds, log>>

(* Whether getFrame got one is not asked: at the end of a file, or with a  *)
(* camera that is gone, detectMarkers throws at the empty picture, and     *)
(* nothing on the table thread catches.                                    *)
VerifyNothing ==
  /\ Serving("VERIFY")
  /\ crashed' = TRUE
  /\ UNCHANGED <<qvars, clientVars, sessionVars, castVars, tpc, commands,
                 regionMsgs, cmd, markers, bounds, log>>

(* DetectBounds::calculateRoi uses the last snapshot, whatever it was, and *)
(* indexes four markers even if there are fewer.                           *)
CalculateRoi ==
  /\ Serving("CALCULATE_ROI")
  /\ bounds' = markers
  /\ crashed' \in {FALSE, markers = "few"}
  /\ cmd' = cmd + 1
  /\ UNCHANGED <<qvars, clientVars, sessionVars, castVars, tpc, commands,
                 regionMsgs, markers, log>>

(* The loop waits for a handler that does not exist. *)
NoAdvanceMutant == /\ Serving("WRITE_BOUNDS") \/ Serving("READ_BOUNDS")
                   /\ UNCHANGED vars

(* WRITE_BOUNDS and READ_BOUNDS are bound, but the switch has no case for  *)
(* them.                                                                   *)
Ignore == /\ Serving("WRITE_BOUNDS") \/ Serving("READ_BOUNDS")
          /\ cmd' = cmd + 1
          /\ UNCHANGED <<qvars, cvars, tpc, commands, regionMsgs, markers, bounds, log>>

Responding == /\ At("respond")
              /\ IF bcText # Nil
                 THEN BroadcastStep /\ UNCHANGED <<tpc, cmd>>
                 ELSE tpc' = "serve" /\ cmd' = cmd + 1 /\ UNCHANGED cvars
              /\ UNCHANGED <<qvars, commands, regionMsgs, markers, bounds, log>>

ServeEnd == /\ At("serve")
            /\ cmd > Len(commands)
            /\ commands' = <<>>
            /\ cmd' = 1
            /\ tpc' = "frame"
            /\ UNCHANGED <<qvars, cvars, regionMsgs, markers, bounds, log>>

(* getFrame, and the processors.  The one that is installed reads no       *)
(* message.  Without a frame a camera ends the loop; a file is rewound,    *)
(* and when it is previewed the loop first waits for a key, with waitKey(0)*)
(* and so for as long as nobody presses one.  The ESC of a preview that is *)
(* running is never seen: keyPress is a copy start() made before.          *)
Frame == /\ At("frame")
         /\ \/ tpc' = "poll"
            \/ VideoFile /\ Preview /\ tpc' = "key"
            \/ ~VideoFile /\ tpc' = "stopped"
         /\ UNCHANGED <<qvars, cvars, commands, regionMsgs, cmd, markers, bounds, log>>

(* A step of the user: ESC ends the loop, any other key starts the file    *)
(* again.                                                                  *)
PressKey == /\ At("key")
            /\ tpc' \in {"poll", "stopped"}
            /\ UNCHANGED <<qvars, cvars, commands, regionMsgs, cmd, markers, bounds, log>>
-----------------------------------------------------------------------------
TableStep == \/ Poll \/ PopStep \/ Parse
             \/ Echo \/ Verify \/ VerifyNothing \/ CalculateRoi \/ Ignore
             \/ Responding \/ ServeEnd \/ Frame \/ PressKey

AsioStep ==
  \/ \E c \in Clients : HandleAccept(c) /\ UNCHANGED tableVars
  \/ HandleAcceptError /\ UNCHANGED tableVars
  \/ \E a \in Addrs : HandleRead(a) /\ UNCHANGED tableVars
  \/ \E a \in Addrs : HandleEof(a) /\ UNCHANGED tableVars
  \/ \E a \in Addrs : HandleError(a) /\ UNCHANGED tableVars
  \/ AsioQueueStep /\ UNCHANGED tableVars
  \/ \E w \in late : LateSend(w) /\ UNCHANGED tableVars

ClientStep ==
  \/ \E c \in Clients : Dial(c) /\ UNCHANGED tableVars
  \/ \E c \in Clients, code \in Codes : Send(c, code) /\ UNCHANGED tableVars
  \/ \E c \in Clients, how \in Ways : Leave(c, how) /\ UNCHANGED tableVars

Init == QInit /\ CInit /\ TInit
Next == TableStep \/ AsioStep \/ ClientStep

Spec == Init /\ [][Next]_vars

(* Both threads are scheduled: the table's loop waits for nothing but the  *)
(* key of waitKey(0), and the io_service runs whatever handler is ready.   *)
(* The clients and the user owe nothing.                                   *)
FairSpec == /\ Spec
            /\ WF_vars(tpc # "key" /\ TableStep)
            /\ WF_vars(AsioStep)
-----------------------------------------------------------------------------
(* A command is parsed at most once, and the commands of a client in the   *)
(* order in which it sent them.                                            *)
InOrderOnce == \A i, j \in DOMAIN log :
                  i < j => /\ log[i].n # log[j].n
                           /\ log[i].from = log[j].from => log[i].n < log[j].n

Queued(n) == \E i \in DOMAIN data : Head(data[i].cmds).n = n
Parsed(n) == \E i \in DOMAIN log : log[i].n = n

(* A string that push() accepted is parsed sooner or later, unless the     *)
(* table loop ends first, provided that a loop that waits for a key is     *)
(* given one: polling with try_lock may skip a frame, but not for ever.    *)
(* Without the keys nothing is promised: the command waits as long as the  *)
(* window does.  MaxSends matters here: a table thread that found the      *)
(* mutex taken by ever new pushes could starve, a finite burst ends.       *)
KeysArePressed == []<>(tpc # "key")
QueuedIsParsed == KeysArePressed =>
                     \A n \in 1 .. MaxSends :
                       Queued(n) ~> Parsed(n) \/ crashed \/ tpc = "stopped"

(* The table thread always comes back to its frame: no command and no      *)
(* client keeps it in processServerMessages for ever.                      *)
FramesGoOn == tpc = "serve" ~> tpc = "frame" \/ crashed

(* server.cpp:51: msgQueue carries the commands from the CommandServer to  *)
(* the TableServer.  No command that was read is thrown away.              *)
ReadIsQueued == [][\A c \in Clients :
                     wire[c] # <<>> /\ wire'[c] # wire[c] /\ client'[c] = client[c]
                       /\ Len(wire'[c]) < Len(wire[c]) => pc'[Asio] = "push"]_vars
=============================================================================
