------------------------------ MODULE MotionCam ------------------------------
(***************************************************************************)
(* lib/rpi_motioncam: the motion camera of the Raspberry Pi.  One thread   *)
(* builds the pipeline of firmware components, starts the camera and in    *)
(* the end destroys everything.  The firmware calls back with every buffer *)
(* it has filled: the encoder's port with motion vectors, from which       *)
(* MotionVectorCallback stages regions (and MotionVectorPreviewCallback    *)
(* draws them on an overlay), the splitter's port with pictures, from      *)
(* which RawOutputCallback cuts the staged regions.  A consumer takes the  *)
(* frames that are ready.                                                  *)
(*                                                                         *)
(* The firmware (MMAL) is external: any of its calls may fail, a port that *)
(* is being disabled hands its buffers back, and mmal_port_disable()       *)
(* returns once no callback is running.                                    *)
(***************************************************************************)
EXTENDS MotionRegions

CONSTANTS
  Pictures,      \* per frame with motion vectors, what it may show
  PoolSize,      \* buffers in a port's pool
  Timeout,       \* REGION_TIMEOUT, in clock ticks
  MaxTime,       \* bound: clock ticks
  MaxPictures,   \* bound: pictures from the splitter
  MaxData,       \* bound: buffers of the encoder without motion vectors
  MaxFailures    \* bound: calls of the firmware that fail

ASSUME MotionCamAssumption ==
  /\ {PoolSize, Timeout, MaxTime, MaxPictures, MaxData, MaxFailures} \subseteq Nat
  /\ PoolSize > 0 /\ Timeout > 0
  /\ Pictures \in Seq(SUBSET SUBSET Cells)

CallbackPorts == {"vectors", "raw"}
Ports == CallbackPorts \cup {"overlay"}

VARIABLES
  overload,    \* more macroblocks a second are asked for than the encoder has
  preview,     \* options_.preview
  main,        \* where the main thread is
  todo,        \* what it has to do there
  made,        \* the components that exist
  inline,      \* the encoder was told to add motion vectors
  link,        \* the connection member of the linked input ports
  enabled,     \* the ports that are enabled with a callback
  pools,       \* the ports that have a pool
  free,        \* per port, the buffers in its pool's queue
  sent,        \* per port, the buffers the firmware has
  lent,        \* per port, the buffers a callback has in its hands
  lost,        \* per port, the buffers that could not be sent
  cb,          \* per callback port, what its callback is doing
  shown,       \* the pictures whose vectors were looked at
  vectors,     \* the one in the buffer the encoder's callback has
  last,        \* lastRegions
  staged,      \* MotionData::staging_queue
  frame,       \* the frame RawOutputCallback has in its hands
  ready,       \* MotionData::ready_queue
  consumed,    \* the numbers of the frames the consumer took
  count,       \* pictures and data buffers delivered
  now,         \* the clock
  failures,    \* the calls that failed
  crashed

options == <<overload, preview>>
pipeline == <<made, inline, link>>
port == <<enabled, pools>>
buffers == <<free, sent, lent, lost>>
motion == <<shown, vectors, last, staged, frame, ready, consumed>>
bounds == <<count, now>>
vars == <<options, main, todo, pipeline, port, buffers, cb, motion, bounds, failures, crashed>>

-----------------------------------------------------------------------------
(* The pipeline: its components in the order they are created, each an     *)
(* initialisation of firmware calls.  A failed call ends it, or is logged  *)
(* and forgotten.                                                          *)

Must(name) == [name |-> name, fatal |-> TRUE]
May(name) == [name |-> name, fatal |-> FALSE]

CameraOpened == <<Must("create"), Must("camera number"), May("zero copy"), May("sensor mode"),
                  Must("enable"), May("configuration")>>
CameraFormats == <<Must("preview format"), Must("video format"), Must("still format")>>
CameraInit == CameraOpened \o CameraFormats \o <<Must("enable again"), May("parameters")>>
RendererInit == <<Must("create"), May("zero copy"), Must("display region"), Must("enable")>>
ResizeInit == <<Must("create"), May("zero copy")>>
EncoderCreated == <<Must("create"), May("zero copy"), Must("format")>>
EncoderSettings == <<Must("profile"), May("immutable input"), May("inline headers"),
                     May("inline vectors"), Must("intra refresh"), Must("enable")>>
\* Too many macroblocks end it early, and with the status of the last call.
EncoderInit == EncoderCreated \o IF overload THEN <<>> ELSE EncoderSettings
SplitterInit == <<Must("create"), May("zero copy")>>
NullsinkInit == <<Must("create"), Must("enable"), May("zero copy")>>
OverlayInit == <<Must("create"), Must("format"), Must("enable"), May("zero copy"), Must("pool"),
                 Must("display region"), Must("port enable")>>

Calls(c) == CASE c = "camera" -> CameraInit
              [] c = "renderer" -> RendererInit
              [] c = "resizer" -> ResizeInit
              [] c = "encoder" -> EncoderInit
              [] c = "splitter" -> SplitterInit
              [] c = "nullsink" -> NullsinkInit
              [] c = "overlay" -> OverlayInit

Components == {"camera", "renderer", "resizer", "encoder", "splitter", "nullsink", "overlay"}

\* The sink is made when there is a preview, too, but not the renderer.
CreationMutant == IF preview THEN <<"camera", "resizer", "encoder", "splitter", "nullsink">>
                  ELSE <<"camera", "renderer", "resizer", "encoder", "splitter", "nullsink">>

Creation == IF preview THEN <<"camera", "renderer", "resizer", "encoder", "splitter", "nullsink">>
                       ELSE <<"camera", "resizer", "encoder", "splitter", "nullsink">>

\* The links, each named for the component whose input it feeds, and the
\* formats that are set between them.
Connection == <<IF preview THEN "renderer" ELSE "nullsink",
                "splitter", "duplicate_input", "resizer", "set_output", "encoder">>
Inputs == {"renderer", "nullsink", "splitter", "resizer", "encoder"}

\* The reverse of the members' order.
Destruction == <<"nullsink", "resizer", "splitter", "encoder", "renderer", "camera">>

Init == /\ overload \in BOOLEAN /\ preview \in BOOLEAN
        /\ main = "create" /\ todo = Creation
        /\ made = {} /\ inline = TRUE
        /\ link = [c \in Inputs |-> "unset"]
        /\ enabled = {} /\ pools = {}
        /\ free = [p \in Ports |-> 0] /\ sent = [p \in Ports |-> 0]
        /\ lent = [p \in Ports |-> 0] /\ lost = [p \in Ports |-> 0]
        /\ cb = [p \in CallbackPorts |-> "idle"]
        /\ shown = 0 /\ vectors = {} /\ last = <<>> /\ staged = <<>> /\ frame = <<>>
        /\ ready = <<>> /\ consumed = <<>>
        /\ count = [pictures |-> 0, data |-> 0]
        /\ now = 0 /\ failures = 0 /\ crashed = FALSE

At(place) == ~crashed /\ main = place
Fails == failures < MaxFailures /\ failures' = failures + 1
Works == UNCHANGED failures

-----------------------------------------------------------------------------
(* RPiMotionCam::init().                                                   *)

\* A component that fails is destroyed again, through a pointer that nobody
\* set if it is the creation that failed.
Fault(calls) == \E i \in DOMAIN calls :
                  /\ Fails
                  /\ crashed' \in {FALSE, calls[i].name = "create"}
                  /\ calls[i].fatal

\* create() returns a null pointer, and what was made is destroyed.
GiveUp == main' = "unwind" /\ todo' = Destruction

\* Without a nullsink init() goes on; without any other part it gives up.
CreateComponent ==
  /\ At("create") /\ todo # <<>>
  /\ LET c == Head(todo) IN
       \/ /\ Fault(Calls(c))
          /\ IF c = "nullsink" THEN todo' = Tail(todo) /\ UNCHANGED main
                               ELSE GiveUp
          /\ UNCHANGED <<made, inline>>
       \/ /\ \/ Works /\ UNCHANGED inline
             \/ \E i \in DOMAIN Calls(c) : /\ ~Calls(c)[i].fatal /\ Fails
                                           /\ inline' = (inline /\ Calls(c)[i].name # "inline vectors")
          /\ made' = made \cup {c}
          /\ todo' = Tail(todo)
          /\ UNCHANGED <<main, crashed>>
  /\ UNCHANGED <<options, link, port, buffers, cb, motion, bounds>>

CreateDone ==
  /\ At("create") /\ todo = <<>>
  /\ main' = "connect" /\ todo' = Connection
  /\ UNCHANGED <<options, pipeline, port, buffers, cb, motion, bounds, failures, crashed>>

\* A format the input does not take is only logged.  The caller's pointer is
\* not reset when a connection that cannot be enabled is destroyed.
Connected(c, state) == link' = [link EXCEPT ![c] = state]

ConnectComponent ==
  /\ At("connect") /\ todo # <<>>
  /\ LET c == Head(todo) IN
       IF c \notin Inputs
       THEN /\ UNCHANGED <<link, crashed>>
            /\ \/ Works /\ todo' = Tail(todo) /\ UNCHANGED main
               \/ Fails /\ GiveUp
       ELSE IF c \notin made THEN crashed' = TRUE /\ UNCHANGED <<main, todo, link, failures>>
       ELSE /\ UNCHANGED crashed
            /\ \/ (Works \/ Fails) /\ Connected(c, "live") /\ todo' = Tail(todo) /\ UNCHANGED main
               \/ /\ Fails /\ link' \in {link, [link EXCEPT ![c] = "dangling"]}
                  /\ GiveUp
  /\ UNCHANGED <<options, made, inline, port, buffers, cb, motion, bounds>>

Additions == <<"raw", "overlay", "vectors">>

ConnectDone ==
  /\ At("connect") /\ todo = <<>>
  /\ main' = "callbacks" /\ todo' = Additions
  /\ UNCHANGED <<options, pipeline, port, buffers, cb, motion, bounds, failures, crashed>>

\* MotionVectorPreviewCallback's constructor, which keeps a null pointer if
\* the overlay cannot be created.
CreateOverlay ==
  /\ At("callbacks") /\ todo # <<>> /\ Head(todo) = "overlay"
  /\ \/ /\ preview /\ Fault(OverlayInit)
        /\ UNCHANGED <<made, port, free>>
     \/ /\ preview /\ Works
        /\ made' = made \cup {"overlay"}
        /\ enabled' = enabled \cup {"overlay"} /\ pools' = pools \cup {"overlay"}
        /\ free' = [free EXCEPT !["overlay"] = PoolSize]
        /\ UNCHANGED crashed
     \/ ~preview /\ UNCHANGED <<made, port, free, failures, crashed>>
  /\ todo' = Tail(todo)
  /\ UNCHANGED <<options, main, inline, link, sent, lent, lost, cb, motion, bounds>>

\* RaspiPort::add_callback(): a buffer that cannot be sent stays away, and
\* RPiMotionCam::add_callbacks() succeeds whatever add_callback() returned.
AddCallback ==
  /\ At("callbacks") /\ todo # <<>> /\ Head(todo) \in CallbackPorts
  /\ LET p == Head(todo) IN
          \/ Fails /\ UNCHANGED <<port, buffers>>
          \/ Fails /\ enabled' = enabled \cup {p} /\ UNCHANGED <<pools, buffers>>
          \/ /\ enabled' = enabled \cup {p} /\ pools' = pools \cup {p}
             /\ \/ Works /\ sent' = [sent EXCEPT ![p] = PoolSize] /\ UNCHANGED lost
                \/ /\ Fails /\ sent' = [sent EXCEPT ![p] = PoolSize - 1]
                   /\ lost' = [lost EXCEPT ![p] = 1]
             /\ UNCHANGED <<free, lent>>
  /\ todo' = Tail(todo)
  /\ UNCHANGED <<options, main, pipeline, cb, motion, bounds, crashed>>

\* RPiMotionCam::start().
Start ==
  /\ At("callbacks") /\ todo = <<>>
  /\ \/ Works /\ main' = "running" /\ UNCHANGED todo
     \/ Fails /\ GiveUp
  /\ UNCHANGED <<options, pipeline, port, buffers, cb, motion, bounds, crashed>>

-----------------------------------------------------------------------------
(* RaspiPort::callback_wrapper(), and the callbacks it calls.              *)

Alive == ~crashed /\ main \in {"running", "destroy"}
Flowing(p) == {"camera", "splitter"} \cup (IF p = "raw" THEN {} ELSE {"resizer", "encoder"}) \subseteq made
Doing(p, place) == Alive /\ cb[p] = place
Goes(p, place) == cb' = [cb EXCEPT ![p] = place]

Deliver(p) ==
  /\ Doing(p, "idle") /\ p \in enabled /\ sent[p] > 0 /\ Flowing(p)
  /\ sent' = [sent EXCEPT ![p] = @ - 1] /\ lent' = [lent EXCEPT ![p] = @ + 1]
  /\ UNCHANGED <<options, main, todo, pipeline, port, free, lost, now, failures, crashed>>

\* Only a buffer with side information carries motion vectors; it replaces
\* the last regions, and regions that were found are staged.
VectorsArrive ==
  /\ Deliver("vectors") /\ Goes("vectors", "release")
  /\ ~overload
  /\ \/ /\ inline /\ shown < Len(Pictures)
        /\ shown' = shown + 1
        /\ vectors' \in Pictures[shown + 1]
        /\ last' = RegionsOf(vectors')
        /\ staged' = IF last' = <<>> THEN staged
                     ELSE Append(staged, [n |-> shown', at |-> now, regions |-> last'])
        /\ UNCHANGED count
     \/ /\ count.data < MaxData
        /\ count' = [count EXCEPT !.data = @ + 1]
        /\ UNCHANGED <<shown, vectors, last, staged>>
  /\ UNCHANGED <<frame, ready, consumed>>

PictureArrives ==
  /\ Deliver("raw") /\ Goes("raw", "look")
  /\ count.pictures < MaxPictures
  /\ count' = [count EXCEPT !.pictures = @ + 1]
  /\ UNCHANGED motion

\* What was staged too long ago is dropped, until something fresh turns up.
Look ==
  /\ Doing("raw", "look")
  /\ IF staged = <<>> THEN Goes("raw", "release") /\ UNCHANGED <<staged, frame>>
     ELSE /\ staged' = Tail(staged)
          /\ IF now - Head(staged).at < Timeout
             THEN frame' = <<Head(staged)>> /\ Goes("raw", "cut")
             ELSE UNCHANGED <<frame, cb>>
  /\ UNCHANGED <<options, main, todo, pipeline, port, buffers, shown, vectors, last, ready, consumed,
                 bounds, failures, crashed>>

Cut ==
  /\ Doing("raw", "cut")
  /\ ready' = ready \o frame /\ frame' = <<>>
  /\ Goes("raw", "release")
  /\ UNCHANGED <<options, main, todo, pipeline, port, buffers, shown, vectors, last, staged, consumed,
                 bounds, failures, crashed>>

\* No other buffer is sent for it.
NotResentMutant(p) ==
  /\ Doing(p, "release")
  /\ lent' = [lent EXCEPT ![p] = @ - 1] /\ free' = [free EXCEPT ![p] = @ + 1]
  /\ Goes(p, "post")
  /\ vectors' = IF p = "vectors" THEN {} ELSE vectors
  /\ UNCHANGED <<options, main, todo, pipeline, port, sent, lost, shown, last, staged, frame,
                 ready, consumed, bounds, failures, crashed>>

\* The buffer goes back to the pool.
Release(p) ==
  /\ Doing(p, "release")
  /\ lent' = [lent EXCEPT ![p] = @ - 1] /\ free' = [free EXCEPT ![p] = @ + 1]
  /\ Goes(p, IF p \in enabled THEN "send" ELSE "post")
  /\ vectors' = IF p = "vectors" THEN {} ELSE vectors
  /\ UNCHANGED <<options, main, todo, pipeline, port, sent, lost, shown, last, staged, frame,
                 ready, consumed, bounds, failures, crashed>>

\* The port was seen enabled: another buffer goes to it.  A disabled port
\* takes none.
Send(p) ==
  /\ Doing(p, "send")
  /\ free' = [free EXCEPT ![p] = @ - 1]
  /\ \/ /\ p \in enabled /\ Works
        /\ sent' = [sent EXCEPT ![p] = @ + 1] /\ UNCHANGED lost
     \/ /\ IF p \in enabled THEN Fails ELSE Works
        /\ lost' = [lost EXCEPT ![p] = @ + 1] /\ UNCHANGED sent
  /\ Goes(p, "post")
  /\ UNCHANGED <<options, main, todo, pipeline, port, lent, motion, bounds, crashed>>

NothingToDraw(p) == p = "raw" \/ ~preview \/ last = <<>>

PostProcess(p) ==
  /\ Doing(p, "post") /\ NothingToDraw(p)
  /\ Goes(p, "idle")
  /\ UNCHANGED <<options, main, todo, pipeline, port, buffers, motion, bounds, failures, crashed>>

\* One is kept in reserve.
OverlayFreeMutant == free["overlay"] > 1

OverlayFree == free["overlay"] > 0

\* MotionVectorPreviewCallback::post_process(): waits for a buffer of the
\* overlay, after every buffer of the encoder while there are last regions.
GetOverlayBuffer ==
  /\ Doing("vectors", "post") /\ ~NothingToDraw("vectors")
  /\ IF "overlay" \notin made THEN crashed' = TRUE /\ UNCHANGED <<free, lent, cb>>
     ELSE /\ OverlayFree
          /\ free' = [free EXCEPT !["overlay"] = @ - 1]
          /\ lent' = [lent EXCEPT !["overlay"] = @ + 1]
          /\ Goes("vectors", "draw") /\ UNCHANGED crashed
  /\ UNCHANGED <<options, main, todo, pipeline, port, sent, lost, motion, bounds, failures>>

\* Nobody looks whether it was sent.
SendOverlayBuffer ==
  /\ Doing("vectors", "draw")
  /\ lent' = [lent EXCEPT !["overlay"] = @ - 1]
  /\ \/ Works /\ sent' = [sent EXCEPT !["overlay"] = @ + 1] /\ UNCHANGED lost
     \/ Fails /\ lost' = [lost EXCEPT !["overlay"] = @ + 1] /\ UNCHANGED sent
  /\ Goes("vectors", "idle")
  /\ UNCHANGED <<options, main, todo, pipeline, port, free, motion, bounds, crashed>>

\* RaspiOverlayRenderer::callback_(): the renderer has shown the buffer.
OverlayShown ==
  /\ Alive /\ sent["overlay"] > 0
  /\ sent' = [sent EXCEPT !["overlay"] = @ - 1] /\ free' = [free EXCEPT !["overlay"] = @ + 1]
  /\ UNCHANGED <<options, main, todo, pipeline, port, lent, lost, cb, motion, bounds, failures, crashed>>

\* RPiMotionCam::frame_ready() and get_frame().
GetFrame ==
  /\ At("running") /\ ready # <<>>
  /\ ready' = Tail(ready) /\ consumed' = Append(consumed, Head(ready).n)
  /\ UNCHANGED <<options, main, todo, pipeline, port, buffers, cb, shown, vectors, last, staged, frame,
                 bounds, failures, crashed>>

Tick == /\ At("running") /\ now < MaxTime
        /\ now' = now + 1
        /\ UNCHANGED <<options, main, todo, pipeline, port, buffers, cb, motion, count, failures, crashed>>

-----------------------------------------------------------------------------
(* The destructors.  A port that was never connected looks at a pointer    *)
(* nobody set, which may be anything.                                      *)

Stop == /\ At("running")
        /\ main' = "destroy" /\ todo' = Destruction
        /\ UNCHANGED <<options, pipeline, port, buffers, cb, motion, bounds, failures, crashed>>

CallbackPort(c) == IF c = "splitter" THEN {"raw"} ELSE IF c = "encoder" THEN {"vectors"} ELSE {}
HasBadPointer(c) == c \in {"camera", "resizer", "splitter", "encoder"} \/ link[c] # "live"
Destroying == ~crashed /\ main \in {"unwind", "destroy"}

\* mmal_port_disable() of a component's callback port ...
DisablePort ==
  /\ Destroying /\ todo # <<>> /\ Head(todo) \in made
  /\ \E p \in CallbackPort(Head(todo)) \cap enabled :
       /\ enabled' = enabled \ {p}
       /\ free' = [free EXCEPT ![p] = @ + sent[p]] /\ sent' = [sent EXCEPT ![p] = 0]
  /\ UNCHANGED <<options, main, todo, pipeline, pools, lent, lost, cb, motion, bounds, failures, crashed>>

\* ... returns once its callback has.
Disabled(c) == /\ CallbackPort(c) \cap enabled = {}
               /\ \A p \in CallbackPort(c) : cb[p] = "idle"

\* The pool goes with its component, and the overlay with the callback that
\* draws on it.
Gone(c) == {c} \cup (IF c = "encoder" THEN {"overlay"} ELSE {})
PortsOf(c) == CallbackPort(c) \cup (IF c = "encoder" THEN {"overlay"} ELSE {})

DestroyComponent ==
  /\ Destroying /\ todo # <<>>
  /\ LET c == Head(todo) IN
       IF c \notin made THEN UNCHANGED <<pipeline, port, buffers, crashed>>
       ELSE /\ Disabled(c)
            /\ crashed' \in {FALSE, HasBadPointer(c)}
            /\ made' = made \ Gone(c)
            /\ link' = [k \in Inputs |-> IF k = c THEN "unset" ELSE link[k]]
            /\ enabled' = enabled \ PortsOf(c) /\ pools' = pools \ PortsOf(c)
            /\ free' = [p \in Ports |-> IF p \in PortsOf(c) THEN 0 ELSE free[p]]
            /\ sent' = [p \in Ports |-> IF p \in PortsOf(c) THEN 0 ELSE sent[p]]
            /\ lost' = [p \in Ports |-> IF p \in PortsOf(c) THEN 0 ELSE lost[p]]
            /\ UNCHANGED <<inline, lent>>
  /\ todo' = Tail(todo)
  /\ UNCHANGED <<options, main, cb, motion, bounds, failures>>

Destroyed ==
  /\ Destroying /\ todo = <<>>
  /\ main' = "gone"
  /\ UNCHANGED <<options, todo, pipeline, port, buffers, cb, motion, bounds, failures, crashed>>

-----------------------------------------------------------------------------
MainNext == \/ CreateComponent \/ CreateDone \/ ConnectComponent \/ ConnectDone
            \/ CreateOverlay \/ AddCallback \/ Start \/ Stop
            \/ DisablePort \/ DestroyComponent \/ Destroyed
RawNext == Look \/ Cut \/ Release("raw") \/ Send("raw") \/ PostProcess("raw")
VectorsNext == \/ Release("vectors") \/ Send("vectors") \/ PostProcess("vectors")
               \/ GetOverlayBuffer \/ SendOverlayBuffer
Next == \/ MainNext \/ PictureArrives \/ RawNext \/ VectorsArrive \/ VectorsNext
        \/ OverlayShown \/ GetFrame \/ Tick

\* The firmware's threads run, and so does a destructor once begun; whether
\* there is another picture, or a consumer, is not known.
Fairness == /\ WF_vars(RawNext) /\ WF_vars(VectorsNext) /\ WF_vars(OverlayShown)
            /\ WF_vars(DisablePort \/ DestroyComponent \/ Destroyed)

Spec == Init /\ [][Next]_vars /\ Fairness

-----------------------------------------------------------------------------
TypeOK ==
  /\ main \in {"create", "connect", "callbacks", "running", "unwind", "destroy", "gone"}
  /\ made \subseteq Components /\ link \in [Inputs -> {"unset", "live", "dangling"}]
  /\ enabled \subseteq Ports /\ pools \subseteq Ports
  /\ cb \in [CallbackPorts -> {"idle", "look", "cut", "release", "send", "post", "draw"}]
  /\ {free, sent, lent, lost} \subseteq [Ports -> 0 .. PoolSize]
  /\ frame = <<>> \/ Len(frame) = 1
  /\ now <= MaxTime /\ failures <= MaxFailures /\ crashed \in BOOLEAN

(* RaspiPort.cpp:123-140: every callback gives its port a buffer for the   *)
(* one it took, in whichever order the callbacks of the ports, the overlay *)
(* and a port being disabled come: no port is ever left without a buffer   *)
(* to fill except by calls that failed.                                    *)
PortsStaySupplied ==
  /\ \A p \in pools : free[p] + sent[p] + lent[p] + lost[p] = PoolSize
  /\ \A p \in pools \cap enabled \cap CallbackPorts :
       cb[p] \in {"idle", "post", "draw"} => sent[p] = PoolSize - lost[p]

(* RaspiPort.cpp:9-22, RaspiComponent.cpp:22-28: a camera that could not   *)
(* be created, or was destroyed, leaves nothing behind.                    *)
NothingLeft == main = "gone" => /\ made = {} /\ enabled = {} /\ pools = {}
                                /\ \A c \in Inputs : link[c] # "live"

(* RPiMotionCam.cpp:33-177: while no call of the firmware has failed the   *)
(* camera does not crash before it is destroyed.                           *)
CrashesNeedAFailure == crashed => failures > 0 \/ main = "destroy"

(* RPiMotionCam.cpp:33-177: a camera that runs is connected, and only the  *)
(* nullsink, the overlay and the callbacks can be missing from it, because *)
(* of a failure.                                                           *)
RunsComplete ==
  main = "running" =>
    /\ \A i \in DOMAIN Connection : Connection[i] \in Inputs => link[Connection[i]] = "live"
    /\ {"camera", "resizer", "encoder", "splitter"} \subseteq made
    /\ failures = 0 => /\ CallbackPorts \subseteq enabled \cap pools
                      /\ (preview => "overlay" \in made)

Numbers(s) == [i \in DOMAIN s |-> s[i].n]

(* RawOutputCallback.cpp:17-45, MotionData.cpp: the regions of a picture   *)
(* are cut once at most, and reach the consumer in the order they were     *)
(* found, whatever was dropped between them.                               *)
ReadyInOrder ==
  LET all == consumed \o Numbers(ready) \o Numbers(frame) \o Numbers(staged)
  IN  \A i, j \in DOMAIN all : i < j => all[i] < all[j]

(* RawOutputCallback.cpp:28-36: what is cut lies within the picture, though*)
(* the regions come from another thread's smaller picture.                 *)
RoiInImage ==
  \A i \in DOMAIN ready : \A j \in DOMAIN ready[i].regions :
    LET roi == Roi(ready[i].regions[j])
    IN  roi.x >= 0 /\ roi.y >= 0 /\ roi.x + roi.width <= Width /\ roi.y + roi.height <= Height

(* MotionVectorCallback.cpp:74-95: a cell in motion that no region covers  *)
(* lies to the right of a region: the rest of a row is not looked at once  *)
(* a region is met in it.                                                  *)
MissedOnlyBehindRegions ==
  LET covered == UNION {CellsOf(last[i]) : i \in DOMAIN last}
  IN  \A cell \in vectors \ covered :
        \E col \in 0 .. cell[2] - 1 : <<cell[1], col>> \in covered

(* The life of the camera: built, run and taken apart whole.              *)
LifeCycleOK ==
  /\ TypeOK
  /\ NothingLeft
  /\ CrashesNeedAFailure
  /\ RunsComplete

(* The regions, from the motion vectors to the consumer.                   *)
RegionsOK ==
  /\ MissedOnlyBehindRegions
  /\ RoiInImage
  /\ ReadyInOrder

OverlayStarved == lost["overlay"] = PoolSize

(* MotionVectorPreviewCallback.cpp:14-24: the callback that waits for a    *)
(* buffer of the overlay gets one, unless all of them were lost.           *)
CallbacksReturn == \A p \in CallbackPorts : cb[p] # "idle" ~> cb[p] = "idle" \/ crashed \/ OverlayStarved

(* RaspiPort.cpp:13-22: so the destructors, which wait for the callbacks,  *)
(* end.                                                                    *)
DestructionEnds == main = "destroy" ~> main = "gone" \/ crashed \/ OverlayStarved

(* Nobody waits for ever, but for an overlay whose buffers are all lost.   *)
NobodyWaits == CallbacksReturn /\ DestructionEnds
=============================================================================
