------------------------------ MODULE Recorder ------------------------------
(***************************************************************************)
(* The recorder of tech_tests/RaspiVid.c: main() builds a pipeline of      *)
(* firmware components, opens its files, sends the pools' buffers to the   *)
(* output ports and switches the capture on and off until the run is over; *)
(* meanwhile the firmware's threads call encoder_buffer_callback() and     *)
(* splitter_buffer_callback() with every buffer they have filled.          *)
(*                                                                         *)
(* The components themselves (MMAL) are external: a call may fail when     *)
(* its kind is in Faults, which a sent buffer does not survive; a port     *)
(* that is being disabled hands back the buffers it holds, and             *)
(* mmal_port_disable() returns once it has.                                *)
(***************************************************************************)
EXTENDS RecorderOptions, CircularBuffer, FiniteSets

CONSTANTS
  CommandLines,   \* the command lines, sequences of arguments
  Faults,         \* the kinds of call that may fail
  PoolSize,       \* buffers in a port's pool
  Word,           \* how many values an int has, 2^32 in the code
  CellSize,       \* bytes of the circular buffer that a cell stands for
  BufferUnits,    \* the units of the stream in the largest buffer
  MaxUnits,       \* bound: units of the stream
  MaxGop,         \* bound: frames from one intra frame to the next
  MaxSegments,    \* bound: files opened for one stream after the first
  MaxToggles      \* bound: times the capture is switched

ASSUME RecorderAssumption ==
  /\ {PoolSize, Word, CellSize, BufferUnits, MaxGop} \subseteq Nat \ {0}
  /\ {MaxUnits, MaxSegments, MaxToggles} \subseteq Nat

\* An argument: the option, the numbers and the text that follow it.  "none"
\* is the name of a file that was not given.
Arguments == [cmd : STRING, num : Int, off : Int, name : STRING \ {"none"}]
ASSUME CommandLinesAssumption == CommandLines \subseteq Seq(Arguments)

Ports == {"encoder", "splitter"}
Components == {"camera", "preview", "encoder", "splitter"}
Streams == {"video", "imv", "pts", "raw"}

\* A FILE pointer: NULL, stdout, or the opening of a stream's file, with
\* how many came before it and the number in its name.
Handle(kind, s, n, number) == [kind |-> kind, stream |-> s, opening |-> n, number |-> number]
Null == Handle("null", "", 0, 0)
Stdout == Handle("stdout", "", 0, 0)

VARIABLES
  pc,          \* where main() is
  opts,        \* state: the options, some of which change during the run
  component,   \* the components: "none", "enabled" or "disabled"
  pools,       \* the ports whose pool exists
  connections, \* the connections that exist
  status,      \* main()'s status is MMAL_SUCCESS
  enabled,     \* the ports that are enabled
  held,        \* per port, the buffers it has to fill
  free,        \* per port, the buffers in its pool's queue
  lost,        \* per port, the buffers it was sent in vain while enabled
  callback,    \* per port, what its callback is doing
  files,       \* per stream, the file handle
  open,        \* the files that are open
  abort,       \* callback_data.abort
  ring,        \* the circular buffer
  stream,      \* what the encoder has produced
  saved,       \* what main() has written of the ring
  late,        \* the timeout has passed
  left,        \* buffers main() has still to send to a port
  toggles,     \* what was counted: switches, recordings, segments
  crashed      \* what the process died of, "no" while it has not

pipeline == <<component, pools, connections, status>>
buffers == <<enabled, held, free, lost, callback>>
output == <<files, open, abort>>
data == <<ring, stream, saved>>
run == <<late, left, toggles>>
vars == <<pc, opts, pipeline, buffers, output, data, run, crashed>>

NoToggles == [switched |-> 0, segments |-> 0, recordings |-> 0, initial |-> FALSE]
NoStream == [units |-> 0, keys |-> {}, since |-> 0, inFrame |-> FALSE, key |-> FALSE]

Init == /\ pc = "arguments" /\ opts \in {Default(line) : line \in CommandLines}
        /\ component = [c \in Components |-> "none"]
        /\ pools = {} /\ connections = {} /\ status = TRUE
        /\ enabled = {} /\ held = [p \in Ports |-> 0] /\ free = [p \in Ports |-> 0]
        /\ lost = [p \in Ports |-> 0]
        /\ callback = [p \in Ports |-> "idle"]
        /\ files = [s \in Streams |-> Null] /\ open = {} /\ abort = FALSE
        /\ ring = EmptyRing(0) /\ stream = NoStream /\ saved = <<>>
        /\ late = FALSE /\ left = 0 /\ toggles = NoToggles /\ crashed = "no"

Failure(calls) == {"none"} \cup (IF "component" \in Faults THEN calls ELSE {})
CanFail(kind) == IF kind \in Faults THEN BOOLEAN ELSE {FALSE}
Running == crashed = "no" /\ pc # "exited"
At(place) == Running /\ pc = place
Goto(place) == pc' = place
Crash(how) == crashed' = how

-----------------------------------------------------------------------------
(* The command line.                                                       *)

ParseArgument ==
  /\ At("arguments") /\ opts.argv # <<>>
  /\ LET read == Parse(opts, Head(opts.argv), Len(opts.argv) = 1)
     IN /\ opts' = [read.options EXCEPT !.argv = Tail(@)]
        /\ Goto(IF read.valid THEN "arguments" ELSE "exited")
  /\ UNCHANGED <<pipeline, buffers, output, data, run, crashed>>

Begin == /\ At("arguments") /\ opts.argv = <<>>
         /\ Goto("camera")
         /\ opts' = Parsed(opts)
         /\ UNCHANGED <<pipeline, buffers, output, data, run, crashed>>

-----------------------------------------------------------------------------
(* The components.  A create_ function destroys what it made when a later  *)
(* call of it fails, so a failure leaves nothing of its own.               *)

Created(c) == component' = [component EXCEPT ![c] = "enabled"]
\* main() gives up: the components made before are destroyed, and it returns.
GiveUp == /\ Goto("done")
          /\ component' = [c \in Components |-> "none"]
          /\ pools' = {}
          /\ status' = FALSE

\* A shutter time that does not fit into a frame makes the frame rate variable.
FrameRate(o) == IF o.shutter # 0 /\ o.framerate * o.shutter > 1000000 THEN 0 ELSE o.framerate

\* The calls of create_camera_component whose failure ends it; those that set
\* frame rate ranges, settings events and all other parameters are not checked.
CameraSelected == {"component", "stereo mode", "camera number", "output ports", "sensor mode",
                   "control port"}
CameraFormats == {"viewfinder format", "video format", "still format", "enable"}

CreateCamera ==
  /\ At("camera")
  /\ opts' = [opts EXCEPT !.framerate = FrameRate(opts)]
  /\ \E failed \in Failure(CameraSelected \cup CameraFormats) :
       IF failed # "none" THEN GiveUp
       ELSE Created("camera") /\ Goto("preview") /\ UNCHANGED <<pools, status>>
  /\ UNCHANGED <<connections, buffers, output, data, run, crashed>>

\* Without a preview a null sink takes its place, which has nothing to set.
PreviewCalls == IF opts.preview THEN {"component", "input ports", "display region", "enable"}
                                ELSE {"component", "enable"}

CreatePreview ==
  /\ At("preview")
  /\ \E failed \in Failure(PreviewCalls) :
       IF failed # "none" THEN GiveUp
       ELSE Created("preview") /\ Goto("encoder") /\ UNCHANGED <<pools, status>>
  /\ UNCHANGED <<opts, connections, buffers, output, data, run, crashed>>

Bitrate(o) ==
  LET limit == IF o.encoding = "H264" /\ o.level # "4" THEN 62500000 ELSE 25000000
  IN IF o.bitrate > limit THEN limit ELSE o.bitrate

Macroblocks(o) == LET Blocks(n) == (n + 15) \div 16
                  IN Blocks(o.width) * Blocks(o.height) * o.framerate
TooFast(o) == o.encoding = "H264" /\ Macroblocks(o) > 522240
RaisedLevel(o) == IF o.encoding = "H264" /\ Macroblocks(o) > 245760 /\ ~TooFast(o)
                  THEN "4.2" ELSE o.level

\* mmal_port_pool_create may return NULL, which is only logged.
Pool(p) == \E fails \in CanFail("pool") :
             /\ pools' = IF fails THEN pools ELSE pools \cup {p}
             /\ free' = [free EXCEPT ![p] = IF fails THEN 0 ELSE PoolSize]

\* The encoder's formats; then its parameters, H.264's only when it is used.
EncoderFormats == {"component", "ports", "output format"}
EncoderParameters(o) ==
  {"enable"} \cup
  IF o.encoding # "H264" THEN {}
  ELSE {"profile"} \cup (IF o.intraperiod # -1 THEN {"intra period"} ELSE {})
                   \cup (IF o.quantisation # 0 THEN {"initial QP", "min QP", "max QP"} ELSE {})
                   \cup (IF o.intraRefresh # -1 THEN {"intra refresh"} ELSE {})

\* Asked for too many macroblocks, create_encoder_component destroys the
\* encoder but returns the status of the call before, which is success:
\* main() goes on and reads the ports of a null component.
CreateEncoder ==
  /\ At("encoder")
  /\ opts' = [opts EXCEPT !.bitrate = Bitrate(opts), !.level = RaisedLevel(opts)]
  /\ \E failed \in Failure(EncoderFormats \cup EncoderParameters(opts)) :
       IF failed # "none" THEN GiveUp /\ UNCHANGED <<free, crashed>>
       ELSE IF TooFast(opts)
       THEN Crash("null_component") /\ UNCHANGED <<pc, component, pools, status, free>>
       ELSE /\ Created("encoder") /\ Pool("encoder")
            /\ Goto(IF opts.raw THEN "splitter" ELSE "connect")
            /\ UNCHANGED <<status, crashed>>
  /\ UNCHANGED <<connections, enabled, held, lost, callback, output, data, run>>

SplitterCalls == {"component", "input port", "output ports", "input format", "raw format",
                  "output format", "enable"}

CreateSplitter ==
  /\ At("splitter")
  /\ \E failed \in Failure(SplitterCalls) :
       IF failed # "none" THEN GiveUp /\ UNCHANGED free
       ELSE Created("splitter") /\ Pool("splitter") /\ Goto("connect") /\ UNCHANGED status
  /\ UNCHANGED <<opts, connections, enabled, held, lost, callback, output, data, run,
                 crashed>>

-----------------------------------------------------------------------------
(* The connections, and the splitter's port.                               *)

\* The camera feeds the preview, through the splitter when raw video is
\* wanted.  Losing the preview alone ends the run without an error exit.
ConnectPreview ==
  /\ At("connect")
  /\ \E noSplitter \in CanFail("connection"), noPreview \in CanFail("connection") :
       LET through == opts.raw
           cut == through /\ noSplitter
           dark == opts.preview /\ noPreview
       IN /\ connections' = {c \in {"splitter", "preview"} :
                               \/ c = "splitter" /\ through /\ ~noSplitter
                               \/ c = "preview" /\ opts.preview /\ ~cut /\ ~noPreview}
          /\ status' = (~cut /\ ~dark)
          /\ Goto(IF cut THEN "disable" ELSE IF dark THEN "save" ELSE "connect_encoder")
  /\ UNCHANGED <<opts, component, pools, buffers, output, data, run, crashed>>

ConnectEncoder ==
  /\ At("connect_encoder")
  /\ \E fails \in CanFail("connection") :
       /\ connections' = IF fails THEN connections ELSE connections \cup {"encoder"}
       /\ status' = ~fails
       /\ Goto(IF fails THEN "disable" ELSE "enable_splitter")
  /\ UNCHANGED <<opts, component, pools, buffers, output, data, run, crashed>>

EnableSplitter ==
  /\ At("enable_splitter")
  /\ abort' = FALSE
  /\ \E fails \in CanFail("port") :
       /\ enabled' = IF opts.raw /\ ~fails THEN enabled \cup {"splitter"} ELSE enabled
       /\ status' = ~(opts.raw /\ fails)
       /\ Goto(IF opts.raw /\ fails THEN "disable" ELSE "open")
  /\ UNCHANGED <<opts, component, pools, connections, held, free, lost, callback, files, open,
                 data, run, crashed>>

-----------------------------------------------------------------------------
(* The files.                                                              *)

\* open_filename(): a network name that cannot be used ends the process; any
\* other failure is a null handle.  A listening socket that fails leaves the
\* descriptor unset, and fdopen() of that may give either.
Exits(name) == name = "tcp_malformed" \/ (name = "udp" /\ opts.listen)
SegmentOf(o) == IF o.segmentSize # 0 \/ o.splitWait THEN o.segmentNumber ELSE 0
Opened(s, name, n, number, fails) ==
  CASE name = "none" \/ fails -> Null
    [] name = "-" -> Stdout
    [] OTHER -> Handle("file", s, n, number)

NameOf(s) == CASE s = "video" -> opts.video [] s = "imv" -> opts.imv
               [] s = "pts" -> opts.pts [] s = "raw" -> opts.rawFile

OpenFiles ==
  /\ At("open")
  /\ \E fail \in [Streams -> CanFail("file")] :
       LET handle == [s \in Streams |-> Opened(s, NameOf(s), 0, SegmentOf(opts), fail[s])]
       IN IF \E s \in Streams : Exits(NameOf(s))
          THEN Goto("exited") /\ UNCHANGED <<opts, files, open>>
          ELSE /\ files' = handle
               /\ open' = {handle[s] : s \in Streams} \ {Null, Stdout}
               /\ opts' = [opts EXCEPT
                    !.verbose = @ /\ opts.video # "-",
                    !.vectors = @ /\ (opts.imv = "none" \/ handle["imv"] # Null),
                    !.savePts = @ /\ (opts.pts = "none" \/ handle["pts"] # Null),
                    !.raw = @ /\ (opts.rawFile = "none" \/ handle["raw"] # Null)]
               /\ Goto("allocate")
  /\ UNCHANGED <<pipeline, buffers, abort, data, run, crashed>>

-----------------------------------------------------------------------------
(* The circular buffer, the encoder's port, and the two ways to do nothing. *)

RingWanted == /\ opts.bitrate # 0 /\ opts.timeout # 0
              /\ opts.waitMethod \in {"keypress", "signal"}
              /\ files["video"] # Null

\* The value of an int that was to become n.
AsInt(n) == IF 2 * (n % Word) < Word THEN n % Word ELSE (n % Word) - Word

\* bitrate * (timeout / 1000) / 8 bytes: none for less than a second, few for
\* a small bitrate, and for a large one whatever the product wraps around to.
RingBytes(o) == LET bits == AsInt(o.bitrate * (o.timeout \div 1000))
                IN IF bits < 0 THEN -((-bits) \div 8) ELSE bits \div 8
RingSize(o) == RingBytes(o) \div CellSize

Allocate ==
  /\ At("allocate")
  /\ \E fails \in CanFail("memory") :
       IF ~opts.circular THEN Goto("enable_encoder") /\ UNCHANGED ring
       ELSE IF ~RingWanted \/ RingBytes(opts) < 0 \/ fails THEN Goto("disable") /\ UNCHANGED ring
       ELSE Goto("enable_encoder") /\ ring' = EmptyRing(RingSize(opts))
  /\ UNCHANGED <<opts, pipeline, buffers, output, stream, saved, run, crashed>>

EnableEncoder ==
  /\ At("enable_encoder")
  /\ \E fails \in CanFail("port") :
       /\ enabled' = IF fails THEN enabled ELSE enabled \cup {"encoder"}
       /\ status' = ~fails
       /\ Goto(IF fails THEN "disable" ELSE IF opts.demo THEN "demo"
               ELSE IF files["video"] # Null THEN "send_encoder" ELSE "sleep")
  /\ left' = free["encoder"]
  /\ UNCHANGED <<opts, component, pools, connections, held, free, lost, callback, output,
                 data, late, toggles, crashed>>

\* Demo mode, and a run without a video file: both end with the timeout, and
\* never when there is none.
Idle == /\ Running /\ pc \in {"demo", "sleep"}
        /\ opts.timeout # 0
        /\ Goto("save")
        /\ UNCHANGED <<opts, pipeline, buffers, output, data, run, crashed>>

\* mmal_port_send_buffer(): a failure is only logged, and nobody has the
\* buffer then.
Reaches(p) == /\ held' = [held EXCEPT ![p] = @ + 1] /\ UNCHANGED lost
IsLost(p) == /\ "send" \in Faults
             /\ lost' = [lost EXCEPT ![p] = @ + 1] /\ UNCHANGED held

\* main() reads the length of the pool's queue and sends that many buffers,
\* while the callback may already return some of them.
Send(p, next, more) ==
  IF p \notin pools
  THEN Crash("null_pool") /\ UNCHANGED <<pc, held, free, lost, left>>
  ELSE IF left = 0
  THEN Goto(next) /\ left' = more /\ UNCHANGED <<held, free, lost, crashed>>
  ELSE IF free[p] = 0
  THEN Crash("null_buffer") /\ UNCHANGED <<pc, held, free, lost, left>>
  ELSE /\ Reaches(p) \/ IsLost(p)
       /\ free' = [free EXCEPT ![p] = @ - 1]
       /\ left' = left - 1
       /\ UNCHANGED <<pc, crashed>>

SendToEncoder ==
  /\ At("send_encoder")
  /\ IF opts.raw THEN Send("encoder", "send_splitter", free["splitter"])
                 ELSE Send("encoder", "toggle", 0)
  /\ toggles' = [toggles EXCEPT !.initial = opts.capturing]
  /\ UNCHANGED <<opts, pipeline, enabled, callback, output, data, late>>

SendToSplitter ==
  /\ At("send_splitter")
  /\ Send("splitter", "toggle", 0)
  /\ UNCHANGED <<opts, pipeline, enabled, callback, output, data, late, toggles>>

-----------------------------------------------------------------------------
(* The capture.                                                            *)

\* With -sp a pause asks for a new file, unless it is the pause the run began
\* with.
FirstPauseTooMutant(on) == opts.splitWait /\ ~on
SplitAsked(on) == opts.splitWait /\ ~on /\ ~toggles.initial

\* Each turn of the loop switches the capture.
Toggle ==
  LET on == ~opts.capturing
      split == SplitAsked(on)
  IN /\ At("toggle")
     /\ opts' = [opts EXCEPT !.capturing = on,
                             !.splitNow = @ \/ (split /\ ~(opts.circular /\ ~on))]
     /\ toggles' = [toggles EXCEPT !.switched = @ + 1,
                                   !.recordings = IF ~on /\ toggles.switched > 0 THEN @ + 1 ELSE @,
                                   !.initial = @ /\ ~opts.splitWait]
     /\ Goto(IF opts.circular /\ ~on THEN "save" ELSE "wait")
     /\ UNCHANGED <<pipeline, buffers, output, data, late, left, crashed>>

\* The capture goes on, or the run is over.
Continue(running) == Goto(IF running THEN "toggle" ELSE "save")
InTime(expired) == ~(expired /\ opts.timeout # 0)

\* wait_for_next_change(): "none" waits for the timeout or an abort, "timed"
\* for one of its times or an abort, a key and a signal for just that.
\* "forever" never returns.
Wait(method) ==
  /\ At("wait") /\ opts.waitMethod = method
  /\ UNCHANGED <<opts, pipeline, buffers, output, data, left, toggles, crashed>>

WaitOnce == Wait("none") /\ Goto("save") /\ UNCHANGED late

AbortIgnoredMutant(expired) == InTime(expired)
GoesOn(expired) == InTime(expired) /\ ~abort
WaitTimed == /\ Wait("timed")
             /\ \E expired \in {late, TRUE} :
                  /\ late' = expired
                  /\ Continue(GoesOn(expired))
                  /\ toggles.switched < MaxToggles \/ ~GoesOn(expired)

\* x ends the run.  i, o and r change the zoom, and switch the capture like
\* every other key.
Keys == {"x", "zoom", "enter"}
WaitKey == /\ Wait("keypress")
           /\ \E expired \in {late, TRUE}, key \in Keys :
                LET running == InTime(expired) /\ key # "x"
                IN late' = expired /\ Continue(running)
                   /\ (toggles.switched < MaxToggles \/ ~running)

WaitSignal == /\ Wait("signal")
              /\ \E expired \in {late, TRUE} :
                   /\ late' = expired /\ Continue(InTime(expired))
                   /\ toggles.switched < MaxToggles \/ ~InTime(expired)

-----------------------------------------------------------------------------
(* The callbacks.                                                          *)

\* A port fills a buffer while it is enabled, and hands back those it holds
\* when it is being disabled.
Fills(p) == p \in enabled
Drains(p) == pc = "drain" /\ p \notin enabled
HasBuffer(p) == Running /\ callback[p] = "idle" /\ held[p] > 0

\* The buffer does not go back to the pool.
NotReleasedMutant(p) == /\ held' = [held EXCEPT ![p] = @ - 1] /\ UNCHANGED free
                        /\ callback' = [callback EXCEPT ![p] = "returning"]
\* The buffer goes back to the pool, and the callback will ask for another.
Release(p) == /\ held' = [held EXCEPT ![p] = @ - 1] /\ free' = [free EXCEPT ![p] = @ + 1]
              /\ callback' = [callback EXCEPT ![p] = "returning"]

\* fwrite() to a stream's file.
Write(s, now, nowOpen) ==
  IF now[s] = Null THEN Crash("null_write") /\ UNCHANGED abort
  ELSE IF now[s] # Stdout /\ now[s] \notin nowOpen THEN Crash("closed_write") /\ UNCHANGED abort
  ELSE \E short \in CanFail("write") : abort' = (abort \/ short) /\ UNCHANGED crashed

\* A stream whose name is a file is opened again.
Renewed(s) == s # "raw" /\ NameOf(s) \notin {"none", "-"}
NextNumber(o) == LET n == o.segmentNumber + 1
                 IN IF o.segmentWrap # 0 /\ n > o.segmentWrap THEN 1 ELSE n
Due(over) == \/ opts.segmentSize # 0 /\ over
             \/ opts.splitWait /\ opts.splitNow

\* The old handle stays when the new file does not open.
UncheckedMutant(s, number, fails) ==
  IF Renewed(s) THEN Opened(s, NameOf(s), files[s].opening + 1, number, fails) ELSE files[s]
Reopened(s, number, fails) ==
  IF Renewed(s) /\ ~fails THEN Opened(s, NameOf(s), files[s].opening + 1, number, FALSE)
                          ELSE files[s]

\* A new segment begins with the headers.
Split(fail) ==
  LET number == NextNumber(opts)
      handle == [s \in Streams |-> Reopened(s, number, fail[s])]
      closed == {files[s] : s \in {x \in Streams : handle[x] # files[x]}}
  IN /\ opts' = [opts EXCEPT !.splitNow = FALSE, !.segmentNumber = number]
     /\ toggles' = [toggles EXCEPT !.segments = @ + 1]
     /\ files' = handle
     /\ open' = (open \cup {handle[s] : s \in Streams}) \ (closed \cup {Null, Stdout})
     /\ IF Null \in closed THEN Crash("null_close") /\ UNCHANGED abort
                           ELSE Write("video", handle, open')

\* Headers, to the files.
Headers ==
  /\ HasBuffer("encoder") /\ Fills("encoder") /\ ~opts.circular /\ opts.capturing
  /\ \E over \in {FALSE, toggles.segments < MaxSegments}, fail \in [Streams -> CanFail("file")] :
       IF Due(over) THEN Split(fail)
       ELSE Write("video", files, open) /\ UNCHANGED <<opts, toggles, files, open>>
  /\ Release("encoder")
  /\ UNCHANGED <<pc, pipeline, enabled, lost, data, late, left>>

\* Motion vectors, which are only kept with -x.
SideInfo ==
  /\ HasBuffer("encoder") /\ Fills("encoder") /\ ~opts.circular /\ opts.capturing
  /\ IF opts.vectors THEN Write("imv", files, open) ELSE UNCHANGED <<abort, crashed>>
  /\ Release("encoder")
  /\ UNCHANGED <<pc, opts, pipeline, enabled, lost, files, open, data, run>>

\* With a ring, headers are kept apart and motion vectors are dropped.
RingOther ==
  /\ HasBuffer("encoder") /\ Fills("encoder") /\ opts.circular /\ opts.capturing
  /\ Release("encoder")
  /\ UNCHANGED <<pc, opts, pipeline, enabled, lost, output, data, run, crashed>>

\* A frame, and its time stamp.
Frame ==
  /\ HasBuffer("encoder") /\ Fills("encoder") /\ ~opts.circular /\ opts.capturing
  /\ IF opts.savePts /\ files["pts"] = Null
     THEN Crash("null_write") /\ UNCHANGED abort
     ELSE Write("video", files, open)
  /\ Release("encoder")
  /\ UNCHANGED <<pc, opts, pipeline, enabled, lost, files, open, data, run>>

\* A frame of the stream that goes to the ring: n units, as the first, the
\* last or the only buffer of the frame.
Produced(n, key, last) ==
  [units |-> stream.units + n,
   keys |-> IF key /\ ~stream.inFrame THEN stream.keys \cup {stream.units + 1} ELSE stream.keys,
   since |-> IF stream.inFrame THEN stream.since ELSE IF key THEN 0 ELSE stream.since + 1,
   inFrame |-> ~last, key |-> key]

RingFrame ==
  /\ HasBuffer("encoder") /\ Fills("encoder") /\ opts.circular /\ opts.capturing
  /\ \E n \in 1 .. BufferUnits, key \in BOOLEAN, last \in BOOLEAN :
       /\ stream.units + n <= MaxUnits
       /\ IF stream.inFrame THEN last /\ key = stream.key
          ELSE stream.units = 0 \/ stream.since + 1 = MaxGop => key
       /\ IF Spins(Noted(ring, key, last), n) THEN Crash("spins") /\ UNCHANGED <<ring, stream>>
          ELSE IF Overruns(ring, n) THEN Crash("overrun") /\ UNCHANGED <<ring, stream>>
          ELSE /\ ring' = Pushed(ring, [i \in 1 .. n |-> stream.units + i], key, last)
               /\ stream' = Produced(n, key, last)
               /\ UNCHANGED crashed
  /\ Release("encoder")
  /\ UNCHANGED <<pc, opts, pipeline, enabled, lost, output, saved, run>>

RawFrame ==
  /\ HasBuffer("splitter") /\ Fills("splitter")
  /\ Write("raw", files, open)
  /\ Release("splitter")
  /\ UNCHANGED <<pc, opts, pipeline, enabled, lost, files, open, data, run>>

\* A buffer handed back empty while the port is being disabled.
Flush(p) == /\ HasBuffer(p) /\ Drains(p)
            /\ Release(p)
            /\ UNCHANGED <<pc, opts, pipeline, enabled, lost, output, data, run, crashed>>

\* The rest of a callback: is the port still enabled; take a buffer from the
\* pool; send it, which always fails when the port was disabled meanwhile.
Return(p) ==
  /\ Running /\ callback[p] = "returning"
  /\ IF p \in enabled /\ free[p] > 0
     THEN callback' = [callback EXCEPT ![p] = "sending"] /\ free' = [free EXCEPT ![p] = @ - 1]
     ELSE callback' = [callback EXCEPT ![p] = "idle"] /\ UNCHANGED free
  /\ UNCHANGED <<pc, opts, pipeline, enabled, held, lost, output, data, run, crashed>>
Resend(p) ==
  /\ Running /\ callback[p] = "sending"
  /\ callback' = [callback EXCEPT ![p] = "idle"]
  /\ IF p \in enabled THEN Reaches(p) \/ IsLost(p) ELSE UNCHANGED <<held, lost>>
  /\ UNCHANGED <<pc, opts, pipeline, enabled, free, output, data, run, crashed>>

-----------------------------------------------------------------------------
(* The end.                                                                *)

\* The ring is saved in two pieces, before the encoder's port is disabled.
SaveEnd == /\ At("save")
           /\ IF opts.circular /\ ring.len > 0
              THEN saved' = Cells(ring, From(ring), ToEnd(ring)) /\ Goto("save_start")
              ELSE Goto("disable") /\ UNCHANGED saved
           /\ left' = IF opts.circular /\ ring.len > 0 THEN ToStart(ring) ELSE 0
           /\ UNCHANGED <<opts, pipeline, buffers, output, ring, stream, late, toggles, crashed>>
SaveStart == /\ At("save_start")
             /\ saved' = saved \o Cells(ring, 0, left)
             /\ left' = 0 /\ Goto("disable")
             /\ UNCHANGED <<opts, pipeline, buffers, output, ring, stream, late, toggles, crashed>>

\* mmal_port_disable(): no more buffers are accepted, then those out are
\* waited for.
DisablePorts == /\ At("disable") /\ Goto("drain")
                /\ enabled' = {}
                /\ UNCHANGED <<opts, pipeline, held, free, lost, callback, output, data, run, crashed>>
Drained == \A p \in Ports : held[p] = 0 /\ callback[p] = "idle"

Disconnect == /\ At("drain") /\ Drained
              /\ connections' = {c \in connections : c = "preview" /\ ~opts.preview}
              /\ Goto("close")
              /\ UNCHANGED <<opts, component, pools, status, buffers, output, data, run, crashed>>

CloseFiles == /\ At("close") /\ Goto("components")
              /\ open' = open \ {files[s] : s \in Streams}
              /\ UNCHANGED <<opts, pipeline, buffers, files, abort, data, run, crashed>>

DisableComponents ==
  /\ At("components") /\ Goto("destroy")
  /\ component' = [c \in Components |->
                     IF component[c] = "enabled" THEN "disabled" ELSE component[c]]
  /\ UNCHANGED <<opts, pools, connections, status, buffers, output, data, run, crashed>>

Destroy == /\ At("destroy") /\ Goto("done")
           /\ component' = [c \in Components |-> "none"] /\ pools' = {}
           /\ UNCHANGED <<opts, connections, status, buffers, output, data, run, crashed>>

\* SIGINT ends the process at any time.
Interrupt == /\ Running /\ pc # "done"
             /\ "interrupt" \in Faults
             /\ Goto("exited")
             /\ UNCHANGED <<opts, pipeline, buffers, output, data, run, crashed>>

Over == /\ pc \in {"done", "exited"} \/ crashed # "no"
        /\ UNCHANGED vars

-----------------------------------------------------------------------------
Build == \/ ParseArgument \/ Begin
         \/ CreateCamera \/ CreatePreview \/ CreateEncoder \/ CreateSplitter
         \/ ConnectPreview \/ ConnectEncoder \/ EnableSplitter
         \/ OpenFiles \/ Allocate \/ EnableEncoder
Capture == \/ SendToEncoder \/ SendToSplitter \/ Idle \/ Toggle
           \/ WaitOnce \/ WaitTimed \/ WaitKey \/ WaitSignal
CloseDown == \/ SaveEnd \/ SaveStart \/ DisablePorts \/ Disconnect \/ CloseFiles
             \/ DisableComponents \/ Destroy
Deliver == Headers \/ SideInfo \/ Frame \/ RingFrame \/ RingOther \/ RawFrame
Recycle(p) == Flush(p) \/ Return(p) \/ Resend(p)

Next == \/ Build \/ Capture \/ CloseDown \/ Deliver
        \/ \E p \in Ports : Recycle(p)
        \/ Interrupt \/ Over

\* main() and the callbacks run; a key and a signal may never come, so the
\* waits for those are not fair.
Fairness == /\ WF_vars(Build \/ CloseDown)
            /\ WF_vars(SendToEncoder \/ SendToSplitter \/ Idle \/ Toggle \/ WaitOnce \/ WaitTimed)
            /\ WF_vars(Recycle("encoder")) /\ WF_vars(Recycle("splitter"))

Spec == Init /\ [][Next]_vars /\ Fairness

-----------------------------------------------------------------------------
(* Properties.                                                             *)

TypeOK ==
  /\ component \in [Components -> {"none", "enabled", "disabled"}]
  /\ pools \subseteq {"encoder", "splitter"} /\ enabled \subseteq Ports
  /\ connections \subseteq {"preview", "splitter", "encoder"}
  /\ held \in [Ports -> 0 .. PoolSize] /\ free \in [Ports -> 0 .. PoolSize]
  /\ lost \in [Ports -> 0 .. PoolSize]
  /\ callback \in [Ports -> {"idle", "returning", "sending"}]
  /\ {status, abort, late} \subseteq BOOLEAN
  /\ left \in 0 .. PoolSize + ring.len

\* While main() hands out a pool's buffers and the callback returns them,
\* each is with the port, in the queue or on its way, but those whose sending
\* failed; when the port has been disabled, the one the callback was about to
\* send may be missing, and no other.
Out(p) == held[p] + free[p] + lost[p] + (IF callback[p] = "sending" THEN 1 ELSE 0)
BuffersConserved ==
  \A p \in pools : pc # "done" =>
    Out(p) \in IF p \in enabled THEN {PoolSize} ELSE {PoolSize - 1, PoolSize}

\* What the recorder can die of, and only when: a picture too large for the
\* encoder's level, a pool that could not be made, a ring that the bitrate and
\* the timeout make shorter than a buffer of the encoder, a vectors or time
\* stamp file that opens at a split after it failed at the start, and the loop
\* over the intra frames when the ring holds none.  It never writes to a file
\* that is closed or was never opened, never beyond a ring that takes a
\* buffer, and never misses a buffer it counted, whichever were lost.
KnownCrashes ==
  /\ crashed \in {"no", "null_component", "null_pool", "overrun", "null_close",
                  "spins"}
  /\ crashed = "null_component" => TooFast(opts)
  /\ crashed = "null_pool" => "pool" \in Faults
  /\ crashed = "overrun" => opts.circular /\ ring.len < BufferUnits
  /\ crashed = "null_close" => "file" \in Faults /\ opts.headers
  /\ crashed = "spins" => \A k \in stream.keys : k <= stream.units + BufferUnits - ring.len

\* Whatever the options and whatever failed, main() leaves no component,
\* pool, connection, port or file behind.
NothingLeft == pc = "done" /\ crashed = "no" =>
  /\ \A c \in Components : component[c] = "none"
  /\ pools = {} /\ connections = {} /\ open = {} /\ enabled = {}

\* In whatever order the options came: a run that just waits has a timeout,
\* and a stream that is to be split repeats the headers it is split at.
OptionsAgree == pc \notin {"arguments", "exited"} =>
  /\ opts.waitMethod = "none" => opts.timeout # 0
  /\ opts.segmentSize # 0 \/ opts.splitWait => opts.headers

\* What the recorder takes of MMAL and of files it gives back.
ResourcesOK ==
  /\ TypeOK
  /\ BuffersConserved
  /\ NothingLeft

\* It dies of nothing but what KnownCrashes lists, with options that agree.
RunsSafely ==
  /\ KnownCrashes
  /\ OptionsAgree

\* With -sp alone there is one new file at most for each recording that was
\* paused, and none for the pause a run may begin with.
SplitsFollowRecordings ==
  opts.segmentSize = 0 =>
    toggles.segments + (IF opts.splitNow THEN 1 ELSE 0) <= toggles.recordings

\* What is saved of a ring is the end of the stream in order, from the start
\* of an intra frame (or of the stream) on.
Whole(s) == /\ s = [i \in DOMAIN s |-> stream.units - Len(s) + i]
            /\ s # <<>> => s[1] \in stream.keys
Saved == opts.circular /\ pc \in {"disable", "drain", "close"}

\* That is so after a pause, unless the ring has wrapped around and the intra
\* frame the list starts with has been overwritten or lapped by the writer, or
\* every buffer that reached the end of the ring ended exactly there, which
\* does not count as wrapping around.
Listed == \E k \in stream.keys : k > stream.units - ring.len /\ ring.cells[From(ring)] = k
Unnoticed == stream.units > ring.len /\ ~ring.wrapped
PausedSaveIsWhole ==
  Saved /\ ~opts.capturing /\ ~Unnoticed /\ (ring.wrapped => Listed /\ ~Lapped(ring)) =>
    Whole(saved)

\* A failed write ends a run that waits for the time to pass.
AbortEnds == (abort /\ pc = "wait" /\ opts.waitMethod \in {"none", "timed"})
               ~> (pc \in {"done", "exited"} \/ crashed # "no")
=============================================================================
