---------------------------- MODULE RecorderProofs ----------------------------
(***************************************************************************)
(* What the recorder takes and gives back, and what it can die of, for any *)
(* command lines, pools, rings and faults.                                 *)
(***************************************************************************)
EXTENDS Recorder, WellFoundedInduction, TLAPS

-----------------------------------------------------------------------------
(* The options                                                             *)

Settings == {"argv", "timeout", "width", "height", "encoding", "bitrate", "framerate",
             "level", "waitMethod", "capturing", "headers", "segmentSize", "segmentNumber",
             "splitNow", "splitWait", "circular", "vectors", "savePts", "raw", "verbose",
             "video", "imv", "pts", "rawFile", "preview"}

(* An option that needs a file has been given its name. *)
Sensible(o) ==
    /\ o.bitrate \in Int /\ o.timeout \in Int
    /\ o.waitMethod = "none" => o.timeout # 0
    /\ o.segmentSize # 0 \/ o.splitWait => o.headers
    /\ o.vectors => o.imv # "none"
    /\ o.savePts => o.pts # "none"
    /\ o.raw => o.rawFile # "none"

Keeps(o, read) ==
    /\ DOMAIN read.options = DOMAIN o
    /\ read.options.argv = o.argv /\ read.options.splitNow = o.splitNow
    /\ Sensible(o) /\ read.valid => Sensible(read.options)

LEMMA ParseKeeps ==
  ASSUME NEW o, Settings \subseteq DOMAIN o, NEW a, a.name # "none", a.num \in Int, NEW last
  PROVE  Keeps(o, Parse(o, a, last))
<1> USE DEF Keeps, Valid, Invalid, Settings, Sensible
<1>1. Keeps(o, Valid(o))
  OBVIOUS
<1>2. ASSUME NEW f \in NumberFields PROVE Keeps(o, Number(o, f, a.num))
  BY <1>2 DEF NumberFields, Number
<1>3. ASSUME NEW f \in FlagFields \cup {"headers"} PROVE Keeps(o, Flag(o, f))
  BY <1>3 DEF FlagFields, Flag
<1>4. Keeps(o, FileName(o, "video", a.name)) /\ Keeps(o, Timeout(o, a.num)) /\ Keeps(o, Demo(o, a.num))
  BY DEF FileName, Timeout, Demo
<1>5. Keeps(o, Profile(o, a.name)) /\ Keeps(o, Level(o, a.name)) /\ Keeps(o, Timed(o, a.num, a.off))
  BY DEF Profile, Level, Timed
<1>6. \A m \in {"keypress", "signal"} : Keeps(o, WaitFor(o, m))
  BY DEF WaitFor
<1>7. Keeps(o, InitialState(o, a.name)) /\ Keeps(o, Segment(o, a.num)) /\ Keeps(o, SegmentStart(o, a.num))
  BY DEF InitialState, Segment, SegmentStart
<1>8. Keeps(o, SplitWait(o)) /\ Keeps(o, Vectors(o, a.name)) /\ Keeps(o, SavePts(o, a.name))
  BY DEF SplitWait, Vectors, SavePts, FileName
<1>9. Keeps(o, Raw(o, a.name)) /\ Keeps(o, RawFormat(o, a.name)) /\ Keeps(o, Codec(o, a.name))
  BY DEF Raw, RawFormat, Codec, FileName
<1>10. /\ Keeps(o, Valid([o EXCEPT !.intraRefresh = a.num]))
       /\ Keeps(o, Valid([o EXCEPT !.immutable = FALSE]))
  OBVIOUS
<1>11. Keeps(o, Other(o, a))
  <2>1. Keeps(o, Preview(o, a.num)) /\ Keeps(o, FullScreen(o)) /\ Keeps(o, Opacity(o, a.num))
    BY DEF Preview, FullScreen, Opacity
  <2>2. Keeps(o, NoPreview(o)) /\ Keeps(o, Number(o, "shutter", a.num)) /\ Keeps(o, Invalid(o))
    BY DEF NoPreview, Number
  <2> HIDE DEF Keeps, Valid, Invalid, Settings, Sensible
  <2> QED
    BY <2>1, <2>2 DEF Other
<1> HIDE DEF Keeps, Valid, Invalid, Settings, Sensible
<1> QED
  BY <1>1, <1>2, <1>3, <1>4, <1>5, <1>6, <1>7, <1>8, <1>9, <1>10, <1>11 DEF Parse

OptionsOK ==
    /\ Settings \subseteq DOMAIN opts
    /\ opts.argv \in Seq(Arguments)
    /\ pc # "exited" => Sensible(opts)

(* What never changes once the command line has been read, and what only   *)
(* does when the files are opened.                                         *)
Fixed == {"timeout", "width", "height", "encoding", "waitMethod", "headers", "segmentSize",
          "splitWait", "circular", "video", "imv", "pts", "rawFile", "preview"}
Kept == {"vectors", "savePts", "raw"}

(* Of the options main() changes after Begin, none is one of those.        *)
Tuned(o, p) ==
    /\ DOMAIN p = DOMAIN o
    /\ p.argv = o.argv
    /\ o.bitrate \in Int => p.bitrate \in Int
    /\ \A f \in Fixed \cup Kept : p[f] = o[f]

LEMMA TunedIsSensible ==
  ASSUME NEW o, NEW p, Tuned(o, p), Sensible(o)
  PROVE  Sensible(p)
BY DEF Tuned, Sensible, Fixed, Kept

(* The actions that leave the options alone. *)
LEMMA OptionsStay ==
  ASSUME \/ CreatePreview \/ CreateSplitter \/ ConnectPreview \/ ConnectEncoder \/ EnableSplitter
         \/ Allocate \/ EnableEncoder
         \/ Capture /\ ~Toggle
         \/ CloseDown
         \/ SideInfo \/ Frame \/ RingFrame \/ RingOther \/ RawFrame
         \/ (\E p \in Ports : Recycle(p))
         \/ Interrupt
  PROVE  UNCHANGED opts
BY DEF CreatePreview, CreateSplitter, ConnectPreview, ConnectEncoder, EnableSplitter,
       Allocate, EnableEncoder, Capture, SendToEncoder, SendToSplitter, Idle, Wait, WaitOnce,
       WaitTimed, WaitKey, WaitSignal, CloseDown, SaveEnd, SaveStart, DisablePorts, Disconnect,
       CloseFiles, DisableComponents, Destroy, SideInfo, Frame, RingFrame, RingOther, RawFrame,
       Recycle, Flush, Return, Resend, Interrupt

LEMMA SplitTunes ==
  ASSUME NEW fail, Settings \subseteq DOMAIN opts, Split(fail)
  PROVE  Tuned(opts, opts')
BY DEF Split, Tuned, Fixed, Kept, Settings

(* main() changes options at four more places. *)
LEMMA OptionsAreTuned ==
  ASSUME Settings \subseteq DOMAIN opts, Next, ~ ParseArgument, ~ Begin, ~ OpenFiles
  PROVE  Tuned(opts, opts')
<1> USE DEF Settings, Tuned, Fixed, Kept
<1>1. CASE UNCHANGED opts
  BY <1>1
<1>2. CASE CreateCamera
  BY <1>2 DEF CreateCamera
<1>3. CASE CreateEncoder
  BY <1>3 DEF CreateEncoder, Bitrate
<1>4. CASE Toggle
  BY <1>4 DEF Toggle
<1>5. CASE Headers
  BY <1>5, SplitTunes DEF Headers
<1> HIDE DEF Settings, Tuned, Fixed, Kept
<1>7. CASE Over
  BY <1>1, <1>7 DEF Over, vars
<1> QED
  BY <1>1, <1>2, <1>3, <1>4, <1>5, <1>7, OptionsStay
  DEF Next, Build, Capture, Deliver

LEMMA OptionsInit == Init => OptionsOK
<1> SUFFICES ASSUME Init PROVE OptionsOK
  OBVIOUS
<1>1. PICK line \in CommandLines : opts = Default(line)
  BY DEF Init
<1>2. line \in Seq(Arguments)
  BY <1>1, CommandLinesAssumption
<1> QED
  BY <1>1, <1>2 DEF OptionsOK, Settings, Sensible, Default

LEMMA OptionsNext == OptionsOK /\ [Next]_vars => OptionsOK'
<1> SUFFICES ASSUME OptionsOK, [Next]_vars PROVE OptionsOK'
  OBVIOUS
<1>1. CASE ParseArgument
  <2>1. PICK a \in Arguments : a = Head(opts.argv)
    BY <1>1 DEF ParseArgument, OptionsOK
  <2>2. PICK last : last = (Len(opts.argv) = 1)
    OBVIOUS
  <2>3. PICK read : read = Parse(opts, a, last)
    OBVIOUS
  <2>4. Keeps(opts, read)
    <3>1. a.name # "none" /\ a.num \in Int
      BY <2>1 DEF Arguments
    <3> QED
      BY <2>3, <3>1, ParseKeeps DEF OptionsOK
  <2>5. /\ opts' = [read.options EXCEPT !.argv = Tail(@)]
        /\ pc' = IF read.valid THEN "arguments" ELSE "exited"
    BY <1>1, <2>1, <2>2, <2>3 DEF ParseArgument, Goto
  <2>6. read.options.argv = opts.argv /\ Tail(opts.argv) \in Seq(Arguments)
    BY <1>1, <2>4 DEF Keeps, ParseArgument, OptionsOK
  <2>7. DOMAIN opts' = DOMAIN opts /\ opts'.argv = Tail(opts.argv)
    BY <2>4, <2>5, <2>6 DEF Keeps, OptionsOK, Settings
  <2>8. read.valid => Sensible(opts')
    <3>1. pc # "exited"
      BY <1>1 DEF ParseArgument, At
    <3>2. read.valid => Sensible(read.options)
      BY <2>4, <3>1 DEF OptionsOK, Keeps
    <3>3. \A f \in Fixed \cup Kept \cup {"bitrate"} : opts'[f] = read.options[f]
      BY <2>4, <2>5 DEF Keeps, OptionsOK, Settings, Fixed, Kept
    <3> QED
      BY <3>2, <3>3 DEF Sensible, Fixed, Kept
  <2> QED
    BY <2>5, <2>6, <2>7, <2>8 DEF OptionsOK
<1>2. CASE Begin
  <2>1. Tuned(opts, opts')
    BY <1>2 DEF Begin, Parsed, Tuned, Fixed, Kept, OptionsOK, Settings
  <2> QED
    BY <1>2, <2>1, TunedIsSensible DEF Begin, At, OptionsOK, Tuned
<1>3. CASE OpenFiles
  <2>1. CASE UNCHANGED opts /\ pc' = "exited"
    BY <2>1 DEF OptionsOK
  <2>2. CASE /\ DOMAIN opts' = DOMAIN opts /\ opts'.argv = opts.argv
             /\ \A f \in Fixed \cup {"bitrate"} : opts'[f] = opts[f]
             /\ \A f \in Kept : opts'[f] => opts[f]
    <3>1. Sensible(opts')
      BY <1>3, <2>2 DEF OptionsOK, Sensible, Fixed, Kept, OpenFiles, At
    <3> QED
      BY <2>2, <3>1 DEF OptionsOK
  <2>3. ASSUME NEW handle, opts' = [opts EXCEPT
                    !.verbose = @ /\ opts.video # "-",
                    !.vectors = @ /\ (opts.imv = "none" \/ handle["imv"] # Null),
                    !.savePts = @ /\ (opts.pts = "none" \/ handle["pts"] # Null),
                    !.raw = @ /\ (opts.rawFile = "none" \/ handle["raw"] # Null)]
        PROVE  /\ DOMAIN opts' = DOMAIN opts /\ opts'.argv = opts.argv
               /\ \A f \in Fixed \cup {"bitrate"} : opts'[f] = opts[f]
               /\ \A f \in Kept : opts'[f] => opts[f]
    BY <2>3 DEF Fixed, Kept, OptionsOK, Settings
  <2> QED
    BY <1>3, <2>1, <2>2, <2>3 DEF OpenFiles, Goto
<1>4. CASE Next /\ ~ ParseArgument /\ ~ Begin /\ ~ OpenFiles
  <2>1. Tuned(opts, opts')
    BY <1>4, OptionsAreTuned DEF OptionsOK
  <2>2. pc = "exited" => UNCHANGED <<pc, opts>>
    BY <1>4 DEF Next, Build, ParseArgument, Begin, CreateCamera, CreatePreview, CreateEncoder,
       CreateSplitter, ConnectPreview, ConnectEncoder, EnableSplitter, OpenFiles,
       Allocate, EnableEncoder, Capture, SendToEncoder, SendToSplitter, Idle, Toggle, Wait,
       WaitOnce, WaitTimed, WaitKey, WaitSignal, CloseDown, SaveEnd, SaveStart, DisablePorts,
       Disconnect, CloseFiles, DisableComponents, Destroy, Deliver, Headers, HasBuffer, SideInfo,
       Frame, RingFrame, RingOther, RawFrame, Recycle, Flush, Return, Resend, Interrupt, At,
       Running, Over, vars
  <2>3. pc # "exited" => Sensible(opts')
    BY <2>1, TunedIsSensible DEF OptionsOK
  <2> QED
    BY <2>1, <2>2, <2>3 DEF OptionsOK, Tuned
<1>5. CASE UNCHANGED vars
  BY <1>5 DEF vars, OptionsOK
<1> QED
  BY <1>1, <1>2, <1>3, <1>4, <1>5

-----------------------------------------------------------------------------
(* The buffers                                                             *)

Quiet(p) == held[p] = 0 /\ callback[p] = "idle"
Fresh(p) == Quiet(p) /\ lost[p] = 0 /\ free[p] = IF p \in pools THEN PoolSize ELSE 0
Busy(p) == IF callback[p] = "idle" THEN 0 ELSE 1

Unmade == {"arguments", "camera", "preview", "encoder"}
Unopened == Unmade \cup {"splitter", "connect", "connect_encoder", "enable_splitter"}
Ready == {"open", "allocate", "enable_encoder", "demo", "sleep"}
Ended == {"close", "components", "destroy", "done"}
Places == Unopened \cup Ready \cup Ended \cup
          {"send_encoder", "send_splitter", "toggle", "wait", "save", "save_start", "disable",
           "drain", "exited"}

BufferTypes ==
    /\ pc \in Places
    /\ pools \subseteq Ports /\ enabled \subseteq Ports
    /\ held \in [Ports -> Nat] /\ free \in [Ports -> Nat] /\ lost \in [Ports -> Nat]
    /\ callback \in [Ports -> {"idle", "returning", "sending"}]

(* A buffer is with the port, in the pool's queue, with a callback that is *)
(* about to send it, or was lost when it was sent; if the port is disabled *)
(* before it is sent it is missing, but then the callback takes no other.  *)
Conserved(p) ==
    /\ Out(p) <= PoolSize
    /\ p \in pools /\ pc # "done" =>
         /\ p \in enabled \/ callback[p] = "sending" => Out(p) = PoolSize
         /\ Out(p) \in {PoolSize - 1, PoolSize}

(* What is known of the ports from where main() is.                        *)
Staged ==
    /\ pc \in Unmade => pools = {}
    /\ pc = "splitter" => "splitter" \notin pools
    /\ pc \in Unopened \cup Ended \cup {"drain"} => enabled = {}
    /\ pc \in Unopened \cup Ready => \A p \in Ports : Fresh(p)
    /\ pc \in Ended => \A p \in Ports : Quiet(p)
    /\ pc \in Ready \cup {"send_encoder"} /\ opts.raw => "splitter" \in enabled
    /\ pc = "send_encoder" => "encoder" \in enabled /\ Fresh("splitter")
    /\ pc = "send_splitter" => "splitter" \in enabled /\ opts.raw

(* The buffers main() has counted and not sent yet are still there.        *)
Reserved(p) == /\ left \in 0 .. PoolSize
               /\ p \in pools => held[p] + Busy(p) + lost[p] + left <= PoolSize

Sending == /\ pc = "send_encoder" => Reserved("encoder")
           /\ pc = "send_splitter" => Reserved("splitter")

BuffersOK ==
    /\ BufferTypes
    /\ \A p \in Ports : Conserved(p)
    /\ Staged
    /\ Sending

LEMMA BuffersInit == Init => BuffersOK
<1> SUFFICES ASSUME Init PROVE BuffersOK
  OBVIOUS
<1> QED
  BY RecorderAssumption
  DEF Init, BuffersOK, BufferTypes, Conserved, Staged, Sending, Out, Quiet, Fresh, Unmade,
      Unopened, Ready, Ended, Places

(* Which port a callback may be busy with, where main() is. *)
LEMMA QuietPlaces ==
  ASSUME BuffersOK, NEW p \in Ports, ~ Quiet(p)
  PROVE  /\ pc \notin Unopened \cup Ready \cup Ended
         /\ pc = "send_encoder" => p # "splitter"
BY DEF BuffersOK, Staged, Fresh

LEMMA ReleaseKeeps ==
  ASSUME BuffersOK, NEW p \in Ports, HasBuffer(p), Release(p),
         UNCHANGED <<pc, pools, enabled, lost, left>>, opts'.raw = opts.raw
  PROVE  BuffersOK'
<1>1. ~ Quiet(p) /\ held[p] > 0 /\ callback[p] = "idle"
  BY DEF HasBuffer, Quiet
<1>2. BufferTypes'
  BY <1>1 DEF BuffersOK, BufferTypes, Release
<1>3. /\ held'[p] = held[p] - 1 /\ free'[p] = free[p] + 1 /\ callback'[p] = "returning"
      /\ \A q \in Ports \ {p} : held'[q] = held[q] /\ free'[q] = free[q] /\ callback'[q] = callback[q]
  BY DEF BuffersOK, BufferTypes, Release
<1>4. held[p] \in Nat /\ free[p] \in Nat /\ lost[p] \in Nat
  BY DEF BuffersOK, BufferTypes
<1>5. ASSUME NEW q \in Ports PROVE Conserved(q)'
  <2>1. CASE q = p
    BY <1>1, <1>3, <1>4, <2>1 DEF BuffersOK, Conserved, Out
  <2>2. CASE q # p
    BY <1>3, <2>2 DEF BuffersOK, Conserved, Out
  <2> QED
    BY <2>1, <2>2
<1>6. Staged'
  BY <1>1, <1>3, QuietPlaces DEF BuffersOK, Staged, Fresh, Quiet, Ports, Unmade, Unopened
<1>7. Sending'
  BY <1>1, <1>3, <1>4 DEF BuffersOK, Sending, Reserved, Busy, Ports
<1> QED
  BY <1>2, <1>5, <1>6, <1>7 DEF BuffersOK

LEMMA ReturnKeeps ==
  ASSUME BuffersOK, NEW p \in Ports, Return(p)
  PROVE  BuffersOK'
<1>1. /\ ~ Quiet(p) /\ callback[p] = "returning"
      /\ UNCHANGED <<pc, pools, enabled, left, held, lost>> /\ opts'.raw = opts.raw
  BY DEF Return, Quiet, pipeline, run
<1>2. \/ /\ p \in enabled /\ free[p] > 0 /\ callback'[p] = "sending" /\ free'[p] = free[p] - 1
      \/ callback'[p] = "idle" /\ free'[p] = free[p]
  BY DEF BuffersOK, BufferTypes, Return
<1>3. \A q \in Ports \ {p} : free'[q] = free[q] /\ callback'[q] = callback[q]
  BY DEF BuffersOK, BufferTypes, Return
<1>4. BufferTypes'
  BY <1>1 DEF BuffersOK, BufferTypes, Return
<1>5. held[p] \in Nat /\ free[p] \in Nat /\ \A q \in Ports : lost[q] \in Nat
  BY DEF BuffersOK, BufferTypes
<1>6. ASSUME NEW q \in Ports PROVE Conserved(q)'
  <2>1. CASE q = p
    BY <1>1, <1>2, <1>5, <2>1 DEF BuffersOK, Conserved, Out
  <2>2. CASE q # p
    BY <1>1, <1>3, <2>2 DEF BuffersOK, Conserved, Out
  <2> QED
    BY <2>1, <2>2
<1>7. Staged'
  BY <1>1, <1>3, QuietPlaces DEF BuffersOK, Staged, Fresh, Quiet, Ports, Unmade, Unopened
<1>8. Sending'
  <2>1. held'[p] + Busy(p)' <= held[p] + Busy(p)
    BY <1>1, <1>2, <1>5 DEF Busy
  <2>2. \A q \in Ports \ {p} : held'[q] + Busy(q)' = held[q] + Busy(q)
    BY <1>1, <1>3 DEF Busy
  <2>3. held'[p] + Busy(p)' \in Nat /\ held[p] + Busy(p) \in Nat
    BY <1>1, <1>2, <1>5 DEF Busy
  <2>4. \A q \in Ports : Reserved(q) => Reserved(q)'
    <3> SUFFICES ASSUME NEW q \in Ports, Reserved(q) PROVE Reserved(q)'
      OBVIOUS
    <3>1. CASE q = p
      <4>1. lost'[p] = lost[p] /\ lost[p] \in Nat /\ left' = left /\ pools' = pools
        BY <1>1, <1>5
      <4>2. /\ left \in 0 .. PoolSize
            /\ p \in pools => (held[p] + Busy(p)) + lost[p] + left <= PoolSize
        BY <3>1 DEF Reserved
      <4>3. p \in pools => (held'[p] + Busy(p)') + lost[p] + left <= PoolSize
        BY <2>1, <2>3, <4>1, <4>2, RecorderAssumption
      <4> QED
        BY <3>1, <4>1, <4>2, <4>3 DEF Reserved
    <3>2. CASE q # p
      BY <1>1, <2>2, <3>2 DEF Reserved
    <3> QED
      BY <3>1, <3>2
  <2> QED
    BY <1>1, <2>4 DEF BuffersOK, Sending, Ports
<1> QED
  BY <1>4, <1>6, <1>7, <1>8 DEF BuffersOK

LEMMA ResendKeeps ==
  ASSUME BuffersOK, NEW p \in Ports, Resend(p)
  PROVE  BuffersOK'
<1>1. /\ ~ Quiet(p) /\ callback[p] = "sending"
      /\ UNCHANGED <<pc, pools, enabled, left, free>> /\ opts'.raw = opts.raw
  BY DEF Resend, Quiet, pipeline, run
<1>2. /\ callback'[p] = "idle"
      /\ \/ p \in enabled /\ held'[p] = held[p] + 1 /\ lost'[p] = lost[p]
         \/ p \in enabled /\ held'[p] = held[p] /\ lost'[p] = lost[p] + 1
         \/ p \notin enabled /\ held'[p] = held[p] /\ lost'[p] = lost[p]
  BY DEF BuffersOK, BufferTypes, Resend, Reaches, IsLost
<1>3. \A q \in Ports \ {p} : /\ held'[q] = held[q] /\ callback'[q] = callback[q]
                            /\ lost'[q] = lost[q]
  BY DEF BuffersOK, BufferTypes, Resend, Reaches, IsLost
<1>4. BufferTypes'
  BY <1>1 DEF BuffersOK, BufferTypes, Resend, Reaches, IsLost
<1>5. held[p] \in Nat /\ free[p] \in Nat /\ \A q \in Ports : lost[q] \in Nat
  BY DEF BuffersOK, BufferTypes
<1>6. ASSUME NEW q \in Ports PROVE Conserved(q)'
  <2>1. CASE q = p
    BY <1>1, <1>2, <1>5, <2>1, RecorderAssumption DEF BuffersOK, Conserved, Out
  <2>2. CASE q # p
    BY <1>1, <1>3, <2>2 DEF BuffersOK, Conserved, Out
  <2> QED
    BY <2>1, <2>2
<1>7. Staged'
  BY <1>1, <1>3, QuietPlaces DEF BuffersOK, Staged, Fresh, Quiet, Ports, Unmade, Unopened
<1>8. Sending'
  <2>1. held'[p] + Busy(p)' + lost'[p] <= held[p] + Busy(p) + lost[p]
    BY <1>1, <1>2, <1>5 DEF Busy
  <2>2. \A q \in Ports \ {p} : held'[q] + Busy(q)' + lost'[q] = held[q] + Busy(q) + lost[q]
    BY <1>1, <1>3 DEF Busy
  <2>3. /\ held'[p] + Busy(p)' + lost'[p] \in Nat
        /\ held[p] + Busy(p) + lost[p] \in Nat
    BY <1>1, <1>2, <1>5 DEF Busy
  <2>4. \A q \in Ports : Reserved(q) => Reserved(q)'
    <3> SUFFICES ASSUME NEW q \in Ports, Reserved(q) PROVE Reserved(q)'
      OBVIOUS
    <3>1. CASE q = p
      BY <1>1, <2>1, <2>3, <3>1, RecorderAssumption DEF Reserved
    <3>2. CASE q # p
      BY <1>1, <2>2, <3>2 DEF Reserved
    <3> QED
      BY <3>1, <3>2
  <2> QED
    BY <1>1, <2>4 DEF BuffersOK, Sending, Ports
<1> QED
  BY <1>4, <1>6, <1>7, <1>8 DEF BuffersOK

(* A buffer that was counted is there: the pool's queue is never empty     *)
(* when main() asks it for one.                                            *)
LEMMA CountedIsFree ==
  ASSUME BuffersOK, NEW p \in pools, p \in enabled, pc # "done", Reserved(p), left # 0
  PROVE  free[p] > 0
<1>1. held[p] \in Nat /\ free[p] \in Nat /\ lost[p] \in Nat /\ PoolSize \in Nat
  BY RecorderAssumption DEF BuffersOK, BufferTypes
<1>2. Out(p) = PoolSize
  BY DEF BuffersOK, BufferTypes, Conserved
<1> QED
  BY <1>1, <1>2 DEF Reserved, Out, Busy

LEMMA SendKeeps ==
  ASSUME BuffersOK, NEW p \in Ports, NEW next, NEW more, Send(p, next, more),
         UNCHANGED <<pools, enabled, callback>>, opts'.raw = opts.raw,
         \/ pc = "send_encoder" /\ p = "encoder"
         \/ pc = "send_splitter" /\ p = "splitter",
         \/ next = "toggle"
         \/ next = "send_splitter" /\ pc = "send_encoder" /\ opts.raw /\ more = free["splitter"]
  PROVE  BuffersOK'
<1>1. CASE UNCHANGED <<pc, held, free, lost, left>>
  BY <1>1 DEF BuffersOK, BufferTypes, Conserved, Out, Staged, Fresh, Quiet, Sending, Reserved, Busy
<1>2. CASE /\ left # 0 /\ free[p] # 0 /\ p \in pools
           /\ Reaches(p) \/ IsLost(p)
           /\ free' = [free EXCEPT ![p] = @ - 1]
           /\ left' = left - 1
           /\ UNCHANGED pc
  <2>1. /\ \/ held'[p] = held[p] + 1 /\ lost'[p] = lost[p]
           \/ held'[p] = held[p] /\ lost'[p] = lost[p] + 1
        /\ free'[p] = free[p] - 1
        /\ \A q \in Ports \ {p} : /\ held'[q] = held[q] /\ free'[q] = free[q]
                                /\ lost'[q] = lost[q]
    BY <1>2 DEF BuffersOK, BufferTypes, Reaches, IsLost
  <2>2. held[p] \in Nat /\ free[p] \in Nat /\ lost[p] \in Nat
    BY DEF BuffersOK, BufferTypes
  <2>3. BufferTypes'
    BY <1>2, <2>2 DEF BuffersOK, BufferTypes, Reaches, IsLost
  <2>4. ASSUME NEW q \in Ports PROVE Conserved(q)'
    <3>1. CASE q = p
      BY <1>2, <2>1, <2>2, <3>1 DEF BuffersOK, Conserved, Out
    <3>2. CASE q # p
      BY <1>2, <2>1, <3>2 DEF BuffersOK, Conserved, Out
    <3> QED
      BY <3>1, <3>2
  <2>5. Staged'
    BY <1>2, <2>1 DEF BuffersOK, Staged, Fresh, Quiet, Ports, Unmade, Unopened, Ready, Ended
  <2>6. Sending'
    BY <1>2, <2>1, <2>2, RecorderAssumption DEF BuffersOK, Sending, Reserved, Busy
  <2> QED
    BY <2>3, <2>4, <2>5, <2>6 DEF BuffersOK
<1>3. CASE pc' = next /\ left' = more /\ UNCHANGED <<held, free, lost>>
  <2>1. BufferTypes'
    BY <1>3 DEF BuffersOK, BufferTypes, Places
  <2>2. \A q \in Ports : Conserved(q)'
    BY <1>3 DEF BuffersOK, Conserved, Out
  <2>3. Staged' /\ Sending'
    BY <1>3, RecorderAssumption
    DEF BuffersOK, Staged, Fresh, Quiet, Sending, Reserved, Busy, Ports, Unmade, Unopened, Ready, Ended
  <2> QED
    BY <2>1, <2>2, <2>3 DEF BuffersOK
<1> QED
  BY <1>1, <1>2, <1>3 DEF Send, Goto

LEMMA SteadyKeeps ==
  ASSUME BuffersOK, UNCHANGED <<pools, held, free, lost, callback>>,
         enabled' \subseteq Ports, \A p \in enabled' \ enabled : Fresh(p),
         pc = "done" => pc' = "done", pc' \in Places, Staged', Sending'
  PROVE  BuffersOK'
<1>1. BufferTypes'
  BY DEF BuffersOK, BufferTypes
<1>2. ASSUME NEW p \in Ports PROVE Conserved(p)'
  <2>1. Out(p)' = Out(p)
    BY DEF Out
  <2>2. p \in pools /\ Fresh(p) => Out(p) = PoolSize
    BY RecorderAssumption DEF Fresh, Quiet, Out
  <2> QED
    BY <2>1, <2>2 DEF BuffersOK, Conserved
<1> QED
  BY <1>1, <1>2 DEF BuffersOK

(* main() gives up while it builds the pipeline: nothing was sent yet. *)
LEMMA GiveUpKeeps ==
  ASSUME BuffersOK, pc \in Unopened, GiveUp, UNCHANGED <<enabled, held, lost, callback>>,
         free' = free
  PROVE  BuffersOK'
<1>1. pc' = "done" /\ pools' = {}
  BY DEF GiveUp, Goto
<1>2. BufferTypes' /\ \A p \in Ports : Conserved(p)'
  BY <1>1 DEF BuffersOK, BufferTypes, Conserved, Out, Places, Ended
<1>3. Staged' /\ Sending'
  BY <1>1 DEF BuffersOK, Staged, Fresh, Quiet, Sending, Unmade, Unopened, Ready, Ended
<1> QED
  BY <1>2, <1>3 DEF BuffersOK

LEMMA PoolKeeps ==
  ASSUME BuffersOK, NEW p \in Ports, Pool(p), UNCHANGED <<enabled, held, lost, callback>>,
         \/ pc = "encoder" /\ p = "encoder" /\ pc' \in {"splitter", "connect"}
         \/ pc = "splitter" /\ p = "splitter" /\ pc' = "connect"
  PROVE  BuffersOK'
<1>1. PICK fails \in BOOLEAN : /\ pools' = IF fails THEN pools ELSE pools \cup {p}
                               /\ free' = [free EXCEPT ![p] = IF fails THEN 0 ELSE PoolSize]
  BY DEF Pool, CanFail
<1>2. p \notin pools /\ \A q \in Ports : Fresh(q)
  BY DEF BuffersOK, Staged, Unmade, Unopened
<1>3. /\ free' \in [Ports -> Nat]
      /\ \A q \in Ports : Fresh(q)'
  BY <1>1, <1>2, RecorderAssumption DEF BuffersOK, BufferTypes, Fresh, Quiet
<1>4. BufferTypes'
  BY <1>1, <1>3 DEF BuffersOK, BufferTypes, Places, Unopened
<1>5. \A q \in Ports : Conserved(q)'
  BY <1>3, RecorderAssumption DEF Conserved, Out, Fresh, Quiet
<1>6. Staged' /\ Sending'
  BY <1>1, <1>3 DEF BuffersOK, Staged, Sending, Unmade, Unopened, Ready, Ended, Ports
<1> QED
  BY <1>4, <1>5, <1>6 DEF BuffersOK

LEMMA BuildKeepsBuffers ==
  ASSUME OptionsOK, BuffersOK, Build
  PROVE  BuffersOK'
<1> USE DEF Places, Unmade, Unopened, Ready, Ended, At, Goto
<1>1. CASE ParseArgument \/ Begin
  <2>1. UNCHANGED <<pools, enabled, held, free, lost, callback>> /\ pc \in {"arguments", "camera"}
        /\ pc' \in {"arguments", "camera", "exited"}
    BY <1>1 DEF ParseArgument, Begin, pipeline, buffers
  <2> QED
    BY <1>1, <2>1, SteadyKeeps DEF ParseArgument, Begin, BuffersOK, BufferTypes, Staged, Fresh, Quiet, Sending
<1>2. CASE CreateCamera \/ CreatePreview
  <2>1. CASE GiveUp
    BY <1>2, <2>1, GiveUpKeeps DEF CreateCamera, CreatePreview, buffers
  <2>2. CASE UNCHANGED pools /\ pc' \in {"preview", "encoder"}
    BY <1>2, <2>2, SteadyKeeps
    DEF CreateCamera, CreatePreview, buffers, BuffersOK, BufferTypes, Staged, Fresh, Quiet, Sending
  <2> QED
    BY <1>2, <2>1, <2>2 DEF CreateCamera, CreatePreview
<1>3. CASE CreateEncoder
  <2>1. CASE GiveUp /\ UNCHANGED free
    BY <1>3, <2>1, GiveUpKeeps DEF CreateEncoder
  <2>2. CASE UNCHANGED <<pc, pools, free>>
    BY <1>3, <2>2, SteadyKeeps
    DEF CreateEncoder, BuffersOK, BufferTypes, Staged, Fresh, Quiet, Sending
  <2>3. CASE Pool("encoder") /\ pc' \in {"splitter", "connect"}
    BY <1>3, <2>3, PoolKeeps DEF CreateEncoder, Ports
  <2> QED
    BY <1>3, <2>1, <2>2, <2>3 DEF CreateEncoder
<1>4. CASE CreateSplitter
  <2>1. CASE GiveUp /\ UNCHANGED free
    BY <1>4, <2>1, GiveUpKeeps DEF CreateSplitter
  <2>2. CASE Pool("splitter") /\ pc' = "connect"
    BY <1>4, <2>2, PoolKeeps DEF CreateSplitter, Ports
  <2> QED
    BY <1>4, <2>1, <2>2 DEF CreateSplitter
<1>5. CASE ConnectPreview \/ ConnectEncoder
  <2>1. UNCHANGED <<pools, enabled, held, free, lost, callback>> /\ pc \in {"connect", "connect_encoder"}
        /\ pc' \in {"disable", "save", "connect_encoder", "enable_splitter"}
    BY <1>5 DEF ConnectPreview, ConnectEncoder, buffers
  <2> QED
    BY <2>1, SteadyKeeps DEF BuffersOK, BufferTypes, Staged, Fresh, Quiet, Sending
<1>6. CASE EnableSplitter
  <2>1. PICK fails \in BOOLEAN :
          /\ enabled' = IF opts.raw /\ ~fails THEN enabled \cup {"splitter"} ELSE enabled
          /\ pc' = IF opts.raw /\ fails THEN "disable" ELSE "open"
    BY <1>6 DEF EnableSplitter, CanFail
  <2>2. UNCHANGED <<opts, pools, held, free, lost, callback>> /\ pc = "enable_splitter"
    BY <1>6 DEF EnableSplitter
  <2> QED
    BY <2>1, <2>2, SteadyKeeps DEF BuffersOK, BufferTypes, Staged, Fresh, Quiet, Sending, Ports
<1>7. CASE OpenFiles
  <2>1. UNCHANGED <<pools, enabled, held, free, lost, callback>> /\ pc = "open"
        /\ pc' \in {"exited", "allocate"}
    BY <1>7 DEF OpenFiles, pipeline, buffers
  <2>2. opts'.raw => opts.raw
    BY <1>7 DEF OpenFiles, OptionsOK, Settings
  <2> QED
    BY <2>1, <2>2, SteadyKeeps DEF BuffersOK, BufferTypes, Staged, Fresh, Quiet, Sending
<1>8. CASE Allocate
  <2>1. UNCHANGED <<opts, pools, enabled, held, free, lost, callback>> /\ pc = "allocate"
        /\ pc' \in {"enable_encoder", "disable"}
    BY <1>8 DEF Allocate, pipeline, buffers
  <2> QED
    BY <2>1, SteadyKeeps DEF BuffersOK, BufferTypes, Staged, Fresh, Quiet, Sending
<1>9. CASE EnableEncoder
  <2>1. PICK fails \in BOOLEAN :
          /\ enabled' = IF fails THEN enabled ELSE enabled \cup {"encoder"}
          /\ pc' = (IF fails THEN "disable" ELSE IF opts.demo THEN "demo"
                    ELSE IF files["video"] # Null THEN "send_encoder" ELSE "sleep")
    BY <1>9 DEF EnableEncoder, CanFail
  <2>2. UNCHANGED <<opts, pools, held, free, lost, callback>> /\ pc = "enable_encoder"
        /\ left' = free["encoder"]
    BY <1>9 DEF EnableEncoder
  <2>3. Sending'
    BY <2>1, <2>2, RecorderAssumption DEF BuffersOK, Staged, Fresh, Quiet, Sending, Reserved, Busy, Ports
  <2> QED
    BY <2>1, <2>2, <2>3, SteadyKeeps DEF BuffersOK, BufferTypes, Staged, Fresh, Quiet, Ports
<1> QED
  BY <1>1, <1>2, <1>3, <1>4, <1>5, <1>6, <1>7, <1>8, <1>9 DEF Build

LEMMA CaptureKeepsBuffers ==
  ASSUME OptionsOK, BuffersOK, Capture
  PROVE  BuffersOK'
<1>1. CASE SendToEncoder
  <2>1. pc = "send_encoder" /\ UNCHANGED <<opts, pools, enabled, callback>>
    BY <1>1 DEF SendToEncoder, At, pipeline
  <2>2. \/ opts.raw /\ Send("encoder", "send_splitter", free["splitter"])
        \/ Send("encoder", "toggle", 0)
    BY <1>1 DEF SendToEncoder
  <2>3. "encoder" \in Ports
    BY DEF Ports
  <2>4. PICK more : more = free["splitter"]
    OBVIOUS
  <2>5. CASE opts.raw /\ Send("encoder", "send_splitter", more)
    BY <2>1, <2>3, <2>4, <2>5, SendKeeps
  <2>6. CASE Send("encoder", "toggle", 0)
    BY <2>1, <2>3, <2>6, SendKeeps
  <2> QED
    BY <2>2, <2>4, <2>5, <2>6
<1>2. CASE SendToSplitter
  <2>1. /\ pc = "send_splitter" /\ UNCHANGED <<opts, pools, enabled, callback>>
        /\ Send("splitter", "toggle", 0)
    BY <1>2 DEF SendToSplitter, At, pipeline
  <2>2. "splitter" \in Ports
    BY DEF Ports
  <2> QED
    BY <2>1, <2>2, SendKeeps
<1>3. CASE \/ Idle \/ Toggle \/ WaitOnce \/ WaitTimed \/ WaitKey \/ WaitSignal
  <2>1. /\ UNCHANGED <<pools, enabled, held, free, lost, callback>>
        /\ pc \in {"demo", "sleep", "toggle", "wait"}
        /\ pc' \in {"save", "wait", "toggle"}
    BY <1>3
    DEF Idle, Toggle, WaitOnce, WaitTimed, WaitKey, WaitSignal, Wait, Continue, Goto, At,
        pipeline, buffers
  <2> QED
    BY <2>1, SteadyKeeps DEF BuffersOK, BufferTypes, Staged, Sending, Places, Unmade, Unopened, Ready, Ended
<1> QED
  BY <1>1, <1>2, <1>3 DEF Capture

LEMMA CloseKeepsBuffers ==
  ASSUME OptionsOK, BuffersOK, CloseDown
  PROVE  BuffersOK'
<1> USE DEF Places, Unmade, Unopened, Ready, Ended, At, Goto
<1>1. CASE SaveEnd \/ SaveStart \/ DisablePorts
  <2>1. /\ UNCHANGED <<pools, held, free, lost, callback>>
        /\ pc \in {"save", "save_start", "disable"}
        /\ \/ pc' \in {"save_start", "disable"} /\ enabled' = enabled
           \/ pc' = "drain" /\ enabled' = {}
    BY <1>1 DEF SaveEnd, SaveStart, DisablePorts, pipeline, buffers
  <2> QED
    BY <2>1, SteadyKeeps DEF BuffersOK, BufferTypes, Staged, Sending
<1>2. CASE Disconnect \/ CloseFiles \/ DisableComponents
  <2>1. /\ UNCHANGED <<pools, enabled, held, free, lost, callback>>
        /\ pc \in {"drain", "close", "components"}
        /\ pc' \in {"close", "components", "destroy"}
        /\ pc = "drain" => \A p \in Ports : Quiet(p)
    BY <1>2 DEF Disconnect, CloseFiles, DisableComponents, pipeline, buffers, Drained, Quiet
  <2> QED
    BY <2>1, SteadyKeeps DEF BuffersOK, BufferTypes, Staged, Quiet, Sending
<1>3. CASE Destroy
  <2>1. /\ UNCHANGED <<enabled, held, free, lost, callback>> /\ pc = "destroy" /\ pc' = "done"
        /\ pools' = {}
    BY <1>3 DEF Destroy, buffers
  <2>2. BufferTypes' /\ \A p \in Ports : Conserved(p)'
    BY <2>1 DEF BuffersOK, BufferTypes, Conserved, Out
  <2>3. Staged' /\ Sending'
    BY <2>1 DEF BuffersOK, Staged, Quiet, Sending
  <2> QED
    BY <2>2, <2>3 DEF BuffersOK
<1> QED
  BY <1>1, <1>2, <1>3 DEF CloseDown

LEMMA DeliverKeepsBuffers ==
  ASSUME OptionsOK, BuffersOK, Deliver
  PROVE  BuffersOK'
<1>1. PICK p \in Ports : /\ HasBuffer(p) /\ Release(p)
                         /\ UNCHANGED <<pc, pools, enabled, lost, left>>
  BY DEF Deliver, Headers, SideInfo, Frame, RingFrame, RingOther, RawFrame, Ports, pipeline, run
<1>2. opts'.raw = opts.raw
  <2>1. CASE Headers
    BY <2>1, SplitTunes DEF Headers, OptionsOK, Tuned, Kept
  <2>2. CASE SideInfo \/ Frame \/ RingFrame \/ RingOther \/ RawFrame
    BY <2>2, OptionsStay
  <2> QED
    BY <2>1, <2>2 DEF Deliver
<1> QED
  BY <1>1, <1>2, ReleaseKeeps

LEMMA BuffersNext == OptionsOK /\ BuffersOK /\ [Next]_vars => BuffersOK'
<1> SUFFICES ASSUME OptionsOK, BuffersOK, [Next]_vars PROVE BuffersOK'
  OBVIOUS
<1>1. ASSUME NEW p \in Ports, Recycle(p) PROVE BuffersOK'
  <2>1. CASE Flush(p)
    BY <2>1, ReleaseKeeps DEF Flush, pipeline, run
  <2> QED
    BY <1>1, <2>1, ReturnKeeps, ResendKeeps DEF Recycle
<1>2. CASE Interrupt
  BY <1>2, SteadyKeeps
  DEF Interrupt, pipeline, buffers, Goto, BuffersOK, BufferTypes, Staged, Sending, Places, Unmade, Unopened, Ready, Ended
<1>3. CASE UNCHANGED vars
  BY <1>3, SteadyKeeps
  DEF vars, pipeline, buffers, run, BuffersOK, BufferTypes, Staged, Fresh, Quiet, Sending, Reserved, Busy
<1> QED
  BY <1>1, <1>2, <1>3, BuildKeepsBuffers, CaptureKeepsBuffers, CloseKeepsBuffers,
     DeliverKeepsBuffers
  DEF Next, Over

-----------------------------------------------------------------------------
(* The course of main()                                                    *)

(* Where main() goes from where it is. *)
Onward ==
    \/ pc' = pc \/ pc' = "exited"
    \/ pc = "arguments" /\ pc' = "camera"
    \/ pc \in {"camera", "preview", "encoder", "splitter"} /\ pc' = "done"
    \/ pc = "camera" /\ pc' = "preview"
    \/ pc = "preview" /\ pc' = "encoder"
    \/ pc = "encoder" /\ pc' = IF opts.raw THEN "splitter" ELSE "connect"
    \/ pc = "splitter" /\ pc' = "connect"
    \/ pc = "connect" /\ pc' \in {"disable", "save", "connect_encoder"}
    \/ pc = "connect_encoder" /\ pc' \in {"disable", "enable_splitter"}
    \/ pc = "enable_splitter" /\ pc' \in {"disable", "open"}
    \/ pc = "open" /\ pc' = "allocate"
    \/ pc = "allocate" /\ pc' \in {"disable", "enable_encoder"}
    \/ pc = "enable_encoder" /\ pc' \in {"disable", "demo", "send_encoder", "sleep"}
    \/ pc = "send_encoder" /\ pc' \in {"send_splitter", "toggle"}
    \/ pc = "send_splitter" /\ pc' = "toggle"
    \/ pc \in {"demo", "sleep"} /\ pc' = "save"
    \/ pc = "toggle" /\ pc' \in {"save", "wait"}
    \/ pc = "wait" /\ pc' \in {"toggle", "save"}
    \/ pc = "save" /\ pc' \in {"save_start", "disable"}
    \/ pc = "save_start" /\ pc' = "disable"
    \/ pc = "disable" /\ pc' = "drain"
    \/ pc = "drain" /\ pc' = "close" /\ Drained
    \/ pc = "close" /\ pc' = "components"
    \/ pc = "components" /\ pc' = "destroy"
    \/ pc = "destroy" /\ pc' = "done"

LEMMA MainGoesOnward == [Next]_vars => Onward
<1> SUFFICES ASSUME [Next]_vars PROVE Onward
  OBVIOUS
<1>1. CASE Build
  <2> USE DEF At, Goto, Onward
  <2>1. CASE ParseArgument \/ Begin
    BY <2>1 DEF ParseArgument, Begin
  <2>2. CASE CreateCamera \/ CreatePreview
    BY <2>2 DEF CreateCamera, CreatePreview, GiveUp
  <2>3. CASE CreateEncoder \/ CreateSplitter
    BY <2>3 DEF CreateEncoder, CreateSplitter, GiveUp
  <2>4. CASE ConnectPreview \/ ConnectEncoder \/ EnableSplitter
    BY <2>4 DEF ConnectPreview, ConnectEncoder, EnableSplitter
  <2>5. CASE OpenFiles \/ Allocate \/ EnableEncoder
    BY <2>5 DEF OpenFiles, Allocate, EnableEncoder
  <2> HIDE DEF At, Goto, Onward
  <2> QED
    BY <1>1, <2>1, <2>2, <2>3, <2>4, <2>5 DEF Build
<1>2. CASE Capture
  BY <1>2
  DEF Capture, SendToEncoder, SendToSplitter, Send, Idle, Toggle, WaitOnce, WaitTimed, WaitKey,
      WaitSignal, Wait, Continue, At, Goto, Onward
<1>3. CASE CloseDown
  BY <1>3
  DEF CloseDown, SaveEnd, SaveStart, DisablePorts, Disconnect, CloseFiles, DisableComponents,
      Destroy, At, Goto, Onward
<1>4. CASE Deliver
  BY <1>4 DEF Deliver, Headers, SideInfo, Frame, RingFrame, RingOther, RawFrame, Onward
<1>5. ASSUME NEW p \in Ports, Recycle(p) PROVE Onward
  BY <1>5 DEF Recycle, Flush, Return, Resend, Onward
<1>6. CASE Interrupt \/ UNCHANGED vars
  BY <1>6 DEF Interrupt, Goto, vars, Onward
<1> QED
  BY <1>1, <1>2, <1>3, <1>4, <1>5, <1>6 DEF Next, Over

-----------------------------------------------------------------------------
(* The circular buffer                                                     *)

RingFields == {"len", "wptr", "wrapped", "cells", "iframes", "wpos", "rpos", "start"}

(* The pointers into a ring of no cells are zero.                          *)
Span(r) == IF r.len = 0 THEN 1 ELSE r.len

RingShape(r) ==
    /\ DOMAIN r = RingFields
    /\ r.len \in Nat
    /\ r.wptr \in 0 .. Span(r) - 1
    /\ r.cells \in [0 .. r.len - 1 -> Nat]
    /\ r.iframes \in [Slots -> 0 .. Span(r) - 1]
    /\ r.wpos \in Slots /\ r.rpos \in Slots
    /\ r.start \in -1 .. Span(r) - 1

LEMMA AddMod ==
  ASSUME NEW m \in Nat, NEW a \in 0 .. m - 1, NEW n \in 1 .. m
  PROVE  (a + n) % m = IF a + n < m THEN a + n ELSE a + n - m
OBVIOUS

LEMMA NearMod ==
  ASSUME NEW m \in Nat \ {0}, NEW x \in Int, 1 - m <= x, x <= 2 * m
  PROVE  x % m = IF x < 0 THEN x + m ELSE IF x < m THEN x ELSE IF x < 2 * m THEN x - m ELSE 0
<1>1. CASE x < 0
  <2>1. x = (-1) * m + (x + m) /\ x + m \in 0 .. m - 1
    BY <1>1
  <2> QED
    BY <1>1, <2>1
<1>2. CASE 0 <= x /\ x < m
  BY <1>2
<1>3. CASE m <= x /\ x < 2 * m
  <2>1. x = 1 * m + (x - m) /\ x - m \in 0 .. m - 1
    BY <1>3
  <2> QED
    BY <1>3, <2>1
<1>4. CASE x = 2 * m
  BY <1>4
<1> QED
  BY <1>1, <1>2, <1>3, <1>4

LEMMA NextSlotFacts ==
  ASSUME NEW i \in Slots
  PROVE  NextSlot(i) = (IF i + 1 = IframeSlots THEN 0 ELSE i + 1) /\ NextSlot(i) \in Slots
<1>1. IframeSlots \in Nat /\ i \in 0 .. IframeSlots - 1 /\ 1 \in 1 .. IframeSlots
  BY IframeSlotsAssumption DEF Slots
<1>2. (i + 1) % IframeSlots = IF i + 1 < IframeSlots THEN i + 1 ELSE i + 1 - IframeSlots
  BY ONLY <1>1, AddMod, Zenon
<1> QED
  BY <1>1, <1>2 DEF NextSlot, Slots

LEMMA EmptyRingShape ==
  ASSUME NEW len \in Nat
  PROVE  RingShape(EmptyRing(len)) /\ EmptyRing(len).len = len
BY IframeSlotsAssumption DEF RingShape, RingFields, EmptyRing, Slots, Span

IsNoted(r, key, last, q) ==
    /\ RingShape(q)
    /\ q.len = r.len /\ q.wptr = r.wptr /\ q.cells = r.cells /\ q.wrapped = r.wrapped
    /\ q.rpos = r.rpos
    /\ q.iframes = IF key THEN [r.iframes EXCEPT ![r.wpos] = FrameStart(r)] ELSE r.iframes
    /\ q.wpos = IF key THEN NextSlot(r.wpos) ELSE r.wpos
    /\ q.start = IF last THEN -1 ELSE FrameStart(r)

LEMMA NotedFacts ==
  ASSUME NEW r, RingShape(r), NEW key \in BOOLEAN, NEW last \in BOOLEAN,
         NEW q, q = Noted(r, key, last)
  PROVE  IsNoted(r, key, last, q)
<1>1. FrameStart(r) \in 0 .. Span(r) - 1 /\ Span(r) \in Nat
  BY DEF FrameStart, RingShape, Span
<1>2. NextSlot(r.wpos) \in Slots
  BY NextSlotFacts DEF RingShape
<1>3. /\ DOMAIN q = RingFields
      /\ q.len = r.len /\ q.wptr = r.wptr /\ q.cells = r.cells /\ q.wrapped = r.wrapped
      /\ q.rpos = r.rpos
      /\ q.iframes = IF key THEN [r.iframes EXCEPT ![r.wpos] = FrameStart(r)] ELSE r.iframes
      /\ q.wpos = IF key THEN NextSlot(r.wpos) ELSE r.wpos
      /\ q.start = IF last THEN -1 ELSE FrameStart(r)
  BY DEF RingShape, RingFields, Noted
<1>4. q.iframes \in [Slots -> 0 .. Span(r) - 1]
  BY <1>1, <1>3 DEF RingShape
<1>5. q.wpos \in Slots
  BY <1>2, <1>3 DEF RingShape
<1>6. q.start \in -1 .. Span(r) - 1
  BY <1>1, <1>3
<1>7. Span(q) = Span(r)
  BY <1>3 DEF Span
<1> QED
  BY <1>3, <1>4, <1>5, <1>6, <1>7 DEF RingShape, IsNoted

(* Of the slots the loop could stop at, one comes first. *)
LEMMA FirstStop ==
  ASSUME NEW S, S # {}, S \subseteq Slots, NEW from \in Slots
  PROVE  \E i \in S : \A j \in S : (i - from) % IframeSlots <= (j - from) % IframeSlots
<1> DEFINE T == {(i - from) % IframeSlots : i \in S}
<1>1. \A i \in S : (i - from) % IframeSlots \in Nat
  BY IframeSlotsAssumption DEF Slots
<1>2. T \subseteq Nat /\ T # {}
  BY <1>1
<1>3. PICK t \in T : \A u \in T : ~ (<<u, t>> \in OpToRel(<, Nat))
  BY ONLY <1>2, NatLessThanWellFounded, WFMin, Zenon
<1>4. \A u \in T : t <= u
  <2> SUFFICES ASSUME NEW u \in T PROVE t <= u
    OBVIOUS
  <2>1. t \in Nat /\ u \in Nat
    BY <1>2
  <2>2. u < t => <<u, t>> \in OpToRel(<, Nat)
    BY <2>1 DEF OpToRel
  <2>3. ~ (u < t)
    BY <1>3, <2>2, Zenon
  <2> QED
    BY <2>1, <2>3
<1> QED
  BY <1>4

LEMMA MovedFacts ==
  ASSUME NEW r, RingShape(r), NEW n, NEW q, q = MovedAlong(r, n)
  PROVE  /\ RingShape(q)
         /\ q.len = r.len /\ q.wptr = r.wptr /\ q.cells = r.cells /\ q.wrapped = r.wrapped
         /\ q.iframes = r.iframes /\ q.wpos = r.wpos /\ q.start = r.start
<1>1. CASE q = r
  BY <1>1
<1>2. CASE q # r
  <2> DEFINE S == StopsAt(r, n)
             First(i) == i \in S /\ \A j \in S : (i - r.rpos) % IframeSlots <= (j - r.rpos) % IframeSlots
  <2>1. S # {} /\ q = [r EXCEPT !.rpos = CHOOSE i \in S :
                         \A j \in S : (i - r.rpos) % IframeSlots <= (j - r.rpos) % IframeSlots]
    BY <1>2 DEF MovedAlong
  <2>2. S \subseteq Slots
    BY DEF StopsAt
  <2>3. r.rpos \in Slots
    BY DEF RingShape
  <2>4. \E i \in S : \A j \in S : (i - r.rpos) % IframeSlots <= (j - r.rpos) % IframeSlots
    <3> HIDE DEF S
    <3> QED
      BY <2>1, <2>2, <2>3, FirstStop
  <2>5. PICK i \in S : q = [r EXCEPT !.rpos = i]
    <3> HIDE DEF S
    <3> QED
      BY <2>1, <2>4, Zenon
  <2> QED
    BY <2>2, <2>5 DEF RingShape, RingFields, Span
<1> QED
  BY <1>1, <1>2

(* Where the writer is n cells on, and how far behind the last cell it then *)
(* has written cell p is.                                                  *)
LaterBy(r, n) == IF r.wptr + n < r.len THEN r.wptr + n
                 ELSE IF r.wptr + n < 2 * r.len THEN r.wptr + n - r.len ELSE 0
Behind(r, n, p) == IF r.wptr + n - 1 < p THEN r.wptr + n - 1 - p + r.len
                   ELSE IF r.wptr + n - 1 < p + r.len THEN r.wptr + n - 1 - p
                   ELSE r.wptr + n - 1 - p - r.len

LEMMA LaterFacts ==
  ASSUME NEW r, r.len \in Nat \ {0}, r.wptr \in 0 .. r.len - 1, NEW n \in Nat \ {0},
         ~ Overruns(r, n)
  PROVE  /\ (r.wptr + n) % r.len = LaterBy(r, n)
         /\ LaterBy(r, n) \in 0 .. r.len - 1
         /\ \A p \in 0 .. r.len - 1 : /\ (r.wptr + n - 1 - p) % r.len = Behind(r, n, p)
                                      /\ Behind(r, n, p) \in Nat
<1>1. PICK L \in Nat \ {0} : L = r.len
  OBVIOUS
<1>2. PICK w \in 0 .. L - 1 : w = r.wptr
  BY <1>1
<1>3. w + n <= 2 * L
  BY <1>1, <1>2 DEF Overruns
<1>4. PICK later : later = IF w + n < L THEN w + n ELSE IF w + n < 2 * L THEN w + n - L ELSE 0
  OBVIOUS
<1>5. (w + n) % L = later
  <2>1. PICK x \in Int : x = w + n
    OBVIOUS
  <2>2. 1 - L <= x /\ x <= 2 * L /\ ~ (x < 0)
    BY <1>3, <2>1
  <2>3. x % L = IF x < 0 THEN x + L ELSE IF x < L THEN x ELSE IF x < 2 * L THEN x - L ELSE 0
    BY <2>2, NearMod
  <2> QED
    BY <1>4, <2>1, <2>2, <2>3
<1>6. later \in 0 .. L - 1
  BY <1>3, <1>4
<1>7. ASSUME NEW p \in 0 .. L - 1
      PROVE  /\ (w + n - 1 - p) % L = Behind(r, n, p)
             /\ Behind(r, n, p) \in Nat
  <2>1. PICK x \in Int : x = w + n - 1 - p
    OBVIOUS
  <2>2. 1 - L <= x /\ x < 2 * L /\ x <= 2 * L
    BY <1>3, <2>1
  <2>3. x % L = IF x < 0 THEN x + L ELSE IF x < L THEN x ELSE IF x < 2 * L THEN x - L ELSE 0
    BY ONLY <2>2, NearMod
  <2>4. Behind(r, n, p) = IF x < 0 THEN x + L ELSE IF x < L THEN x ELSE x - L
    BY <1>1, <1>2, <2>1 DEF Behind
  <2> QED
    BY <2>1, <2>2, <2>3, <2>4
<1>8. later = LaterBy(r, n)
  BY <1>1, <1>2, <1>4 DEF LaterBy
<1> QED
  BY <1>1, <1>2, <1>5, <1>6, <1>7, <1>8

(* Cell p holds the unit that is as far from the newest, if it was just     *)
(* written, or as far from the oldest of that lap, if it was not.          *)
LEMMA Turned ==
  ASSUME NEW L \in Nat \ {0}, NEW w \in 0 .. L - 1, NEW n \in Nat \ {0}, w + n <= 2 * L,
         NEW p \in 0 .. L - 1, NEW u \in Nat, NEW v \in Int, NEW d \in Int,
         v = IF w + n < L THEN w + n ELSE IF w + n < 2 * L THEN w + n - L ELSE 0,
         d = IF w + n - 1 < p THEN w + n - 1 - p + L
             ELSE IF w + n - 1 < p + L THEN w + n - 1 - p ELSE w + n - 1 - p - L,
         NEW h \in Int, h = IF p < v THEN u + n - v + p + 1 ELSE u + n - v - L + p + 1
  PROVE  /\ d >= 0
         /\ d < n => h = u + n - d
         /\ ~ (d < n) => h = IF p < w THEN u - w + p + 1 ELSE u - w - L + p + 1
<1>1. CASE w + n < L
  BY <1>1
<1>2. CASE L <= w + n /\ w + n < 2 * L
  BY <1>2
<1>3. CASE w + n = 2 * L
  BY <1>3
<1> QED
  BY <1>1, <1>2, <1>3

IsCopied(r, units, n, q) ==
    /\ RingShape(q)
    /\ q.len = r.len /\ q.wptr = LaterBy(r, n)
    /\ q.wrapped <=> r.wrapped \/ r.wptr + n > r.len
    /\ q.iframes = r.iframes /\ q.wpos = r.wpos /\ q.rpos = r.rpos /\ q.start = r.start
    /\ \A p \in 0 .. r.len - 1 :
         q.cells[p] = IF Behind(r, n, p) < n THEN units[n - Behind(r, n, p)] ELSE r.cells[p]

LEMMA CopiedFacts ==
  ASSUME NEW r, RingShape(r), r.len > 0, NEW units \in Seq(Nat), NEW n \in Nat \ {0},
         n = Len(units), ~ Overruns(r, n), NEW q, q = Copied(r, units)
  PROVE  IsCopied(r, units, n, q)
<1>1. r.len \in Nat \ {0} /\ r.wptr \in 0 .. r.len - 1
  BY DEF RingShape, Span
<1>2. /\ (r.wptr + n) % r.len = LaterBy(r, n)
      /\ LaterBy(r, n) \in 0 .. r.len - 1
      /\ \A p \in 0 .. r.len - 1 : /\ (r.wptr + n - 1 - p) % r.len = Behind(r, n, p)
                                   /\ Behind(r, n, p) \in Nat
  BY <1>1, LaterFacts
<1>6. DOMAIN r.cells = 0 .. r.len - 1 /\ \A p \in 0 .. r.len - 1 : r.cells[p] \in Nat
  BY DEF RingShape
<1>7. PICK cells : cells = [p \in DOMAIN r.cells |->
          IF (r.wptr + n - 1 - p) % r.len < n THEN units[n - ((r.wptr + n - 1 - p) % r.len)]
                                              ELSE r.cells[p]]
  OBVIOUS
<1>8. \A p \in 0 .. r.len - 1 :
        cells[p] = IF Behind(r, n, p) < n THEN units[n - Behind(r, n, p)] ELSE r.cells[p]
  BY <1>2, <1>6, <1>7
<1>9. cells \in [0 .. r.len - 1 -> Nat]
  <2>1. \A p \in 0 .. r.len - 1 : Behind(r, n, p) < n => units[n - Behind(r, n, p)] \in Nat
    <3> SUFFICES ASSUME NEW p \in 0 .. r.len - 1, Behind(r, n, p) < n
                 PROVE  units[n - Behind(r, n, p)] \in Nat
      OBVIOUS
    <3>1. PICK b \in Nat : b = Behind(r, n, p)
      BY <1>2
    <3>2. n - b \in 1 .. Len(units)
      BY <3>1
    <3> QED
      BY <3>1, <3>2
  <2>2. cells = [p \in 0 .. r.len - 1 |-> cells[p]]
    BY <1>6, <1>7
  <2>3. \A p \in 0 .. r.len - 1 : cells[p] \in Nat
    BY <1>6, <1>8, <2>1
  <2> QED
    BY <2>2, <2>3
<1>10. q = [r EXCEPT !.cells = cells, !.wrapped = @ \/ r.wptr + n > r.len,
                     !.wptr = LaterBy(r, n)]
  BY <1>2, <1>7 DEF Copied, RingShape, RingFields
<1> QED
  BY <1>1, <1>2, <1>8, <1>9, <1>10 DEF RingShape, RingFields, Span, IsCopied

IsPushed(r, base, n, key, last, q) ==
    /\ RingShape(q)
    /\ q.len = r.len /\ q.wptr = LaterBy(r, n)
    /\ q.wrapped <=> r.wrapped \/ r.wptr + n > r.len
    /\ q.iframes = IF key THEN [r.iframes EXCEPT ![r.wpos] = FrameStart(r)] ELSE r.iframes
    /\ q.wpos = IF key THEN NextSlot(r.wpos) ELSE r.wpos
    /\ q.start = IF last THEN -1 ELSE FrameStart(r)
    /\ \A p \in 0 .. r.len - 1 :
         q.cells[p] = IF Behind(r, n, p) < n THEN base + n - Behind(r, n, p) ELSE r.cells[p]

LEMMA PushedFacts ==
  ASSUME NEW r, RingShape(r), r.len > 0, NEW base \in Nat, NEW n \in Nat \ {0}, ~ Overruns(r, n),
         NEW key \in BOOLEAN, NEW last \in BOOLEAN,
         NEW q, q = Pushed(r, [i \in 1 .. n |-> base + i], key, last)
  PROVE  IsPushed(r, base, n, key, last, q)
<1> DEFINE units == [i \in 1 .. n |-> base + i]
<1>1. units \in Seq(Nat) /\ n = Len(units) /\ \A i \in 1 .. n : units[i] = base + i
  OBVIOUS
<1>2. PICK a : a = Noted(r, key, last)
  OBVIOUS
<1>3. /\ RingShape(a)
      /\ a.len = r.len /\ a.wptr = r.wptr /\ a.cells = r.cells /\ a.wrapped = r.wrapped
      /\ a.iframes = IF key THEN [r.iframes EXCEPT ![r.wpos] = FrameStart(r)] ELSE r.iframes
      /\ a.wpos = IF key THEN NextSlot(r.wpos) ELSE r.wpos
      /\ a.start = IF last THEN -1 ELSE FrameStart(r)
  <2>1. IsNoted(r, key, last, a)
    BY <1>2, NotedFacts
  <2> QED
    BY <2>1 DEF IsNoted
<1>4. PICK b : b = MovedAlong(a, n)
  OBVIOUS
<1>5. /\ RingShape(b)
      /\ b.len = a.len /\ b.wptr = a.wptr /\ b.cells = a.cells /\ b.wrapped = a.wrapped
      /\ b.iframes = a.iframes /\ b.wpos = a.wpos /\ b.start = a.start
  BY <1>3, <1>4, MovedFacts
<1>6. q = Copied(b, units)
  BY <1>1, <1>2, <1>4 DEF Pushed
<1> HIDE DEF units
<1>7. /\ RingShape(q)
      /\ q.len = b.len /\ q.wptr = LaterBy(b, n)
      /\ q.wrapped <=> b.wrapped \/ b.wptr + n > b.len
      /\ q.iframes = b.iframes /\ q.wpos = b.wpos /\ q.start = b.start
      /\ \A p \in 0 .. b.len - 1 :
           q.cells[p] = IF Behind(b, n, p) < n THEN units[n - Behind(b, n, p)] ELSE b.cells[p]
  <2>1. b.len > 0 /\ ~ Overruns(b, n)
    BY <1>3, <1>5 DEF Overruns
  <2>2. IsCopied(b, units, n, q)
    BY <1>1, <1>5, <1>6, <2>1, CopiedFacts
  <2> QED
    BY <2>2 DEF IsCopied
<1>8. LaterBy(b, n) = LaterBy(r, n) /\ \A p : Behind(b, n, p) = Behind(r, n, p)
  <2>1. b.len = r.len /\ b.wptr = r.wptr
    BY <1>3, <1>5
  <2>2. ASSUME NEW p PROVE Behind(b, n, p) = Behind(r, n, p)
    BY <2>1 DEF Behind
  <2> QED
    BY <2>1, <2>2 DEF LaterBy
<1>9. \A p \in 0 .. r.len - 1 : Behind(r, n, p) \in Nat
  <2>1. r.len \in Nat \ {0} /\ r.wptr \in 0 .. r.len - 1
    BY DEF RingShape, Span
  <2> QED
    BY <2>1, LaterFacts
<1>10. \A p \in 0 .. r.len - 1 :
         Behind(r, n, p) < n => units[n - Behind(r, n, p)] = base + n - Behind(r, n, p)
  <2> SUFFICES ASSUME NEW p \in 0 .. r.len - 1, Behind(r, n, p) < n
               PROVE  units[n - Behind(r, n, p)] = base + n - Behind(r, n, p)
    OBVIOUS
  <2>1. PICK d \in Nat : d = Behind(r, n, p)
    BY <1>9
  <2>2. PICK i \in 1 .. n : i = n - d
    BY <2>1
  <2> QED
    BY <1>1, <2>1, <2>2
<1> QED
  BY <1>3, <1>5, <1>7, <1>8, <1>10 DEF IsPushed

Prev(i) == IF i = 0 THEN IframeSlots - 1 ELSE i - 1

(* Where the ring has unit m, if it has it; and the unit cell p holds.     *)
Back(m) == stream.units - m + 1
Place(m) == IF Back(m) <= ring.wptr THEN ring.wptr - Back(m) ELSE ring.wptr - Back(m) + ring.len
Held(p) == IF p < ring.wptr THEN stream.units - ring.wptr + p + 1
                            ELSE stream.units - ring.wptr - ring.len + p + 1

StreamShape ==
    /\ stream.units \in Nat /\ stream.keys \subseteq 1 .. stream.units
    /\ stream.inFrame \in BOOLEAN /\ stream.key \in BOOLEAN

Placed == /\ stream.units < ring.len => ring.wptr = stream.units
          /\ stream.units = ring.len => ring.wptr = 0
          /\ ring.wrapped => stream.units > ring.len
          /\ \A p \in 0 .. ring.len - 1 : ring.cells[p] = IF Held(p) > 0 THEN Held(p) ELSE 0

(* The newest intra frame the list knows is no older than any, and the     *)
(* slot before the one that is written next says where it starts.          *)
NewestNoted ==
    stream.keys # {} =>
      \E m \in 1 .. stream.units :
         /\ \A k \in stream.keys : k <= m
         /\ m > stream.units - ring.len => ring.iframes[Prev(ring.wpos)] = Place(m)

Framed == /\ stream.units = 0 => ~ stream.inFrame
          /\ stream.units > 0 => 1 \in stream.keys
          /\ ~ stream.inFrame => ring.start = -1
          /\ stream.inFrame => ring.start # -1
          /\ stream.inFrame /\ stream.key => ring.start = ring.iframes[Prev(ring.wpos)]

Recorded == Placed /\ NewestNoted /\ Framed

RingOK ==
    /\ RingShape(ring) /\ StreamShape
    /\ ring.len = 0 => stream = NoStream
    /\ pc \in Unopened \cup {"open", "allocate"} => ring.len = 0
    /\ ring.len > 0 => Recorded

LEMMA RingInit == Init => RingOK
<1> SUFFICES ASSUME Init PROVE RingOK
  OBVIOUS
<1>1. ring = EmptyRing(0) /\ stream = NoStream
  BY DEF Init
<1> QED
  BY <1>1, EmptyRingShape DEF RingOK, StreamShape, NoStream

(* The ring that is allocated has no negative length.                      *)
LEMMA RingSizeFacts ==
  ASSUME NEW o, o.bitrate \in Int, o.timeout \in Int, ~ (RingBytes(o) < 0)
  PROVE  RingSize(o) \in Nat
<1>1. PICK bits : bits = AsInt(o.bitrate * (o.timeout \div 1000))
  OBVIOUS
<1>2. bits \in Int
  <2>1. PICK n \in Int : n = o.bitrate * (o.timeout \div 1000)
    OBVIOUS
  <2>2. Word \in Nat \ {0}
    BY RecorderAssumption
  <2>3. n % Word \in Int
    BY <2>2
  <2> QED
    BY <1>1, <2>1, <2>2, <2>3 DEF AsInt
<1>3. RingBytes(o) = IF bits < 0 THEN -((-bits) \div 8) ELSE bits \div 8
  BY <1>1 DEF RingBytes
<1>4. RingBytes(o) \in Nat
  <2>1. bits < 0 => (-bits) \div 8 \in Int
    BY <1>2
  <2>2. ~ (bits < 0) => bits \div 8 \in Int
    BY <1>2
  <2> QED
    BY <1>3, <2>1, <2>2
<1>5. PICK bytes \in Nat : bytes = RingBytes(o)
  BY <1>4
<1>6. PICK cell \in Nat \ {0} : cell = CellSize
  BY RecorderAssumption
<1>7. bytes \div cell \in Nat
  OBVIOUS
<1> QED
  BY <1>5, <1>6, <1>7 DEF RingSize

LEMMA AllocateKeepsRing ==
  ASSUME OptionsOK, RingOK, Allocate
  PROVE  RingOK'
<1>1. CASE UNCHANGED ring /\ pc' # "allocate"
  <2>1. stream' = stream /\ ring' = ring /\ pc' \notin Unopened \cup {"open", "allocate"}
    BY <1>1 DEF Allocate, Goto, Unopened, Unmade
  <2> QED
    BY <2>1 DEF RingOK, StreamShape, Recorded, Placed, NewestNoted, Framed, Held, Place, Back
<1>2. CASE ring' = EmptyRing(RingSize(opts)) /\ ~ (RingBytes(opts) < 0) /\ pc' = "enable_encoder"
  <2>1. ring.len = 0 /\ stream = NoStream /\ stream' = NoStream
    BY DEF RingOK, Allocate, At
  <2>2. PICK len \in Nat : len = RingSize(opts)
    <3>1. opts.bitrate \in Int /\ opts.timeout \in Int
      BY DEF Allocate, At, OptionsOK, Sensible
    <3> QED
      BY <1>2, <3>1, RingSizeFacts
  <2>3. PICK r : r = EmptyRing(len)
    OBVIOUS
  <2>4. ring' = r /\ RingShape(r) /\ r.len = len
    BY <1>2, <2>2, <2>3, EmptyRingShape
  <2>5. /\ r.wptr = 0 /\ r.wrapped = FALSE /\ r.start = -1
        /\ \A p \in 0 .. len - 1 : r.cells[p] = 0
    BY <2>3 DEF EmptyRing
  <2>6. len > 0 => Recorded'
    <3> SUFFICES ASSUME len > 0 PROVE Recorded'
      OBVIOUS
    <3>1. stream'.units = 0
      BY <2>1 DEF NoStream
    <3>2. \A p \in 0 .. len - 1 : Held(p)' = p + 1 - len
      BY <2>4, <2>5, <3>1 DEF Held
    <3>3. Placed'
      BY <2>4, <2>5, <3>1, <3>2 DEF Placed
    <3> QED
      BY <2>1, <2>4, <2>5, <3>3 DEF Recorded, NewestNoted, Framed, NoStream
  <2> QED
    BY <1>2, <2>1, <2>4, <2>6 DEF RingOK, StreamShape, NoStream, Unopened, Unmade
<1> QED
  BY <1>1, <1>2 DEF Allocate, Goto

(* One more buffer in the ring: n units, of a frame that may go on. *)
LEMMA PushKeepsRing ==
  ASSUME RingShape(ring), StreamShape, ring.len > 0, Recorded,
         NEW n \in Nat \ {0}, ~ Overruns(ring, n), NEW key \in BOOLEAN, NEW last \in BOOLEAN,
         IF stream.inFrame THEN key = stream.key ELSE stream.units = 0 => key,
         ring' = Pushed(ring, [i \in 1 .. n |-> stream.units + i], key, last),
         stream' = Produced(n, key, last)
  PROVE  RingShape(ring)' /\ StreamShape' /\ Recorded' /\ ring'.len = ring.len
<1>0. PICK L \in Nat \ {0} : L = ring.len
  BY DEF RingShape
<1>1. /\ ring.len = L /\ L \in Nat /\ L > 0 /\ ring.wptr \in 0 .. L - 1
      /\ ring.wptr + n <= 2 * L
  BY <1>0 DEF RingShape, Span, Overruns
<1>2. PICK q : q = Pushed(ring, [i \in 1 .. n |-> stream.units + i], key, last)
  OBVIOUS
<1>3. stream.units \in Nat
  BY DEF StreamShape
<1>4. /\ RingShape(q)
      /\ q.len = ring.len /\ q.wptr = LaterBy(ring, n)
      /\ q.wrapped <=> ring.wrapped \/ ring.wptr + n > ring.len
      /\ q.iframes = IF key THEN [ring.iframes EXCEPT ![ring.wpos] = FrameStart(ring)]
                            ELSE ring.iframes
      /\ q.wpos = IF key THEN NextSlot(ring.wpos) ELSE ring.wpos
      /\ q.start = IF last THEN -1 ELSE FrameStart(ring)
      /\ \A p \in 0 .. ring.len - 1 :
           q.cells[p] = IF Behind(ring, n, p) < n THEN stream.units + n - Behind(ring, n, p)
                                                  ELSE ring.cells[p]
  <2>1. IsPushed(ring, stream.units, n, key, last, q)
    BY <1>2, <1>3, PushedFacts
  <2> QED
    BY <2>1 DEF IsPushed
<1>5. /\ stream'.units = stream.units + n
      /\ stream'.keys = IF key /\ ~ stream.inFrame THEN stream.keys \cup {stream.units + 1}
                                                   ELSE stream.keys
      /\ stream'.inFrame <=> ~ last
      /\ stream'.key <=> key
      /\ {stream'.inFrame, stream'.key} \subseteq BOOLEAN
  BY DEF Produced
<1>6. ring' = q
  BY <1>2
<1>7. StreamShape'
  BY <1>3, <1>5 DEF StreamShape
<1>8. Placed'
  <2>1. PICK w \in 0 .. L - 1 : w = ring.wptr
    BY <1>1
  <2>2. PICK u \in Nat : u = stream.units
    BY <1>3
  <2>3. u < L => w = u
    BY <1>1, <2>1, <2>2 DEF Recorded, Placed
  <2>4. q.wptr = IF w + n < L THEN w + n ELSE IF w + n < 2 * L THEN w + n - L ELSE 0
    BY <1>1, <1>4, <2>1 DEF LaterBy
  <2>5. /\ u + n < L => q.wptr = u + n
        /\ u + n = L => q.wptr = 0
    BY <1>1, <2>3, <2>4
  <2>6. q.wrapped => u + n > L
    <3>1. ring.wrapped => u > L
      BY <1>1, <2>2 DEF Recorded, Placed
    <3>2. w + n > L => u + n > L
      BY <1>1, <2>3
    <3> QED
      BY <1>1, <1>4, <2>1, <3>1, <3>2
  <2>7. ASSUME NEW p \in 0 .. L - 1
        PROVE  q.cells[p] = IF Held(p)' > 0 THEN Held(p)' ELSE 0
    <3>1. p \in Nat /\ p < L
      BY <1>1
    <3>2. Held(p) = IF p < w THEN u - w + p + 1 ELSE u - w - L + p + 1
      BY <1>1, <2>1, <2>2 DEF Held
    <3>3. PICK v \in 0 .. L - 1 : v = q.wptr
      BY <1>1, <1>4 DEF RingShape, Span
    <3>4. Held(p)' = IF p < v THEN u + n - v + p + 1 ELSE u + n - v - L + p + 1
      <4>1. ring'.wptr = v /\ ring'.len = L /\ stream'.units = u + n
        BY <1>1, <1>4, <1>5, <1>6, <2>2, <3>3
      <4> QED
        BY <1>1, <3>1, <4>1 DEF Held
    <3>5. PICK d \in Int : d = Behind(ring, n, p)
      <4>1. ring.len \in Nat \ {0} /\ ring.wptr \in 0 .. ring.len - 1 /\ p \in 0 .. ring.len - 1
        BY <1>0, <1>1
      <4> QED
        BY <4>1, LaterFacts
    <3>6. d = IF w + n - 1 < p THEN w + n - 1 - p + L
              ELSE IF w + n - 1 < p + L THEN w + n - 1 - p ELSE w + n - 1 - p - L
      BY <1>1, <2>1, <3>5 DEF Behind
    <3>7. PICK h \in Int : h = IF p < v THEN u + n - v + p + 1 ELSE u + n - v - L + p + 1
      <4>1. PICK g : g = IF p < v THEN u + n - v + p + 1 ELSE u + n - v - L + p + 1
        OBVIOUS
      <4>2. CASE p < v
        BY <4>1, <4>2
      <4>3. CASE ~ (p < v)
        BY <4>1, <4>3
      <4> QED
        BY <4>2, <4>3
    <3>8. /\ d >= 0
          /\ d < n => h = u + n - d
          /\ ~ (d < n) => h = IF p < w THEN u - w + p + 1 ELSE u - w - L + p + 1
      <4>1. v = IF w + n < L THEN w + n ELSE IF w + n < 2 * L THEN w + n - L ELSE 0
        BY <2>4, <3>3
      <4>2. w + n <= 2 * L
        BY <1>1, <2>1
      <4> QED
        BY ONLY <3>6, <3>7, <4>1, <4>2, Turned, L \in Nat \ {0}, w \in 0 .. L - 1, n \in Nat \ {0},
                p \in 0 .. L - 1, u \in Nat, v \in Int, d \in Int, h \in Int
    <3>9. CASE d < n
      <4>1. Held(p)' = u + n - d
        BY <3>4, <3>7, <3>8, <3>9
      <4>2. Held(p)' > 0
        BY <3>9, <4>1
      <4> QED
        BY <1>1, <1>4, <2>2, <3>5, <3>9, <4>1, <4>2
    <3>10. CASE ~ (d < n)
      <4>1. Held(p)' = Held(p)
        BY <3>2, <3>4, <3>7, <3>8, <3>10
      <4> QED
        BY <1>1, <1>4, <3>5, <3>10, <4>1 DEF Recorded, Placed
    <3> QED
      BY <3>9, <3>10
  <2> QED
    BY <1>1, <1>4, <1>5, <1>6, <2>2, <2>5, <2>6, <2>7 DEF Placed
<1>9. /\ Prev(NextSlot(ring.wpos)) = ring.wpos /\ ring.wpos \in Slots
      /\ ring.iframes \in [Slots -> 0 .. L - 1]
  <2>1. ring.wpos \in Slots /\ ring.iframes \in [Slots -> 0 .. L - 1]
    BY <1>1 DEF RingShape, Span
  <2>2. PICK w \in Slots : w = ring.wpos
    BY <2>1
  <2>3. PICK x \in Slots : x = NextSlot(w) /\ x = IF w + 1 = IframeSlots THEN 0 ELSE w + 1
    BY NextSlotFacts, Zenon
  <2>4. IframeSlots \in Nat /\ w \in 0 .. IframeSlots - 1 /\ x \in 0 .. IframeSlots - 1
    BY IframeSlotsAssumption DEF Slots
  <2>5. (IF x = 0 THEN IframeSlots - 1 ELSE x - 1) = w
    BY <2>3, <2>4
  <2>6. Prev(x) = w
    BY <2>5 DEF Prev
  <2> QED
    BY <2>1, <2>2, <2>3, <2>6
<1>10. FrameStart(ring) \in 0 .. L - 1
  BY <1>1 DEF FrameStart, RingShape, Span
<1>11. key => ring'.iframes[Prev(ring'.wpos)] = FrameStart(ring)
  <2> SUFFICES ASSUME key PROVE ring'.iframes[Prev(ring'.wpos)] = FrameStart(ring)
    OBVIOUS
  <2>1. /\ ring'.iframes = [ring.iframes EXCEPT ![ring.wpos] = FrameStart(ring)]
        /\ ring'.wpos = NextSlot(ring.wpos)
    BY <1>4, <1>6
  <2>2. ring'.iframes[ring.wpos] = FrameStart(ring)
    BY <1>9, <2>1
  <2> QED
    BY <1>9, <2>1, <2>2
<1>12. Framed'
  <2>1. stream'.units > 0 /\ 1 \in stream'.keys
    <3>1. CASE stream.units = 0
      BY <1>3, <1>5, <3>1 DEF Recorded, Framed
    <3>2. CASE stream.units > 0
      BY <1>3, <1>5, <3>2 DEF Recorded, Framed
    <3> QED
      BY <1>3, <3>1, <3>2
  <2>2. ring'.start = IF last THEN -1 ELSE FrameStart(ring)
    BY <1>4, <1>6
  <2> QED
    BY <1>5, <1>10, <1>11, <2>1, <2>2 DEF Framed
<1>13. PICK w \in 0 .. L - 1 : w = ring.wptr
  BY <1>1
<1>14. PICK u \in Nat : u = stream.units
  BY <1>3
<1>15. PICK v \in 0 .. L - 1 : v = ring'.wptr
  BY <1>1, <1>4, <1>6 DEF RingShape, Span
<1>16. v = IF w + n < L THEN w + n ELSE IF w + n < 2 * L THEN w + n - L ELSE 0
  BY <1>1, <1>4, <1>6, <1>13, <1>15 DEF LaterBy
<1>17. ASSUME NEW m \in Nat
       PROVE  Place(m)' = IF u + n - m + 1 <= v THEN v - (u + n - m + 1)
                                                ELSE v - (u + n - m + 1) + L
  <2>1. ring'.wptr = v /\ ring'.len = L /\ stream'.units = u + n
    BY <1>1, <1>4, <1>5, <1>6, <1>14, <1>15
  <2> QED
    BY <2>1 DEF Place, Back
<1>18. ASSUME NEW m \in 1 .. u, m > u + n - L PROVE Place(m)' = Place(m)
  <2>1. Place(m) = IF u - m + 1 <= w THEN w - (u - m + 1) ELSE w - (u - m + 1) + L
    BY <1>1, <1>13, <1>14 DEF Place, Back
  <2> QED
    BY <1>1, <1>16, <1>17, <1>18, <2>1
<1>19. NewestNoted'
  <2> SUFFICES ASSUME stream'.keys # {}
               PROVE  \E m \in 1 .. stream'.units :
                        /\ \A k \in stream'.keys : k <= m
                        /\ m > stream'.units - ring'.len =>
                             ring'.iframes[Prev(ring'.wpos)] = Place(m)'
    BY Zenon DEF NewestNoted
  <2>3. stream'.units = u + n /\ ring'.len = L
    BY <1>1, <1>4, <1>5, <1>6, <1>14
  <2>1. CASE key /\ ~ stream.inFrame
    <3>1. \A k \in stream'.keys : k <= u + 1
      BY <1>5, <1>14, <2>1 DEF StreamShape
    <3>2. FrameStart(ring) = w
      BY <1>13, <2>1 DEF FrameStart, Recorded, Framed
    <3>3. PICK m \in 1 .. u + n : m = u + 1
      OBVIOUS
    <3>4. m > u + n - L => ring'.iframes[Prev(ring'.wpos)] = Place(m)'
      <4>1. m > u + n - L => n <= L
        BY <1>1, <3>3
      <4>2. Place(m)' = IF n <= v THEN v - n ELSE v - n + L
        <5>1. m \in Nat /\ u + n - m + 1 = n
          BY <3>3
        <5>2. Place(m)' = IF u + n - m + 1 <= v THEN v - (u + n - m + 1)
                                                ELSE v - (u + n - m + 1) + L
          BY <1>17, <5>1
        <5> QED
          BY <5>1, <5>2
      <4>3. n <= L => (IF n <= v THEN v - n ELSE v - n + L) = w
        BY <1>1, <1>16
      <4> QED
        BY <1>11, <2>1, <3>2, <4>1, <4>2, <4>3
    <3>5. \A k \in stream'.keys : k <= m
      BY <3>1, <3>3
    <3>6. /\ m \in 1 .. stream'.units
          /\ m > stream'.units - ring'.len => ring'.iframes[Prev(ring'.wpos)] = Place(m)'
      BY <2>3, <3>4
    <3> QED
      BY <3>5, <3>6, Zenon
  <2>2. CASE ~ (key /\ ~ stream.inFrame)
    <3>1. stream'.keys = stream.keys
      BY <1>5, <2>2
    <3>2. PICK m \in 1 .. u : /\ \A k \in stream.keys : k <= m
                              /\ m > u - L => ring.iframes[Prev(ring.wpos)] = Place(m)
      BY <1>1, <1>14, <3>1 DEF Recorded, NewestNoted
    <3>3. ring'.iframes[Prev(ring'.wpos)] = ring.iframes[Prev(ring.wpos)]
      <4>1. CASE ~ key
        BY <1>4, <1>6, <4>1
      <4>2. CASE key
        <5>1. stream.inFrame /\ stream.key
          BY <2>2, <4>2
        <5>2. FrameStart(ring) = ring.iframes[Prev(ring.wpos)]
          BY <5>1 DEF FrameStart, Recorded, Framed
        <5> QED
          BY <1>11, <4>2, <5>2
      <4> QED
        BY <4>1, <4>2
    <3>4. m > u + n - L => m > u - L
      BY <1>1
    <3>5. m > u + n - L => ring'.iframes[Prev(ring'.wpos)] = Place(m)'
      BY <1>18, <3>2, <3>3, <3>4
    <3>6. PICK i \in 1 .. u + n : i = m
      OBVIOUS
    <3>7. \A k \in stream'.keys : k <= i
      BY <3>1, <3>2, <3>6
    <3>8. i > u + n - L => ring'.iframes[Prev(ring'.wpos)] = Place(i)'
      BY <3>5, <3>6
    <3> QED
      BY <2>3, <3>7, <3>8
  <2> QED
    BY <2>1, <2>2
<1> QED
  BY <1>4, <1>6, <1>7, <1>8, <1>12, <1>19 DEF Recorded

LEMMA RingStays ==
  ASSUME [Next]_vars, ~ Allocate, ~ RingFrame
  PROVE  UNCHANGED <<ring, stream>>
<1>1. CASE Build
  BY <1>1
  DEF Build, ParseArgument, Begin, CreateCamera, CreatePreview, CreateEncoder, CreateSplitter,
      ConnectPreview, ConnectEncoder, EnableSplitter, OpenFiles, EnableEncoder, data
<1>2. CASE Capture
  BY <1>2
  DEF Capture, SendToEncoder, SendToSplitter, Idle, Toggle, WaitOnce, WaitTimed, WaitKey,
      WaitSignal, Wait, data
<1>3. CASE CloseDown
  BY <1>3
  DEF CloseDown, SaveEnd, SaveStart, DisablePorts, Disconnect, CloseFiles, DisableComponents,
      Destroy, data
<1>4. CASE Deliver
  BY <1>4 DEF Deliver, Headers, SideInfo, Frame, RingOther, RawFrame, data
<1>5. ASSUME NEW p \in Ports, Recycle(p) PROVE UNCHANGED <<ring, stream>>
  BY <1>5 DEF Recycle, Flush, Return, Resend, data
<1>6. CASE Interrupt \/ UNCHANGED vars
  BY <1>6 DEF Interrupt, data, vars
<1> QED
  BY <1>1, <1>2, <1>3, <1>4, <1>5, <1>6 DEF Next, Over

LEMMA RingFrameKeepsRing ==
  ASSUME RingOK, RingFrame
  PROVE  RingOK' /\ ring'.len = ring.len
<1>0. PICK n \in 1 .. BufferUnits, key \in BOOLEAN, last \in BOOLEAN :
       /\ stream.units + n <= MaxUnits
       /\ IF stream.inFrame THEN last /\ key = stream.key
          ELSE stream.units = 0 \/ stream.since + 1 = MaxGop => key
       /\ IF Spins(Noted(ring, key, last), n) THEN Crash("spins") /\ UNCHANGED <<ring, stream>>
          ELSE IF Overruns(ring, n) THEN Crash("overrun") /\ UNCHANGED <<ring, stream>>
          ELSE /\ ring' = Pushed(ring, [i \in 1 .. n |-> stream.units + i], key, last)
               /\ stream' = Produced(n, key, last)
               /\ UNCHANGED crashed
  BY Zenon DEF RingFrame
<1>1. /\ IF stream.inFrame THEN key = stream.key ELSE stream.units = 0 => key
      /\ \/ UNCHANGED <<ring, stream>>
         \/ /\ ~ Overruns(ring, n)
            /\ ring' = Pushed(ring, [i \in 1 .. n |-> stream.units + i], key, last)
            /\ stream' = Produced(n, key, last)
      /\ n \in Nat \ {0}
  <2>1. n \in Nat \ {0}
    BY RecorderAssumption
  <2> QED
    BY <1>0, <2>1
<1>2. pc' = pc
  BY DEF RingFrame
<1>3. CASE UNCHANGED <<ring, stream>>
  BY <1>2, <1>3
  DEF RingOK, StreamShape, Recorded, Placed, NewestNoted, Framed, Held, Place, Back
<1>4. CASE /\ ~ Overruns(ring, n)
           /\ ring' = Pushed(ring, [i \in 1 .. n |-> stream.units + i], key, last)
           /\ stream' = Produced(n, key, last)
  <2>1. ring.len > 0
    BY <1>4 DEF RingOK, RingShape, Span, Overruns
  <2>2. RingShape(ring)' /\ StreamShape' /\ Recorded' /\ ring'.len = ring.len
    BY <1>1, <1>4, <2>1, PushKeepsRing DEF RingOK
  <2> QED
    BY <1>2, <1>4, <2>1, <2>2 DEF RingOK
<1> QED
  BY <1>1, <1>3, <1>4

LEMMA RingNext == OptionsOK /\ RingOK /\ [Next]_vars => RingOK'
<1> SUFFICES ASSUME OptionsOK, RingOK, [Next]_vars PROVE RingOK'
  OBVIOUS
<1>1. pc' \in Unopened \cup {"open", "allocate"} => pc \in Unopened \cup {"open", "allocate"}
  BY MainGoesOnward DEF Onward, Unopened, Unmade
<1>2. CASE UNCHANGED <<ring, stream>>
  BY <1>1, <1>2
  DEF RingOK, StreamShape, Recorded, Placed, NewestNoted, Framed, Held, Place, Back
<1> QED
  BY <1>2, AllocateKeepsRing, RingFrameKeepsRing, RingStays

-----------------------------------------------------------------------------
(* The files                                                               *)

Streaming == {"send_encoder", "send_splitter", "toggle", "wait"}

(* Buffers are on their way, or may be. *)
Live == pc \in Streaming \/ \E p \in Ports : ~ Quiet(p)

(* It begins when main() has enabled the encoder. *)
LEMMA LiveBegins ==
  ASSUME BuffersOK, [Next]_vars, ~ Live, ~ EnableEncoder
  PROVE  ~ Live'
<1>1. pc \notin Streaming /\ \A p \in Ports : held[p] = 0 /\ callback[p] = "idle"
  BY DEF Live, Quiet
<1>2. ~ Deliver /\ \A p \in Ports : ~ Recycle(p)
  <2>1. \A p \in Ports : ~ HasBuffer(p)
    BY <1>1 DEF HasBuffer
  <2>2. ~ Deliver
    BY <2>1 DEF Deliver, Headers, SideInfo, Frame, RingFrame, RingOther, RawFrame, Ports
  <2>3. \A p \in Ports : ~ Return(p) /\ ~ Resend(p)
    BY <1>1 DEF Return, Resend
  <2> QED
    BY <2>1, <2>2, <2>3 DEF Recycle, Flush
<1>3. ~ SendToEncoder /\ ~ SendToSplitter /\ ~ Toggle /\ ~ WaitOnce /\ ~ WaitTimed /\ ~ WaitKey
      /\ ~ WaitSignal
  BY <1>1 DEF SendToEncoder, SendToSplitter, Toggle, WaitOnce, WaitTimed, WaitKey, WaitSignal, Wait,
              At, Streaming
<1>4. UNCHANGED <<held, callback>> /\ pc' \notin Streaming
  <2>1. CASE Build
    BY <1>1, <2>1
    DEF Build, ParseArgument, Begin, CreateCamera, CreatePreview, CreateEncoder, CreateSplitter,
        ConnectPreview, ConnectEncoder, EnableSplitter, OpenFiles, Allocate, GiveUp, Goto,
        buffers, Streaming
  <2>2. CASE Idle
    BY <2>2 DEF Idle, Goto, buffers, Streaming
  <2>3. CASE CloseDown
    BY <1>1, <2>3
    DEF CloseDown, SaveEnd, SaveStart, DisablePorts, Disconnect, CloseFiles, DisableComponents,
        Destroy, Goto, buffers, Streaming
  <2>4. CASE Interrupt
    BY <2>4 DEF Interrupt, Goto, buffers, Streaming
  <2>5. CASE UNCHANGED vars
    BY <1>1, <2>5 DEF vars, buffers
  <2> QED
    BY <1>2, <1>3, <2>1, <2>2, <2>3, <2>4, <2>5 DEF Next, Capture, Over
<1> QED
  BY <1>1, <1>4 DEF Live, Quiet

IsFile(s) == /\ files[s].kind = "file" /\ files[s].stream = s
             /\ files[s].opening \in Nat

(* A file that is missing could not be opened, and what is asked to be     *)
(* written to it has been switched off.                                    *)
Matched ==
    /\ opts.vectors => files["imv"] # Null
    /\ opts.savePts => files["pts"] # Null
    /\ opts.raw => files["raw"] # Null
    /\ \A s \in Streams : Renewed(s) /\ files[s] = Null => "file" \in Faults

Shut == {"components", "destroy", "done"}

FilesOK ==
    /\ \A s \in Streams : files[s] \in {Null, Stdout} \/ IsFile(s)
    /\ pc \in Unopened \cup {"open"} => open = {} /\ \A s \in Streams : files[s] = Null
    /\ pc \in Shut => open = {}
    /\ crashed = "no" => /\ open \subseteq {files[s] : s \in Streams}
                         /\ pc \notin Shut \cup {"exited"} => \A s \in Streams : files[s] \in {Null, Stdout} \cup open
    /\ pc \in {"allocate", "enable_encoder"} => Matched
    /\ Live => Matched /\ files["video"] # Null

LEMMA FilesInit == Init => FilesOK
<1> SUFFICES ASSUME Init PROVE FilesOK
  OBVIOUS
<1>1. ~ Live
  BY DEF Init, Live, Streaming, Quiet
<1> QED
  BY <1>1 DEF Init, FilesOK, Shut, Handle, Null

LEMMA ShutStays ==
  ASSUME [Next]_vars, pc \in Shut \cup {"exited"}
  PROVE  pc' \in Shut \cup {"exited"}
<1>1. ~ Build /\ ~ Capture
  BY DEF Shut, Build, ParseArgument, Begin, CreateCamera, CreatePreview, CreateEncoder,
       CreateSplitter, ConnectPreview, ConnectEncoder, EnableSplitter, OpenFiles,
       Allocate, EnableEncoder, Capture, SendToEncoder, SendToSplitter, Idle, Toggle, Wait,
       WaitOnce, WaitTimed, WaitKey, WaitSignal, At, Running
<1>2. CASE CloseDown
  BY <1>2 DEF Shut, CloseDown, SaveEnd, SaveStart, DisablePorts, Disconnect, CloseFiles,
       DisableComponents, Destroy, At, Goto
<1>3. CASE Deliver
  BY <1>3 DEF Deliver, Headers, SideInfo, Frame, RingFrame, RingOther, RawFrame
<1>4. ASSUME NEW p \in Ports, Recycle(p) PROVE UNCHANGED pc
  BY <1>4 DEF Recycle, Flush, Return, Resend
<1>5. CASE Interrupt \/ UNCHANGED vars
  BY <1>5 DEF Interrupt, Goto, vars
<1> QED
  BY <1>1, <1>2, <1>3, <1>4, <1>5 DEF Next, Over

(* The files and what they are matched with stay as they are. *)
LEMMA FilesStay ==
  ASSUME OptionsOK, BuffersOK, FilesOK, [Next]_vars, ~ EnableEncoder,
         UNCHANGED <<files, open>>, Tuned(opts, opts'),
         pc' \in Unopened \cup {"open"} => pc \in Unopened \cup {"open"},
         pc' \in Shut => open = {},
         pc' = "allocate" => pc = "allocate",
         pc' = "enable_encoder" => pc = "enable_encoder"
  PROVE  FilesOK'
<1>1. Live' => Live
  BY LiveBegins
<1>2. Matched => Matched'
  BY DEF Matched, Renewed, NameOf, Tuned, Kept, Fixed, Streams
<1>3. \A s \in Streams : IsFile(s)' = IsFile(s)
  BY DEF IsFile
<1>4. crashed' = "no" => crashed = "no"
  BY DEF Next, Build, ParseArgument, Begin, CreateCamera, CreatePreview, CreateEncoder,
       CreateSplitter, ConnectPreview, ConnectEncoder, EnableSplitter, OpenFiles,
       Allocate, EnableEncoder, Capture, SendToEncoder, SendToSplitter, Idle, Toggle, Wait,
       WaitOnce, WaitTimed, WaitKey, WaitSignal, CloseDown, SaveEnd, SaveStart, DisablePorts,
       Disconnect, CloseFiles, DisableComponents, Destroy, Deliver, Headers, HasBuffer, SideInfo,
       Frame, RingFrame, RingOther, RawFrame, Recycle, Flush, Return, Resend, Interrupt, At,
       Running, Over, vars
<1>5. pc \in Shut \cup {"exited"} => pc' \in Shut \cup {"exited"}
  BY ShutStays
<1> QED
  BY <1>1, <1>2, <1>3, <1>4, <1>5 DEF FilesOK

LEMMA FilesStill ==
  ASSUME [Next]_vars, ~ OpenFiles, ~ CloseFiles, ~ Headers
  PROVE  /\ UNCHANGED <<files, open>>
         /\ pc' \in {"allocate", "components"} => pc' = pc
         /\ pc' = "enable_encoder" /\ ~ Allocate => pc' = pc
<1> USE DEF output
<1>1. CASE Build
  <2>1. CASE ParseArgument \/ Begin \/ CreateCamera \/ CreatePreview
    BY <2>1 DEF ParseArgument, Begin, CreateCamera, CreatePreview, GiveUp, Goto
  <2>2. CASE CreateEncoder \/ CreateSplitter
    BY <2>2 DEF CreateEncoder, CreateSplitter, GiveUp, Goto
  <2>3. CASE ConnectPreview \/ ConnectEncoder \/ EnableSplitter
    BY <2>3 DEF ConnectPreview, ConnectEncoder, EnableSplitter, Goto
  <2>4. CASE Allocate \/ EnableEncoder
    BY <2>4 DEF Allocate, EnableEncoder, Goto
  <2> QED
    BY <1>1, <2>1, <2>2, <2>3, <2>4 DEF Build
<1>2. CASE Capture
  BY <1>2
  DEF Capture, SendToEncoder, SendToSplitter, Send, Idle, Toggle, WaitOnce, WaitTimed, WaitKey,
      WaitSignal, Wait, Continue, Goto
<1>3. CASE CloseDown
  BY <1>3
  DEF CloseDown, SaveEnd, SaveStart, DisablePorts, Disconnect, DisableComponents, Destroy, Goto
<1>4. CASE Deliver
  BY <1>4 DEF Deliver, SideInfo, Frame, RingFrame, RingOther, RawFrame
<1>5. ASSUME NEW p \in Ports, Recycle(p) PROVE UNCHANGED <<files, open, pc>>
  BY <1>5 DEF Recycle, Flush, Return, Resend
<1>6. CASE Interrupt \/ UNCHANGED vars
  BY <1>6 DEF Interrupt, Goto, vars
<1> QED
  BY <1>1, <1>2, <1>3, <1>4, <1>5, <1>6 DEF Next, Over

LEMMA NotLive ==
  ASSUME BuffersOK, pc \in Unopened \cup Ready \cup Ended
  PROVE  ~ Live
BY DEF BuffersOK, Staged, Fresh, Live, Streaming, Unopened, Unmade, Ready, Ended

LEMMA HandleFacts ==
  ASSUME NEW s, NEW n, NEW number, NEW h, h = Handle("file", s, n, number)
  PROVE  h.kind = "file" /\ h.stream = s /\ h.opening = n /\ h # Null
<1>1. h.kind = "file" /\ h.stream = s /\ h.opening = n
  BY DEF Handle
<1>2. Null.kind = "null"
  BY DEF Null, Handle
<1> QED
  BY <1>1, <1>2

(* A file that is opened is none of the other streams', and none that was  *)
(* open before.                                                            *)
LEMMA ReopenedFacts ==
  ASSUME FilesOK, NEW s \in Streams, NEW number, NEW fails \in BOOLEAN,
         NEW h, h = Reopened(s, number, fails)
  PROVE  /\ h = files[s] \/ /\ h.kind = "file" /\ h.stream = s
                            /\ h.opening \in Nat /\ h.opening # files[s].opening
         /\ h = Null => files[s] = Null
         /\ h = Null /\ Renewed(s) => fails
<1>1. CASE Renewed(s) /\ ~ fails
  <2>1. h = Handle("file", s, files[s].opening + 1, number)
    BY <1>1, Zenon DEF Reopened, Opened, Renewed
  <2>2. files[s] \in {Null, Stdout} \/ IsFile(s)
    BY DEF FilesOK
  <2>3. Null.opening = 0 /\ Stdout.opening = 0
    BY DEF Null, Stdout, Handle
  <2>4. files[s].opening \in Nat
    BY <2>2, <2>3 DEF IsFile
  <2>5. PICK n \in Nat : n = files[s].opening
    BY <2>4
  <2>6. h.kind = "file" /\ h.stream = s /\ h.opening = n + 1 /\ h # Null
    BY <2>1, <2>5, HandleFacts
  <2> QED
    BY <1>1, <2>5, <2>6
<1>2. CASE ~ (Renewed(s) /\ ~ fails)
  BY <1>2 DEF Reopened
<1> QED
  BY <1>1, <1>2

LEMMA SplitKeepsFiles ==
  ASSUME OptionsOK, BuffersOK, FilesOK, HasBuffer("encoder"), NEW fail \in [Streams -> BOOLEAN],
         \A s \in Streams : fail[s] => "file" \in Faults, Split(fail),
         UNCHANGED <<pc, ring>>
  PROVE  /\ FilesOK'
         /\ files'["video"] # Null
         /\ \A s \in Streams : files'[s] \in {Null, Stdout} \cup open'
<1>1. Live /\ crashed = "no" /\ pc # "exited"
  BY DEF HasBuffer, Running, Live, Quiet, Ports
<1>2. pc \notin Unopened \cup Ready \cup Ended
  BY <1>1, NotLive
<1>3. PICK number : number = NextNumber(opts)
  OBVIOUS
<1>4. PICK handle : handle = [s \in Streams |-> Reopened(s, number, fail[s])]
  OBVIOUS
<1>5. PICK closed : closed = {files[s] : s \in {x \in Streams : handle[x] # files[x]}}
  OBVIOUS
<1>6. files' = handle /\ open' = (open \cup {handle[s] : s \in Streams}) \ (closed \cup {Null, Stdout})
  BY <1>3, <1>4, <1>5 DEF Split
<1>7. ASSUME NEW s \in Streams
      PROVE  /\ handle[s] = files[s] \/ /\ handle[s].kind = "file" /\ handle[s].stream = s
                                        /\ handle[s].opening \in Nat
                                        /\ handle[s].opening # files[s].opening
             /\ handle[s] = Null => files[s] = Null
  BY <1>4, ReopenedFacts
<1>8. Tuned(opts, opts')
  BY SplitTunes DEF OptionsOK
<1>9. \A s \in Streams : files'[s] \in {Null, Stdout} \/ IsFile(s)'
  BY <1>6, <1>7 DEF FilesOK, IsFile
<1>10. Matched' /\ files'["video"] # Null
  <2>1. Matched /\ files["video"] # Null
    BY <1>1 DEF FilesOK
  <2>2. \A s \in Streams : Renewed(s)' <=> Renewed(s)
    BY <1>8 DEF Renewed, NameOf, Tuned, Fixed
  <2>3. \A f \in Kept : opts'[f] = opts[f]
    BY <1>8 DEF Tuned
  <2> QED
    BY <1>6, <1>7, <2>1, <2>2, <2>3 DEF Matched, Kept, Streams
<1>11. open' \subseteq {files'[s] : s \in Streams}
  <2> SUFFICES ASSUME NEW f \in open' PROVE \E s \in Streams : f = files'[s]
    OBVIOUS
  <2>1. CASE f \in open
    <3>1. PICK s \in Streams : f = files[s]
      BY <1>1, <2>1 DEF FilesOK
    <3>2. handle[s] = files[s]
      BY <1>5, <1>6, <3>1
    <3> QED
      BY <1>6, <3>1, <3>2
  <2>2. CASE f \notin open
    BY <1>6, <2>2
  <2> QED
    BY <2>1, <2>2
<1>12. ASSUME NEW s \in Streams PROVE files'[s] \in {Null, Stdout} \cup open'
  <2> SUFFICES ASSUME handle[s] \notin {Null, Stdout}, handle[s] \in closed PROVE FALSE
    BY <1>6
  <2>1. PICK x \in Streams : handle[x] # files[x] /\ handle[s] = files[x]
    BY <1>5
  <2>2. handle[s].stream = s
    BY <1>7 DEF FilesOK, IsFile
  <2>3. files[x].stream = x
    BY <2>1 DEF FilesOK, IsFile
  <2>4. x = s
    BY <2>1, <2>2, <2>3
  <2> QED
    BY <2>1, <2>4
<1> QED
  BY <1>1, <1>2, <1>9, <1>10, <1>11, <1>12 DEF FilesOK, Unopened, Ready, Ended, Shut

LEMMA OpenFilesKeepsFiles ==
  ASSUME OptionsOK, BuffersOK, FilesOK, OpenFiles, [Next]_vars, ~ EnableEncoder
  PROVE  FilesOK'
<1>1. /\ pc = "open" /\ crashed = "no" /\ crashed' = "no" /\ ~ Live /\ ~ Live'
      /\ ring' = ring /\ Sensible(opts)
  <2>1. pc = "open" /\ crashed = "no" /\ UNCHANGED <<crashed, ring>>
    BY DEF OpenFiles, At, Running, data
  <2>2. ~ Live
    BY <2>1, NotLive DEF Ready
  <2> QED
    BY <2>1, <2>2, LiveBegins DEF OptionsOK
<1>2. CASE pc' = "exited" /\ UNCHANGED <<opts, files, open>>
  <2>1. Tuned(opts, opts')
    BY <1>2 DEF Tuned
  <2> QED
    BY <1>1, <1>2, <2>1, FilesStay DEF Unopened, Unmade, Shut
<1>3. ASSUME NEW fail \in [Streams -> CanFail("file")], NEW handle,
             handle = [s \in Streams |-> Opened(s, NameOf(s), 0, SegmentOf(opts), fail[s])],
             files' = handle, open' = {handle[s] : s \in Streams} \ {Null, Stdout},
             opts' = [opts EXCEPT
                    !.verbose = @ /\ opts.video # "-",
                    !.vectors = @ /\ (opts.imv = "none" \/ handle["imv"] # Null),
                    !.savePts = @ /\ (opts.pts = "none" \/ handle["pts"] # Null),
                    !.raw = @ /\ (opts.rawFile = "none" \/ handle["raw"] # Null)],
             pc' = "allocate"
      PROVE  FilesOK'
  <2>1. ASSUME NEW s \in Streams
        PROVE  /\ handle[s] \in {Null, Stdout} \/ /\ handle[s].kind = "file" /\ handle[s].stream = s
                                                  /\ handle[s].opening \in Nat
               /\ handle[s] = Null /\ NameOf(s) \notin {"none", "-"} => "file" \in Faults
    <3>1. handle[s] = Opened(s, NameOf(s), 0, SegmentOf(opts), fail[s])
      BY <1>3
    <3>2. fail[s] \in BOOLEAN /\ (fail[s] => "file" \in Faults)
      BY <1>3 DEF CanFail
    <3>3. CASE NameOf(s) = "none" \/ fail[s]
      BY <3>1, <3>2, <3>3 DEF Opened
    <3>4. CASE ~ (NameOf(s) = "none" \/ fail[s]) /\ NameOf(s) = "-"
      BY <3>1, <3>4 DEF Opened
    <3>5. CASE ~ (NameOf(s) = "none" \/ fail[s]) /\ NameOf(s) # "-"
      <4>1. handle[s] = Handle("file", s, 0, SegmentOf(opts))
        BY <3>1, <3>5, Zenon DEF Opened
      <4> QED
        BY <4>1, HandleFacts
    <3> QED
      BY <3>3, <3>4, <3>5
  <2>2. /\ \A f \in {"video", "imv", "pts", "rawFile"} : opts'[f] = opts[f]
        /\ opts'.vectors => opts.vectors /\ (opts.imv = "none" \/ handle["imv"] # Null)
        /\ opts'.savePts => opts.savePts /\ (opts.pts = "none" \/ handle["pts"] # Null)
        /\ opts'.raw => opts.raw /\ (opts.rawFile = "none" \/ handle["raw"] # Null)
    BY <1>3 DEF OptionsOK, Settings
  <2>3. \A s \in Streams : NameOf(s)' = NameOf(s)
    BY <2>2 DEF NameOf
  <2>4. Matched'
    <3>1. \A s \in Streams : Renewed(s)' /\ files'[s] = Null => "file" \in Faults
      BY <1>3, <2>1, <2>3 DEF Renewed
    <3> QED
      BY <1>1, <1>3, <2>2, <3>1 DEF Matched, Sensible
  <2>5. \A s \in Streams : files'[s] \in {Null, Stdout} \/ IsFile(s)'
    BY <1>3, <2>1 DEF IsFile
  <2>6. /\ open' \subseteq {files'[s] : s \in Streams}
        /\ \A s \in Streams : files'[s] \in {Null, Stdout} \cup open'
    BY <1>3
  <2> QED
    BY <1>1, <1>3, <2>4, <2>5, <2>6 DEF FilesOK, Unopened, Unmade, Shut
<1>4. CASE ~ (pc' = "exited" /\ UNCHANGED <<opts, files, open>>)
  <2>1. PICK fail \in [Streams -> CanFail("file")] :
          LET handle == [s \in Streams |-> Opened(s, NameOf(s), 0, SegmentOf(opts), fail[s])]
          IN  /\ files' = handle
              /\ open' = {handle[s] : s \in Streams} \ {Null, Stdout}
              /\ opts' = [opts EXCEPT
                    !.verbose = @ /\ opts.video # "-",
                    !.vectors = @ /\ (opts.imv = "none" \/ handle["imv"] # Null),
                    !.savePts = @ /\ (opts.pts = "none" \/ handle["pts"] # Null),
                    !.raw = @ /\ (opts.rawFile = "none" \/ handle["raw"] # Null)]
              /\ pc' = "allocate"
    BY <1>4, Zenon DEF OpenFiles, Goto
  <2>2. PICK handle : handle = [s \in Streams |-> Opened(s, NameOf(s), 0, SegmentOf(opts), fail[s])]
    OBVIOUS
  <2> QED
    BY <1>3, <2>1, <2>2, Zenon
<1> QED
  BY <1>2, <1>4

LEMMA FilesNext == OptionsOK /\ BuffersOK /\ RingOK /\ FilesOK /\ [Next]_vars => FilesOK'
<1> SUFFICES ASSUME OptionsOK, BuffersOK, RingOK, FilesOK, [Next]_vars PROVE FilesOK'
  OBVIOUS
<1>1. Onward
  BY MainGoesOnward
<1>2. CASE EnableEncoder
  <2>1. /\ pc = "enable_encoder" /\ UNCHANGED <<opts, held, callback, files, open, ring, crashed>>
        /\ crashed = "no"
        /\ pc' \in {"disable", "demo", "send_encoder", "sleep"}
        /\ pc' = "send_encoder" => files["video"] # Null
    BY <1>2 DEF EnableEncoder, At, Running, Goto, output, data
  <2>2. ~ Live
    BY <2>1, NotLive DEF Ready
  <2>3. Live' => pc' = "send_encoder"
    BY <2>1, <2>2 DEF Live, Quiet, Streaming
  <2>4. Matched'
    BY <2>1 DEF FilesOK, Matched, Renewed, NameOf
  <2> QED
    BY <2>1, <2>3, <2>4 DEF FilesOK, IsFile, Unopened, Unmade, Shut
<1>3. CASE Allocate
  <2>1. /\ pc = "allocate" /\ UNCHANGED <<opts, held, callback, files, open, crashed>>
        /\ pc' \in {"disable", "enable_encoder"}
    BY <1>3 DEF Allocate, At, Goto, output, buffers
  <2>2. ~ Live
    BY <2>1, NotLive DEF Ready
  <2>3. ~ Live'
    BY <2>1, <2>2 DEF Live, Quiet, Streaming
  <2>4. Matched' = Matched
    BY <2>1 DEF Matched, Renewed, NameOf
  <2> QED
    BY <2>1, <2>3, <2>4 DEF FilesOK, IsFile, Unopened, Unmade, Shut
<1>4. CASE CloseFiles
  <2>1. /\ pc = "close" /\ crashed = "no" /\ pc' = "components"
        /\ UNCHANGED <<opts, held, callback, files, crashed>>
        /\ open' = open \ {files[s] : s \in Streams}
    BY <1>4 DEF CloseFiles, At, Running, Goto, buffers
  <2>2. ~ Live
    BY <2>1, NotLive DEF Ended
  <2>3. ~ Live'
    BY <2>1, <2>2 DEF Live, Quiet, Streaming
  <2> QED
    BY <2>1, <2>3 DEF FilesOK, IsFile, Unopened, Unmade, Shut
<1>5. CASE ParseArgument \/ Begin
  <2>1. /\ pc = "arguments" /\ pc' \in {"arguments", "camera", "exited"}
        /\ UNCHANGED <<held, callback, files, open, crashed>>
    BY <1>5 DEF ParseArgument, Begin, At, Goto, output, buffers
  <2>2. ~ Live
    BY <2>1, NotLive DEF Unopened, Unmade
  <2>3. ~ Live'
    BY <2>1, <2>2 DEF Live, Quiet, Streaming
  <2> QED
    BY <2>1, <2>3 DEF FilesOK, IsFile, Unopened, Unmade, Shut
<1>6. CASE OpenFiles
  BY <1>2, <1>6, OpenFilesKeepsFiles
<1>7. CASE Headers
  <2>1. /\ HasBuffer("encoder") /\ UNCHANGED <<pc, ring>>
        /\ \/ UNCHANGED <<opts, files, open>>
           \/ \E fail \in [Streams -> CanFail("file")] : Split(fail)
    BY <1>7 DEF Headers, data
  <2>2. pc \notin Unopened \cup Ready \cup Ended
    <3>1. Live
      BY <2>1 DEF HasBuffer, Live, Quiet, Ports
    <3> QED
      BY <3>1, NotLive
  <2>3. CASE UNCHANGED <<opts, files, open>>
    <3>1. Tuned(opts, opts')
      BY <2>3 DEF Tuned
    <3> QED
      BY <1>2, <2>1, <2>2, <2>3, <3>1, FilesStay DEF Unopened, Ready, Ended, Shut
  <2>4. ASSUME NEW fail \in [Streams -> CanFail("file")], Split(fail) PROVE FilesOK'
    <3>1. fail \in [Streams -> BOOLEAN] /\ \A s \in Streams : fail[s] => "file" \in Faults
      BY <2>4 DEF CanFail
    <3> QED
      BY <1>2, <2>1, <2>4, <3>1, SplitKeepsFiles
  <2> QED
    BY <2>1, <2>3, <2>4
<1>8. CASE /\ ~ EnableEncoder /\ ~ Allocate /\ ~ CloseFiles /\ ~ ParseArgument /\ ~ Begin
           /\ ~ OpenFiles /\ ~ Headers
  <2>1. /\ UNCHANGED <<files, open>>
        /\ pc' \in {"allocate", "components", "enable_encoder"} => pc' = pc
    BY <1>8, FilesStill
  <2>2. Tuned(opts, opts')
    <3>1. CASE UNCHANGED vars
      BY <3>1 DEF Tuned, vars
    <3> QED
      BY <1>8, <3>1, OptionsAreTuned DEF OptionsOK
  <2>3. pc' \in Unopened \cup {"open"} => pc \in Unopened \cup {"open"}
    BY <1>1 DEF Onward, Unopened, Unmade
  <2>4. pc' \in Shut => pc \in Shut \/ pc \in Unopened \/ pc' = "components"
    BY <1>1 DEF Onward, Shut, Unopened, Unmade
  <2> QED
    BY <1>8, <2>1, <2>2, <2>3, <2>4, FilesStay DEF FilesOK, Shut
<1> QED
  BY <1>2, <1>3, <1>4, <1>5, <1>6, <1>7, <1>8

-----------------------------------------------------------------------------
(* What the recorder dies of                                               *)

Made(p) == p \in pools \/ "pool" \in Faults
Fed == {"connect", "connect_encoder", "enable_splitter"} \cup Ready
         \cup {"send_encoder", "send_splitter"}

(* A pool that main() sends from was made, if pools can be made.  Raw      *)
(* video comes only when there is a file for it.                           *)
PoolsOK ==
    /\ pc \in Fed \cup {"splitter"} => Made("encoder")
    /\ pc \in Fed /\ opts.raw => Made("splitter")
    /\ ~ Quiet("splitter") => opts.raw

LEMMA DeadStays ==
  ASSUME [Next]_vars, crashed # "no"
  PROVE  UNCHANGED vars
<1>1. ~ Running
  BY DEF Running
<1>2. ~ Build /\ ~ Capture
  BY <1>1
  DEF Build, ParseArgument, Begin, CreateCamera, CreatePreview, CreateEncoder, CreateSplitter,
      ConnectPreview, ConnectEncoder, EnableSplitter, OpenFiles, Allocate, EnableEncoder, Capture,
      SendToEncoder, SendToSplitter, Idle, Toggle, Wait, WaitOnce, WaitTimed, WaitKey, WaitSignal, At
<1>3. ~ CloseDown /\ ~ Deliver /\ ~ Interrupt
  BY <1>1
  DEF CloseDown, SaveEnd, SaveStart, DisablePorts, Disconnect, CloseFiles, DisableComponents,
      Destroy, Deliver, Headers, HasBuffer, SideInfo, Frame, RingFrame, RingOther, RawFrame,
      Interrupt, At
<1>4. \A p \in Ports : ~ Recycle(p)
  BY <1>1 DEF Recycle, Flush, Return, Resend, HasBuffer
<1> QED
  BY <1>2, <1>3, <1>4 DEF Next, Over

LEMMA PoolsStay ==
  ASSUME [Next]_vars, pc' # "done", ~ CreateEncoder, ~ CreateSplitter
  PROVE  /\ UNCHANGED pools
         /\ pc \in {"encoder", "splitter"} => pc' \in {pc, "exited"}
<1> USE DEF pipeline, At
<1>1. CASE Build
  BY <1>1
  DEF Build, ParseArgument, Begin, CreateCamera, CreatePreview, ConnectPreview, ConnectEncoder,
      EnableSplitter, OpenFiles, Allocate, EnableEncoder, GiveUp, Goto
<1>2. CASE Capture
  BY <1>2
  DEF Capture, SendToEncoder, SendToSplitter, Idle, Toggle, WaitOnce, WaitTimed, WaitKey,
      WaitSignal, Wait
<1>3. CASE CloseDown
  BY <1>3
  DEF CloseDown, SaveEnd, SaveStart, DisablePorts, Disconnect, CloseFiles, DisableComponents,
      Destroy, Goto
<1>4. CASE Deliver
  BY <1>4 DEF Deliver, Headers, SideInfo, Frame, RingFrame, RingOther, RawFrame
<1>5. ASSUME NEW p \in Ports, Recycle(p) PROVE UNCHANGED <<pools, pc>>
  BY <1>5 DEF Recycle, Flush, Return, Resend
<1>6. CASE Interrupt \/ UNCHANGED vars
  BY <1>6 DEF Interrupt, Goto, vars
<1> QED
  BY <1>1, <1>2, <1>3, <1>4, <1>5, <1>6 DEF Next, Over

(* The splitter's first buffer comes from main().                          *)
LEMMA SplitterStaysQuiet ==
  ASSUME BuffersOK, [Next]_vars, Quiet("splitter"), ~ SendToSplitter
  PROVE  Quiet("splitter")'
<1> USE DEF Quiet
<1>1. CASE Build
  BY <1>1
  DEF Build, ParseArgument, Begin, CreateCamera, CreatePreview, CreateEncoder, CreateSplitter,
      ConnectPreview, ConnectEncoder, EnableSplitter, OpenFiles, Allocate, EnableEncoder, buffers
<1>2. CASE SendToEncoder
  <2>1. held'["splitter"] = held["splitter"] /\ callback' = callback
    BY <1>2 DEF SendToEncoder, Send, Reaches, IsLost, BuffersOK, BufferTypes, Ports
  <2> QED
    BY <2>1
<1>3. CASE Capture /\ ~ SendToEncoder
  BY <1>3 DEF Capture, Idle, Toggle, WaitOnce, WaitTimed, WaitKey, WaitSignal, Wait, buffers
<1>4. CASE CloseDown
  BY <1>4
  DEF CloseDown, SaveEnd, SaveStart, DisablePorts, Disconnect, CloseFiles, DisableComponents,
      Destroy, buffers
<1>5. CASE Deliver
  <2>1. ~ HasBuffer("splitter")
    BY DEF HasBuffer
  <2>2. Release("encoder")
    BY <1>5, <2>1 DEF Deliver, Headers, SideInfo, Frame, RingFrame, RingOther, RawFrame
  <2> QED
    BY <2>2 DEF Release, BuffersOK, BufferTypes, Ports
<1>6. ASSUME NEW p \in Ports, Recycle(p) PROVE Quiet("splitter")'
  <2>1. p = "encoder"
    BY <1>6 DEF Recycle, Flush, Return, Resend, HasBuffer, Ports
  <2> QED
    BY <1>6, <2>1 DEF Recycle, Flush, Return, Resend, Reaches, IsLost, Release, BuffersOK, BufferTypes, Ports
<1>7. CASE Interrupt \/ UNCHANGED vars
  BY <1>7 DEF Interrupt, vars, buffers
<1> QED
  BY <1>1, <1>2, <1>3, <1>4, <1>5, <1>6, <1>7 DEF Next, Over

LEMMA PoolMakes ==
  ASSUME NEW p, Pool(p)
  PROVE  Made(p)'
BY DEF Pool, CanFail, Made

LEMMA PoolsNext == OptionsOK /\ BuffersOK /\ PoolsOK /\ [Next]_vars => PoolsOK'
<1> SUFFICES ASSUME OptionsOK, BuffersOK, PoolsOK, [Next]_vars PROVE PoolsOK'
  OBVIOUS
<1> USE DEF Fed, Ready
<1>1. Onward
  BY MainGoesOnward
<1>2. /\ pc' \in Fed \cup {"splitter"} => pc \in Fed \cup {"splitter", "encoder"}
      /\ pc' \in Fed /\ pc = "encoder" => ~ opts.raw
  BY <1>1 DEF Onward
<1>3. pc' \in Fed \cup {"splitter"} => (opts'.raw => opts.raw)
  <2>1. CASE ParseArgument \/ Begin
    <3>1. pc = "arguments"
      BY <2>1 DEF ParseArgument, Begin, At
    <3> QED
      BY <1>2, <3>1
  <2>2. CASE OpenFiles
    BY <2>2 DEF OpenFiles, OptionsOK, Settings
  <2>3. CASE UNCHANGED vars
    BY <2>3 DEF vars
  <2>4. CASE Next /\ ~ ParseArgument /\ ~ Begin /\ ~ OpenFiles
    BY <2>4, OptionsAreTuned DEF OptionsOK, Tuned, Kept
  <2> QED
    BY <2>1, <2>2, <2>3, <2>4
<1>4. ~ Quiet("splitter")' => opts'.raw
  <2> SUFFICES ASSUME ~ Quiet("splitter")' PROVE opts'.raw
    OBVIOUS
  <2>1. CASE SendToSplitter
    BY <2>1 DEF SendToSplitter, At, BuffersOK, Staged
  <2>2. CASE ~ SendToSplitter
    <3>1. ~ Quiet("splitter") /\ opts.raw
      BY <2>2, SplitterStaysQuiet DEF PoolsOK
    <3>2. pc \notin Unopened \cup Ready
      BY <3>1, QuietPlaces DEF Ports
    <3>3. ~ ParseArgument /\ ~ Begin /\ ~ OpenFiles
      BY <3>2 DEF ParseArgument, Begin, OpenFiles, At, Unopened, Unmade
    <3>4. CASE UNCHANGED vars
      BY <3>1, <3>4 DEF vars
    <3> QED
      BY <3>1, <3>3, <3>4, OptionsAreTuned DEF OptionsOK, Tuned, Kept
  <2> QED
    BY <2>1, <2>2
<1>5. CASE pc' \notin Fed \cup {"splitter"}
  BY <1>4, <1>5 DEF PoolsOK
<1>6. CASE pc' \in Fed \cup {"splitter"} /\ CreateEncoder
  <2>1. pc = "encoder" /\ opts'.raw = opts.raw
    BY <1>6, OptionsAreTuned DEF CreateEncoder, At, OptionsOK, Settings
  <2>2. Pool("encoder")
    BY <1>6, <2>1 DEF CreateEncoder, GiveUp, Goto
  <2>3. Made("encoder")'
    BY <2>2, PoolMakes
  <2> QED
    BY <1>2, <1>4, <1>6, <2>1, <2>3 DEF PoolsOK
<1>7. CASE pc' \in Fed \cup {"splitter"} /\ CreateSplitter
  <2>1. pc = "splitter" /\ Pool("splitter")
    BY <1>7 DEF CreateSplitter, GiveUp, Goto, At
  <2>2. Made("splitter")'
    BY <2>1, PoolMakes
  <2>3. Made("encoder")'
    BY <2>1 DEF PoolsOK, Made, Pool
  <2> QED
    BY <1>4, <2>2, <2>3 DEF PoolsOK
<1>8. CASE pc' \in Fed \cup {"splitter"} /\ ~ CreateEncoder /\ ~ CreateSplitter
  <2>1. pools' = pools /\ (pc \in {"encoder", "splitter"} => pc' \in {pc, "exited"})
    BY <1>8, PoolsStay
  <2>2. pc # "encoder" /\ (pc' \in Fed => pc # "splitter")
    BY <1>8, <2>1
  <2>3. Made("encoder")' = Made("encoder") /\ Made("splitter")' = Made("splitter")
    BY <2>1 DEF Made
  <2> HIDE DEF Fed
  <2> QED
    BY <1>2, <1>3, <1>4, <1>8, <2>2, <2>3 DEF PoolsOK
<1> QED
  BY <1>5, <1>6, <1>7, <1>8

LEMMA DiesOnlyIn ==
  ASSUME [Next]_vars, ~ CreateEncoder, ~ SendToEncoder, ~ SendToSplitter, ~ Headers, ~ SideInfo,
         ~ Frame, ~ RingFrame, ~ RawFrame
  PROVE  crashed' = crashed
<1>1. CASE Build
  BY <1>1
  DEF Build, ParseArgument, Begin, CreateCamera, CreatePreview, CreateSplitter,
      ConnectPreview, ConnectEncoder, EnableSplitter, OpenFiles, Allocate, EnableEncoder
<1>2. CASE Capture
  BY <1>2 DEF Capture, Idle, Toggle, WaitOnce, WaitTimed, WaitKey, WaitSignal, Wait
<1>3. CASE CloseDown
  BY <1>3
  DEF CloseDown, SaveEnd, SaveStart, DisablePorts, Disconnect, CloseFiles, DisableComponents, Destroy
<1>4. CASE Deliver
  BY <1>4 DEF Deliver, RingOther
<1>5. ASSUME NEW p \in Ports, Recycle(p) PROVE UNCHANGED crashed
  BY <1>5 DEF Recycle, Flush, Return, Resend
<1>6. CASE Interrupt \/ UNCHANGED vars
  BY <1>6 DEF Interrupt, vars
<1> QED
  BY <1>1, <1>2, <1>3, <1>4, <1>5, <1>6 DEF Next, Over

(* What a step that the process survives, or dies of as it may, leaves.    *)
Known ==
    \/ crashed' = "no"
    \/ crashed' = "null_component" /\ TooFast(opts)'
    \/ crashed' = "null_pool" /\ "pool" \in Faults
    \/ crashed' = "overrun" /\ opts'.circular /\ ring'.len < BufferUnits
    \/ crashed' = "null_close" /\ "file" \in Faults /\ opts'.headers
    \/ crashed' = "spins" /\ \A k \in stream'.keys : k <= stream'.units + BufferUnits - ring'.len

LEMMA CreateEncoderIsKnown ==
  ASSUME OptionsOK, CreateEncoder
  PROVE  Known
<1>1. crashed = "no"
  BY DEF CreateEncoder, At, Running
<1>2. crashed' = crashed \/ (TooFast(opts) /\ Crash("null_component"))
  BY Zenon DEF CreateEncoder
<1>3. \A f \in {"encoding", "width", "height", "framerate"} : opts'[f] = opts[f]
  BY DEF CreateEncoder, OptionsOK, Settings
<1>4. TooFast(opts) => TooFast(opts)'
  <2>1. Macroblocks(opts') = Macroblocks(opts)
    BY <1>3 DEF Macroblocks
  <2> QED
    BY <1>3, <2>1 DEF TooFast
<1> QED
  BY <1>1, <1>2, <1>4 DEF Known, Crash

LEMMA SendIsKnown ==
  ASSUME BuffersOK, PoolsOK, SendToEncoder \/ SendToSplitter
  PROVE  Known
<1>1. PICK p \in Ports, next \in {"send_splitter", "toggle"}, more \in {0, free["splitter"]} :
        /\ Send(p, next, more) /\ crashed = "no"
        /\ \/ pc = "send_encoder" /\ p = "encoder"
           \/ pc = "send_splitter" /\ p = "splitter"
  BY DEF SendToEncoder, SendToSplitter, At, Running, Ports
<1>2. p \notin pools => "pool" \in Faults
  BY <1>1 DEF PoolsOK, BuffersOK, Staged, Fed, Made
<1>3. p \in pools /\ left # 0 => free[p] > 0
  <2>1. p \in enabled /\ Reserved(p) /\ pc # "done"
    BY <1>1 DEF BuffersOK, Staged, Sending
  <2> QED
    BY <2>1, CountedIsFree
<1>4. p \in pools /\ left # 0 => free[p] # 0
  BY <1>3
<1>5. crashed' = crashed \/ (p \notin pools /\ Crash("null_pool"))
  BY <1>1, <1>4, Zenon DEF Send
<1> QED
  BY <1>1, <1>2, <1>5 DEF Known, Crash

(* What is written is written to a file that is open. *)
LEMMA WriteIsKnown ==
  ASSUME FilesOK, crashed = "no", NEW s \in Streams, files[s] # Null,
         pc \notin Shut \cup {"exited"}, Write(s, files, open)
  PROVE  crashed' = "no"
BY DEF FilesOK, Write, Crash

LEMMA HeadersAreKnown ==
  ASSUME OptionsOK, BuffersOK, FilesOK, Headers
  PROVE  Known
<1>1. /\ crashed = "no" /\ pc # "exited" /\ Live /\ HasBuffer("encoder")
      /\ UNCHANGED <<pc, ring>>
  BY DEF Headers, HasBuffer, Running, Live, Quiet, Ports, data
<1>2. pc \notin Shut \cup {"exited"}
  BY <1>1, NotLive DEF Shut, Ended
<1>3. CASE Write("video", files, open)
  BY <1>1, <1>2, <1>3, WriteIsKnown DEF FilesOK, Known, Streams
<1>4. ASSUME NEW fail \in [Streams -> CanFail("file")], NEW over, Due(over), Split(fail)
      PROVE  Known
  <2>1. fail \in [Streams -> BOOLEAN] /\ \A s \in Streams : fail[s] => "file" \in Faults
    BY <1>4 DEF CanFail
  <2>2. /\ files'["video"] # Null
        /\ files'["video"] \in {Null, Stdout} \cup open'
    BY <1>1, <1>4, <2>1, SplitKeepsFiles DEF Streams
  <2>3. PICK number : number = NextNumber(opts)
    OBVIOUS
  <2>4. PICK handle : handle = [s \in Streams |-> Reopened(s, number, fail[s])]
    OBVIOUS
  <2>5. PICK closed : closed = {files[s] : s \in {x \in Streams : handle[x] # files[x]}}
    OBVIOUS
  <2>6. /\ files' = handle
        /\ IF Null \in closed THEN Crash("null_close") /\ UNCHANGED abort
                              ELSE Write("video", handle, open')
    BY <1>4, <2>3, <2>4, <2>5 DEF Split
  <2>7. Null \in closed => "file" \in Faults
    <3> SUFFICES ASSUME Null \in closed PROVE "file" \in Faults
      OBVIOUS
    <3>1. PICK s \in Streams : handle[s] # files[s] /\ files[s] = Null
      BY <2>5
    <3>2. Renewed(s)
      BY <2>4, <3>1 DEF Reopened
    <3> QED
      BY <1>1, <3>1, <3>2 DEF FilesOK, Matched
  <2>8. opts'.headers
    <3>1. opts.headers
      BY <1>1, <1>4 DEF Due, OptionsOK, Sensible
    <3> QED
      BY <1>4, <3>1, SplitTunes DEF OptionsOK, Tuned, Fixed
  <2>9. CASE Null \in closed
    BY <2>6, <2>7, <2>8, <2>9 DEF Crash, Known
  <2>10. CASE Null \notin closed
    <3>1. crashed' = crashed
      BY <2>2, <2>6, <2>10 DEF Write
    <3> QED
      BY <1>1, <3>1 DEF Known
  <2> QED
    BY <2>9, <2>10
<1> QED
  BY <1>3, <1>4 DEF Headers

LEMMA FramesAreKnown ==
  ASSUME OptionsOK, BuffersOK, FilesOK, PoolsOK, SideInfo \/ Frame \/ RawFrame
  PROVE  Known
<1>1. PICK p \in Ports : HasBuffer(p) /\ (RawFrame => p = "splitter")
  BY DEF SideInfo, Frame, RawFrame, Ports
<1>2. crashed = "no" /\ pc # "exited" /\ ~ Quiet(p)
  BY <1>1 DEF HasBuffer, Running, Quiet
<1>3. Live
  BY <1>2 DEF Live
<1>4. pc \notin Shut \cup {"exited"}
  BY <1>2, <1>3, NotLive DEF Shut, Ended
<1>5. Matched /\ files["video"] # Null
  BY <1>3 DEF FilesOK
<1>6. CASE SideInfo
  <2>1. (opts.vectors /\ Write("imv", files, open)) \/ crashed' = crashed
    BY <1>6 DEF SideInfo
  <2> QED
    BY <1>2, <1>4, <1>5, <2>1, WriteIsKnown DEF Matched, Known, Streams
<1>7. CASE Frame
  <2>1. Write("video", files, open)
    BY <1>5, <1>7 DEF Frame, Matched
  <2> QED
    BY <1>2, <1>4, <1>5, <2>1, WriteIsKnown DEF Known, Streams
<1>8. CASE RawFrame
  <2>1. Write("raw", files, open) /\ opts.raw
    BY <1>1, <1>2, <1>8 DEF RawFrame, PoolsOK
  <2> QED
    BY <1>2, <1>4, <1>5, <2>1, WriteIsKnown DEF Matched, Known, Streams
<1> QED
  BY <1>6, <1>7, <1>8

(* The loop over the list of intra frames stops at the newest, unless that *)
(* is about to be written over.                                            *)
LEMMA NewestStops ==
  ASSUME RingShape(ring), StreamShape, ring.len > 0, Recorded,
         NEW n \in 1 .. BufferUnits, NEW key \in BOOLEAN, NEW last \in BOOLEAN,
         Spins(Noted(ring, key, last), n), NEW k \in stream.keys
  PROVE  k <= stream.units + BufferUnits - ring.len
<1> SUFFICES ASSUME ~ (k <= stream.units + BufferUnits - ring.len) PROVE FALSE
  OBVIOUS
<1>0. PICK L \in Nat \ {0} : L = ring.len
  BY DEF RingShape
<1>1. PICK a : a = Noted(ring, key, last)
  OBVIOUS
<1>2. /\ a.len = ring.len /\ a.wptr = ring.wptr /\ a.rpos = ring.rpos
      /\ a.iframes = IF key THEN [ring.iframes EXCEPT ![ring.wpos] = FrameStart(ring)] ELSE ring.iframes
      /\ a.wpos = IF key THEN NextSlot(ring.wpos) ELSE ring.wpos
  BY <1>1, NotedFacts DEF IsNoted
<1>3. /\ ring.wpos \in Slots /\ ring.rpos \in Slots
      /\ ring.iframes \in [Slots -> 0 .. L - 1]
      /\ ring.len = L /\ ring.wptr \in 0 .. L - 1
  BY <1>0 DEF RingShape, Span
<1>4. PICK u \in Nat : u = stream.units
  BY DEF StreamShape
<1>5. PICK m \in 1 .. u : k <= m /\ (m > u - L => ring.iframes[Prev(ring.wpos)] = Place(m))
  BY <1>3, <1>4 DEF Recorded, NewestNoted
<1>6. L \in Nat /\ L > 0 /\ BufferUnits \in Nat
  BY RecorderAssumption
<1>7. k \in Nat /\ k > u + BufferUnits - L
  BY <1>3, <1>4, <1>6 DEF StreamShape
<1>8. PICK w \in 0 .. L - 1 : w = ring.wptr
  BY <1>3
<1>9. PICK d \in 1 .. L - BufferUnits : d = u - m + 1
  BY <1>5, <1>6, <1>7
<1>10. PICK p : p = Place(m)
  OBVIOUS
<1>11. p = IF d <= w THEN w - d ELSE w - d + L
  BY <1>3, <1>4, <1>8, <1>9, <1>10 DEF Place, Back
<1>12. ring.iframes[Prev(ring.wpos)] = p
  BY <1>5, <1>6, <1>7, <1>10
<1>13. ~ RunsOver(a, n, p)
  BY <1>2, <1>3, <1>6, <1>8, <1>11 DEF RunsOver
<1>14. StopsAt(a, n) = {} /\ NextSlot(a.rpos) # a.wpos
  BY <1>1 DEF Spins
<1>15. Prev(ring.wpos) # ring.wpos /\ Prev(ring.wpos) \in Slots
  <2>1. IframeSlots # 1
    <3> SUFFICES ASSUME IframeSlots = 1 PROVE FALSE
      OBVIOUS
    <3>1. Slots = {0}
      BY DEF Slots
    <3>2. NextSlot(a.rpos) \in Slots /\ a.wpos \in Slots
      BY <1>2, <1>3, NextSlotFacts
    <3> QED
      BY <1>14, <3>1, <3>2
  <2> QED
    BY <1>3, <2>1, IframeSlotsAssumption DEF Prev, Slots
<1>16. a.iframes[Prev(ring.wpos)] = p
  BY <1>2, <1>3, <1>12, <1>15
<1>17. Prev(ring.wpos) \in StopsAt(a, n)
  BY <1>13, <1>15, <1>16 DEF StopsAt
<1> QED
  BY <1>14, <1>17

LEMMA RingFramesAreKnown ==
  ASSUME OptionsOK, BuffersOK, RingOK, FilesOK, RingFrame
  PROVE  Known
<1>1. crashed = "no" /\ opts.circular /\ HasBuffer("encoder") /\ UNCHANGED opts
  BY DEF RingFrame, HasBuffer, Running
<1>2. ring.len \in Nat /\ ring.wptr \in 0 .. Span(ring) - 1 /\ BufferUnits \in Nat
  BY RecorderAssumption DEF RingOK, RingShape
<1>4. CASE crashed' = crashed
  BY <1>1, <1>4 DEF Known
<1>5. ASSUME NEW n \in 1 .. BufferUnits, Overruns(ring, n), crashed' = "overrun",
             UNCHANGED <<ring, stream>>
      PROVE  Known
  <2>1. ring.len < BufferUnits
    BY <1>2, <1>5 DEF Overruns, Span
  <2> QED
    BY <1>1, <1>5, <2>1 DEF Known
<1>6. ASSUME NEW n \in 1 .. BufferUnits, NEW key \in BOOLEAN, NEW last \in BOOLEAN,
             Spins(Noted(ring, key, last), n), crashed' = "spins", UNCHANGED <<ring, stream>>
      PROVE  Known
  <2>1. \A k \in stream.keys : k <= stream.units + BufferUnits - ring.len
    <3>1. CASE ring.len = 0
      BY <3>1 DEF RingOK, NoStream
    <3>2. CASE ring.len > 0
      BY <1>6, <3>2, NewestStops DEF RingOK
    <3> QED
      BY <1>2, <3>1, <3>2
  <2> QED
    BY <1>6, <2>1 DEF Known
<1> QED
  BY <1>4, <1>5, <1>6 DEF RingFrame, Crash

LEMMA CrashesNext ==
  ASSUME OptionsOK, BuffersOK, RingOK, FilesOK, PoolsOK, KnownCrashes, [Next]_vars
  PROVE  KnownCrashes'
<1>1. CASE crashed # "no"
  <2>1. UNCHANGED vars
    BY <1>1, DeadStays
  <2> QED
    BY <2>1 DEF vars, data, KnownCrashes, TooFast, Macroblocks
<1>2. CASE crashed = "no"
  <2>1. Known
    <3>1. CASE crashed' = crashed
      BY <1>2, <3>1 DEF Known
    <3> QED
      BY <3>1, DiesOnlyIn, CreateEncoderIsKnown, SendIsKnown, HeadersAreKnown, FramesAreKnown,
         RingFramesAreKnown
  <2> QED
    BY <2>1 DEF Known, KnownCrashes
<1> QED
  BY <1>1, <1>2

IInv == OptionsOK /\ BuffersOK /\ RingOK /\ FilesOK /\ PoolsOK /\ KnownCrashes

LEMMA InvariantInit == Init => IInv
<1> SUFFICES ASSUME Init PROVE IInv
  OBVIOUS
<1>1. PoolsOK
  BY DEF Init, PoolsOK, Fed, Ready, Quiet, Ports
<1>2. KnownCrashes
  BY DEF Init, KnownCrashes
<1> QED
  BY <1>1, <1>2, OptionsInit, BuffersInit, RingInit, FilesInit DEF IInv

LEMMA InvariantNext == IInv /\ [Next]_vars => IInv'
BY OptionsNext, BuffersNext, RingNext, FilesNext, PoolsNext, CrashesNext DEF IInv

(* The recorder dies of nothing but what KnownCrashes lists, for any       *)
(* command lines, faults and sizes; the options it runs with agree.        *)
THEOREM RecorderRunsSafely == Spec => []RunsSafely
<1>1. IInv => RunsSafely
  BY DEF IInv, RunsSafely, OptionsAgree, OptionsOK, Sensible
<1> QED
  BY <1>1, InvariantInit, InvariantNext, PTL DEF Spec

-----------------------------------------------------------------------------
(* What is taken is given back                                             *)

ResourceTypes ==
    /\ component \in [Components -> {"none", "enabled", "disabled"}]
    /\ connections \subseteq {"preview", "splitter", "encoder"}
    /\ status \in BOOLEAN /\ abort \in BOOLEAN /\ late \in BOOLEAN
    /\ left \in 0 .. PoolSize + ring.len

(* The preview's connection is taken down with the others only when there  *)
(* is to be a preview: there is none otherwise.                            *)
Returned ==
    /\ pc \in Unmade \cup {"splitter", "connect"} \cup Ended => connections = {}
    /\ "preview" \in connections => opts.preview
    /\ pc = "done" => pools = {} /\ \A c \in Components : component[c] = "none"

ResourceInv == ResourceTypes /\ Returned

LEMMA ResourceInit == Init => ResourceInv
<1> SUFFICES ASSUME Init PROVE ResourceInv
  OBVIOUS
<1>1. PoolSize \in Nat /\ ring.len = 0
  BY RecorderAssumption DEF Init, EmptyRing
<1>2. ResourceTypes
  <2>1. /\ component = [c \in Components |-> "none"] /\ connections = {}
        /\ status = TRUE /\ abort = FALSE /\ late = FALSE /\ left = 0
    BY DEF Init
  <2>2. status \in BOOLEAN /\ abort \in BOOLEAN /\ late \in BOOLEAN
    BY <2>1, Zenon
  <2>3. left \in 0 .. PoolSize + ring.len
    BY <1>1, <2>1
  <2>4. component \in [Components -> {"none", "enabled", "disabled"}]
    BY <2>1
  <2> QED
    BY <2>1, <2>2, <2>3, <2>4 DEF ResourceTypes
<1>3. Returned
  BY DEF Init, Returned
<1> QED
  BY <1>2, <1>3 DEF ResourceInv

LEMMA ComponentTypes ==
  ASSUME component \in [Components -> {"none", "enabled", "disabled"}], [Next]_vars
  PROVE  component' \in [Components -> {"none", "enabled", "disabled"}]
<1> USE DEF pipeline
<1>1. CASE ParseArgument \/ Begin \/ ConnectPreview \/ ConnectEncoder \/ EnableSplitter \/ OpenFiles
           \/ Allocate \/ EnableEncoder
  BY <1>1 DEF ParseArgument, Begin, ConnectPreview, ConnectEncoder, EnableSplitter, OpenFiles,
              Allocate, EnableEncoder
<1>2. CASE CreateCamera \/ CreatePreview \/ CreateEncoder \/ CreateSplitter
  <2>1. \/ UNCHANGED component \/ GiveUp
        \/ \E c \in Components : Created(c)
    BY <1>2 DEF CreateCamera, CreatePreview, CreateEncoder, CreateSplitter, Components
  <2> QED
    BY <2>1 DEF GiveUp, Created
<1>3. CASE Capture
  BY <1>3
  DEF Capture, SendToEncoder, SendToSplitter, Idle, Toggle, WaitOnce, WaitTimed, WaitKey,
      WaitSignal, Wait
<1>4. CASE CloseDown
  <2>1. \/ UNCHANGED component
        \/ component' = [c \in Components |-> "none"]
        \/ component' = [c \in Components |->
                           IF component[c] = "enabled" THEN "disabled" ELSE component[c]]
    BY <1>4
    DEF CloseDown, SaveEnd, SaveStart, DisablePorts, Disconnect, CloseFiles, DisableComponents,
        Destroy
  <2> QED
    BY <2>1
<1>5. CASE Deliver
  BY <1>5 DEF Deliver, Headers, SideInfo, Frame, RingFrame, RingOther, RawFrame
<1>6. ASSUME NEW p \in Ports, Recycle(p) PROVE UNCHANGED component
  BY <1>6 DEF Recycle, Flush, Return, Resend
<1>7. CASE Interrupt \/ UNCHANGED vars
  BY <1>7 DEF Interrupt, vars
<1> QED
  BY <1>1, <1>2, <1>3, <1>4, <1>5, <1>6, <1>7 DEF Next, Over, Build

LEMMA FlagTypes ==
  ASSUME status \in BOOLEAN, abort \in BOOLEAN, late \in BOOLEAN, [Next]_vars
  PROVE  status' \in BOOLEAN /\ abort' \in BOOLEAN /\ late' \in BOOLEAN
<1> USE DEF pipeline, output, run
<1>1. CASE Build
  <2>1. CASE ParseArgument \/ Begin \/ CreateCamera \/ CreatePreview
    BY <2>1 DEF ParseArgument, Begin, CreateCamera, CreatePreview, GiveUp
  <2>2. CASE CreateEncoder \/ CreateSplitter
    BY <2>2 DEF CreateEncoder, CreateSplitter, GiveUp
  <2>3. CASE ConnectPreview
    <3>1. UNCHANGED <<abort, late>> /\ \E b, c, d : status' = (~ (b /\ c) /\ ~ d)
      BY <2>3 DEF ConnectPreview
    <3> QED
      BY <3>1
  <2>4. CASE ConnectEncoder \/ EnableSplitter \/ EnableEncoder
    <3>1. late' = late /\ abort' \in {abort, FALSE} /\ \E b : status' = ~ b
      BY <2>4 DEF ConnectEncoder, EnableSplitter, EnableEncoder
    <3> QED
      BY <3>1
  <2>5. CASE OpenFiles \/ Allocate
    BY <2>5 DEF OpenFiles, Allocate
  <2> QED
    BY <1>1, <2>1, <2>2, <2>3, <2>4, <2>5 DEF Build
<1>2. CASE Capture
  <2>1. UNCHANGED <<status, abort>> /\ late' \in {late, TRUE}
    BY <1>2
    DEF Capture, SendToEncoder, SendToSplitter, Idle, Toggle, WaitOnce, WaitTimed, WaitKey,
        WaitSignal, Wait
  <2> QED
    BY <2>1
<1>3. CASE CloseDown
  BY <1>3
  DEF CloseDown, SaveEnd, SaveStart, DisablePorts, Disconnect, CloseFiles, DisableComponents,
      Destroy
<1>4. CASE Deliver
  <2>1. ASSUME NEW s, NEW now, NEW nowOpen, Write(s, now, nowOpen) PROVE abort' \in BOOLEAN
    BY <2>1 DEF Write, CanFail
  <2>2. UNCHANGED <<status, late>>
    BY <1>4 DEF Deliver, Headers, SideInfo, Frame, RingFrame, RingOther, RawFrame
  <2>3. UNCHANGED abort \/ \E s, now, nowOpen : Write(s, now, nowOpen)
    BY <1>4, Zenon
    DEF Deliver, Headers, Split, SideInfo, Frame, RingFrame, RingOther, RawFrame
  <2> QED
    BY <2>1, <2>2, <2>3
<1>5. ASSUME NEW p \in Ports, Recycle(p) PROVE UNCHANGED <<status, abort, late>>
  BY <1>5 DEF Recycle, Flush, Return, Resend
<1>6. CASE Interrupt \/ UNCHANGED vars
  BY <1>6 DEF Interrupt, vars
<1> QED
  BY <1>1, <1>2, <1>3, <1>4, <1>5, <1>6 DEF Next, Over

LEMMA LeftTypes ==
  ASSUME left \in 0 .. PoolSize + ring.len, OptionsOK, BuffersOK, RingOK, [Next]_vars
  PROVE  left' \in 0 .. PoolSize + ring'.len
<1> USE DEF run
<1>0. PICK L \in Nat : L = ring.len
  BY DEF RingOK, RingShape
<1>1. PoolSize \in Nat /\ left \in 0 .. PoolSize + L
  BY <1>0, RecorderAssumption
<1>2. \A p \in Ports : free[p] \in 0 .. PoolSize
  <2> SUFFICES ASSUME NEW p \in Ports PROVE free[p] \in 0 .. PoolSize
    OBVIOUS
  <2>1. held[p] \in Nat /\ free[p] \in Nat /\ lost[p] \in Nat /\ Out(p) <= PoolSize
    BY DEF BuffersOK, BufferTypes, Conserved
  <2> QED
    BY <1>1, <2>1 DEF Out
<1>3. ASSUME EnableEncoder PROVE left' \in 0 .. PoolSize + L
  BY <1>1, <1>2, <1>3 DEF EnableEncoder, Ports
<1>4. ASSUME SendToEncoder \/ SendToSplitter PROVE left' \in 0 .. PoolSize + L
  <2>1. ASSUME NEW p, NEW next, NEW more, Send(p, next, more), more \in {0, free["splitter"]}
        PROVE  left' \in {left, 0, free["splitter"]} \/ (left # 0 /\ left' = left - 1)
    BY <2>1 DEF Send
  <2>2. PICK p \in Ports, next \in {"send_splitter", "toggle"}, more \in {0, free["splitter"]} :
          Send(p, next, more)
    BY <1>4 DEF SendToEncoder, SendToSplitter, Ports
  <2> QED
    BY <1>1, <1>2, <2>1, <2>2 DEF Ports
<1>5. ASSUME SaveEnd PROVE left' \in 0 .. PoolSize + L
  <2>1. left' = 0 \/ left' = ToStart(ring)
    BY <1>5 DEF SaveEnd
  <2>2. CASE L = 0
    <3>1. left' = 0
      BY <1>0, <1>5, <2>2 DEF SaveEnd
    <3> QED
      BY <1>1, <3>1
  <2>3. CASE L > 0
    <3>1. ring.iframes[ring.rpos] \in 0 .. L - 1 /\ ring.wptr \in 0 .. L - 1
      BY <1>0, <2>3 DEF RingOK, RingShape, Span
    <3>2. ToStart(ring) \in 0 .. L - 1
      BY <3>1 DEF ToStart, From
    <3> QED
      BY <1>1, <2>1, <3>2
  <2> QED
    BY <2>2, <2>3
<1>6. ASSUME SaveStart PROVE left' \in 0 .. PoolSize + L
  BY <1>1, <1>6 DEF SaveStart
<1>7. ASSUME Build /\ ~ EnableEncoder PROVE left' \in 0 .. PoolSize + L
  BY <1>1, <1>7
  DEF Build, ParseArgument, Begin, CreateCamera, CreatePreview, CreateEncoder, CreateSplitter,
      ConnectPreview, ConnectEncoder, EnableSplitter, OpenFiles, Allocate
<1>8. ASSUME Capture /\ ~ SendToEncoder /\ ~ SendToSplitter PROVE left' \in 0 .. PoolSize + L
  BY <1>1, <1>8 DEF Capture, Idle, Toggle, WaitOnce, WaitTimed, WaitKey, WaitSignal, Wait
<1>9. ASSUME CloseDown /\ ~ SaveEnd /\ ~ SaveStart PROVE left' \in 0 .. PoolSize + L
  BY <1>1, <1>9 DEF CloseDown, DisablePorts, Disconnect, CloseFiles, DisableComponents, Destroy
<1>10. ASSUME Deliver PROVE left' \in 0 .. PoolSize + L
  BY <1>1, <1>10 DEF Deliver, Headers, SideInfo, Frame, RingFrame, RingOther, RawFrame
<1>11. ASSUME NEW p \in Ports, Recycle(p) PROVE UNCHANGED left
  BY <1>11 DEF Recycle, Flush, Return, Resend
<1>12. ASSUME Interrupt \/ UNCHANGED vars PROVE left' \in 0 .. PoolSize + L
  BY <1>1, <1>12 DEF Interrupt, vars
<1>13. left' \in 0 .. PoolSize + L
  BY <1>1, <1>3, <1>4, <1>5, <1>6, <1>7, <1>8, <1>9, <1>10, <1>11, <1>12 DEF Next, Over
<1>14. ring'.len \in Nat /\ L <= ring'.len
  <2>1. RingOK'
    BY RingNext
  <2>2. ring'.len \in Nat
    BY <2>1 DEF RingOK, RingShape
  <2>3. CASE Allocate
    BY <1>0, <2>2, <2>3 DEF RingOK, Allocate, At
  <2>4. CASE ~ Allocate
    BY <1>0, <2>4, RingStays, RingFrameKeepsRing
  <2> QED
    BY <2>2, <2>3, <2>4
<1> QED
  BY <1>1, <1>13, <1>14

LEMMA ConnectionsStay ==
  ASSUME [Next]_vars, ~ ConnectPreview, ~ ConnectEncoder, ~ Disconnect
  PROVE  UNCHANGED connections /\ (pc' = "close" => pc = "close")
<1> USE DEF pipeline, Goto
<1>1. CASE Build
  <2>1. CASE ParseArgument \/ Begin \/ CreateCamera \/ CreatePreview
    BY <2>1 DEF ParseArgument, Begin, CreateCamera, CreatePreview, GiveUp
  <2>2. CASE CreateEncoder \/ CreateSplitter
    BY <2>2 DEF CreateEncoder, CreateSplitter, GiveUp
  <2>3. CASE EnableSplitter \/ OpenFiles \/ Allocate \/ EnableEncoder
    BY <2>3 DEF EnableSplitter, OpenFiles, Allocate, EnableEncoder
  <2> QED
    BY <1>1, <2>1, <2>2, <2>3 DEF Build
<1>2. CASE Capture
  BY <1>2
  DEF Capture, SendToEncoder, SendToSplitter, Send, Idle, Toggle, WaitOnce, WaitTimed, WaitKey,
      WaitSignal, Wait, Continue
<1>3. CASE CloseDown
  BY <1>3
  DEF CloseDown, SaveEnd, SaveStart, DisablePorts, CloseFiles, DisableComponents, Destroy
<1>4. CASE Deliver
  BY <1>4 DEF Deliver, Headers, SideInfo, Frame, RingFrame, RingOther, RawFrame
<1>5. ASSUME NEW p \in Ports, Recycle(p) PROVE UNCHANGED <<connections, pc>>
  BY <1>5 DEF Recycle, Flush, Return, Resend
<1>6. CASE Interrupt \/ UNCHANGED vars
  BY <1>6 DEF Interrupt, vars
<1> QED
  BY <1>1, <1>2, <1>3, <1>4, <1>5, <1>6 DEF Next, Over

LEMMA DoneIsClean ==
  ASSUME [Next]_vars, pc' = "done"
  PROVE  \/ pc = "done" /\ UNCHANGED <<pools, component>>
         \/ pools' = {} /\ component' = [c \in Components |-> "none"]
<1> USE DEF pipeline, Goto, At
<1>1. CASE Build
  <2>1. CASE CreateCamera \/ CreatePreview
    BY <2>1 DEF CreateCamera, CreatePreview, GiveUp
  <2>2. CASE CreateEncoder \/ CreateSplitter
    BY <2>2 DEF CreateEncoder, CreateSplitter, GiveUp
  <2>3. CASE ParseArgument \/ Begin \/ ConnectPreview \/ ConnectEncoder \/ EnableSplitter
    BY <2>3 DEF ParseArgument, Begin, ConnectPreview, ConnectEncoder, EnableSplitter
  <2>4. CASE OpenFiles \/ Allocate \/ EnableEncoder
    BY <2>4 DEF OpenFiles, Allocate, EnableEncoder
  <2> QED
    BY <1>1, <2>1, <2>2, <2>3, <2>4 DEF Build
<1>2. CASE Capture
  BY <1>2
  DEF Capture, SendToEncoder, SendToSplitter, Send, Idle, Toggle, WaitOnce, WaitTimed, WaitKey,
      WaitSignal, Wait, Continue
<1>3. CASE CloseDown
  BY <1>3
  DEF CloseDown, SaveEnd, SaveStart, DisablePorts, Disconnect, CloseFiles, DisableComponents,
      Destroy
<1>4. CASE Deliver
  BY <1>4 DEF Deliver, Headers, SideInfo, Frame, RingFrame, RingOther, RawFrame
<1>5. ASSUME NEW p \in Ports, Recycle(p) PROVE UNCHANGED <<pools, component, pc>>
  BY <1>5 DEF Recycle, Flush, Return, Resend
<1>6. CASE Interrupt \/ UNCHANGED vars
  BY <1>6 DEF Interrupt, vars
<1> QED
  BY <1>1, <1>2, <1>3, <1>4, <1>5, <1>6 DEF Next, Over

LEMMA ResourceNext == IInv /\ ResourceInv /\ [Next]_vars => ResourceInv'
<1> SUFFICES ASSUME IInv, ResourceInv, [Next]_vars PROVE ResourceInv'
  OBVIOUS
<1>1. OptionsOK /\ BuffersOK /\ RingOK
  BY DEF IInv
<1>2. Onward
  BY MainGoesOnward
<1>3. /\ connections' \subseteq {"preview", "splitter", "encoder"}
      /\ pc' \in Unmade \cup {"splitter", "connect"} \cup Ended => connections' = {}
      /\ "preview" \in connections' => opts'.preview
  <2>1. CASE ConnectPreview
    <3>1. opts' = opts /\ pc' \in {"disable", "save", "connect_encoder"}
          /\ connections' \subseteq {"splitter", "preview"}
          /\ ("preview" \in connections' => opts.preview)
      BY <2>1 DEF ConnectPreview, Goto
    <3> QED
      BY <3>1 DEF Unmade, Ended
  <2>2. CASE ConnectEncoder
    <3>1. opts' = opts /\ pc' \in {"disable", "enable_splitter"}
          /\ connections' \in {connections, connections \cup {"encoder"}}
      BY <2>2 DEF ConnectEncoder, Goto
    <3> QED
      BY <3>1 DEF Unmade, Ended, ResourceInv, ResourceTypes, Returned
  <2>3. CASE Disconnect
    <3>1. connections' = {}
      BY <2>3 DEF Disconnect, ResourceInv, Returned
    <3> QED
      BY <3>1
  <2>4. CASE ~ ConnectPreview /\ ~ ConnectEncoder /\ ~ Disconnect
    <3>1. connections' = connections /\ (pc' = "close" => pc = "close")
      BY <2>4, ConnectionsStay
    <3>2. pc' \in Unmade \cup {"splitter", "connect"} \cup Ended =>
            pc \in Unmade \cup {"splitter", "connect"} \cup Ended
      BY <1>2, <3>1 DEF Onward, Unmade, Ended
    <3>3. "preview" \in connections => opts'.preview = opts.preview
      <4>1. CASE pc = "arguments"
        BY <4>1 DEF Unmade, ResourceInv, Returned
      <4>2. CASE OpenFiles
        BY <1>1, <4>2 DEF OpenFiles, OptionsOK, Settings
      <4>3. CASE UNCHANGED vars
        BY <4>3 DEF vars
      <4>4. CASE Next /\ pc # "arguments" /\ ~ OpenFiles
        <5>1. ~ ParseArgument /\ ~ Begin
          BY <4>4 DEF ParseArgument, Begin, At
        <5> QED
          BY <1>1, <4>4, <5>1, OptionsAreTuned DEF OptionsOK, Tuned, Fixed
      <4> QED
        BY <4>1, <4>2, <4>3, <4>4
    <3> QED
      BY <3>1, <3>2, <3>3 DEF ResourceInv, ResourceTypes, Returned
  <2> QED
    BY <2>1, <2>2, <2>3, <2>4
<1>4. pc' = "done" => pools' = {} /\ \A c \in Components : component'[c] = "none"
  BY DoneIsClean DEF ResourceInv, Returned
<1>5. ResourceTypes'
  BY <1>1, <1>3, ComponentTypes, FlagTypes, LeftTypes DEF ResourceInv, ResourceTypes
<1> QED
  BY <1>3, <1>4, <1>5 DEF ResourceInv, Returned

LEMMA ResourcesFollow == IInv /\ ResourceInv => ResourcesOK
<1> SUFFICES ASSUME IInv, ResourceInv PROVE ResourcesOK
  OBVIOUS
<1>1. BufferTypes /\ Staged /\ \A p \in Ports : Conserved(p)
  BY DEF IInv, BuffersOK
<1>2. \A p \in Ports : /\ held[p] \in 0 .. PoolSize /\ free[p] \in 0 .. PoolSize
                       /\ lost[p] \in 0 .. PoolSize
  <2> SUFFICES ASSUME NEW p \in Ports
               PROVE  /\ held[p] \in 0 .. PoolSize /\ free[p] \in 0 .. PoolSize
                      /\ lost[p] \in 0 .. PoolSize
    OBVIOUS
  <2>1. /\ held[p] \in Nat /\ free[p] \in Nat /\ lost[p] \in Nat
        /\ Out(p) <= PoolSize /\ PoolSize \in Nat
    BY <1>1, RecorderAssumption DEF BufferTypes, Conserved
  <2> QED
    BY <2>1 DEF Out
<1>3. TypeOK
  <2>1. /\ held \in [Ports -> 0 .. PoolSize] /\ free \in [Ports -> 0 .. PoolSize]
        /\ lost \in [Ports -> 0 .. PoolSize]
    BY <1>1, <1>2 DEF BufferTypes
  <2>2. {status, abort, late} \subseteq BOOLEAN /\ component \in [Components -> {"none", "enabled", "disabled"}]
        /\ connections \subseteq {"preview", "splitter", "encoder"} /\ left \in 0 .. PoolSize + ring.len
    BY DEF ResourceInv, ResourceTypes
  <2> QED
    BY <1>1, <2>1, <2>2 DEF TypeOK, BufferTypes, Ports
<1>4. BuffersConserved
  BY <1>1 DEF BuffersConserved, BufferTypes, Conserved
<1>5. NothingLeft
  <2> SUFFICES ASSUME pc = "done"
               PROVE  /\ \A c \in Components : component[c] = "none"
                      /\ pools = {} /\ connections = {} /\ open = {} /\ enabled = {}
    BY DEF NothingLeft
  <2>1. open = {}
    BY DEF IInv, FilesOK, Shut
  <2>2. enabled = {}
    BY <1>1 DEF Staged, Ended
  <2>3. connections = {} /\ pools = {} /\ \A c \in Components : component[c] = "none"
    BY DEF ResourceInv, Returned, Ended
  <2> QED
    BY <2>1, <2>2, <2>3
<1> QED
  BY <1>3, <1>4, <1>5 DEF ResourcesOK

(* What the recorder takes of MMAL and of files it gives back, whatever    *)
(* the options are and whatever fails, and while a port is enabled no      *)
(* buffer of its pool is lost but those whose sending failed.              *)
THEOREM ResourcesAreGivenBack == Spec => []ResourcesOK
<1>1. Init => IInv /\ ResourceInv
  BY InvariantInit, ResourceInit
<1>2. (IInv /\ ResourceInv) /\ [Next]_vars => (IInv /\ ResourceInv)'
  BY InvariantNext, ResourceNext
<1> QED
  BY <1>1, <1>2, ResourcesFollow, PTL DEF Spec

-----------------------------------------------------------------------------
(* Recordings and segments                                                 *)

Counts(t) == /\ DOMAIN t = {"switched", "segments", "recordings", "initial"}
             /\ t.switched \in Nat /\ t.segments \in Nat /\ t.recordings \in Nat

(* The pause a run begins with is remembered until the first switch.       *)
SwitchesOK ==
    /\ Counts(toggles)
    /\ pc = "arguments" => toggles.segments = 0 /\ ~ opts.splitNow
    /\ pc = "wait" => toggles.switched > 0
    /\ pc \in {"send_splitter", "toggle"} /\ toggles.switched = 0 =>
         (toggles.initial <=> opts.capturing)
    /\ SplitsFollowRecordings

LEMMA SwitchesInit == Init => SwitchesOK
BY DEF Init, SwitchesOK, Counts, NoToggles, Default, SplitsFollowRecordings

LEMMA SwitchesStay ==
  ASSUME Settings \subseteq DOMAIN opts, [Next]_vars, ~ ParseArgument, ~ Toggle, ~ Headers
  PROVE  opts'.splitNow = opts.splitNow /\ opts'.capturing = opts.capturing
<1>1. CASE UNCHANGED opts
  BY <1>1
<1>2. CASE Begin
  BY <1>2 DEF Begin, Parsed, Settings
<1>3. CASE CreateCamera
  BY <1>3 DEF CreateCamera, Settings
<1>4. CASE CreateEncoder
  BY <1>4 DEF CreateEncoder, Settings
<1>5. CASE OpenFiles
  BY <1>5 DEF OpenFiles, Settings
<1>6. CASE Over \/ UNCHANGED vars
  BY <1>6 DEF Over, vars
<1> QED
  BY <1>1, <1>2, <1>3, <1>4, <1>5, <1>6, OptionsStay DEF Next, Build, Capture, Deliver

LEMMA TogglesStay ==
  ASSUME [Next]_vars, ~ Toggle, ~ Headers, ~ SendToEncoder
  PROVE  /\ UNCHANGED toggles
         /\ pc' = "wait" => pc = "wait"
         /\ pc = "send_encoder" => pc' \in {"send_encoder", "exited"}
<1> USE DEF run, At, Goto
<1>1. CASE Build
  <2>1. CASE ParseArgument \/ Begin \/ CreateCamera \/ CreatePreview
    BY <2>1 DEF ParseArgument, Begin, CreateCamera, CreatePreview, GiveUp
  <2>2. CASE CreateEncoder \/ CreateSplitter
    BY <2>2 DEF CreateEncoder, CreateSplitter, GiveUp
  <2>3. CASE ConnectPreview \/ ConnectEncoder \/ EnableSplitter
    BY <2>3 DEF ConnectPreview, ConnectEncoder, EnableSplitter
  <2>4. CASE OpenFiles \/ Allocate \/ EnableEncoder
    BY <2>4 DEF OpenFiles, Allocate, EnableEncoder
  <2> QED
    BY <1>1, <2>1, <2>2, <2>3, <2>4 DEF Build
<1>2. CASE Capture
  BY <1>2
  DEF Capture, SendToSplitter, Send, Idle, WaitOnce, WaitTimed, WaitKey, WaitSignal, Wait, Continue
<1>3. CASE CloseDown
  BY <1>3
  DEF CloseDown, SaveEnd, SaveStart, DisablePorts, Disconnect, CloseFiles, DisableComponents, Destroy
<1>4. CASE Deliver
  BY <1>4 DEF Deliver, SideInfo, Frame, RingFrame, RingOther, RawFrame
<1>5. ASSUME NEW p \in Ports, Recycle(p) PROVE UNCHANGED <<toggles, pc>>
  BY <1>5 DEF Recycle, Flush, Return, Resend
<1>6. CASE Interrupt \/ UNCHANGED vars
  BY <1>6 DEF Interrupt, vars
<1> QED
  BY <1>1, <1>2, <1>3, <1>4, <1>5, <1>6 DEF Next, Over

LEMMA SwitchesNext == OptionsOK /\ BuffersOK /\ SwitchesOK /\ [Next]_vars => SwitchesOK'
<1> SUFFICES ASSUME OptionsOK, BuffersOK, SwitchesOK, [Next]_vars PROVE SwitchesOK'
  OBVIOUS
<1>1. Onward
  BY MainGoesOnward
<1>2. Settings \subseteq DOMAIN opts
  BY DEF OptionsOK
<1>3. /\ toggles.switched \in Nat /\ toggles.segments \in Nat /\ toggles.recordings \in Nat
      /\ DOMAIN toggles = {"switched", "segments", "recordings", "initial"}
  BY DEF SwitchesOK, Counts
<1>4. pc # "arguments" => opts'.segmentSize = opts.segmentSize
  <2> SUFFICES ASSUME pc # "arguments" PROVE opts'.segmentSize = opts.segmentSize
    OBVIOUS
  <2>1. ~ ParseArgument /\ ~ Begin
    BY DEF ParseArgument, Begin, At
  <2>2. CASE OpenFiles
    BY <1>2, <2>2 DEF OpenFiles, Settings
  <2>3. CASE UNCHANGED vars
    BY <2>3 DEF vars
  <2> QED
    BY <1>2, <2>1, <2>2, <2>3, OptionsAreTuned DEF Tuned, Fixed
<1>5. CASE ParseArgument
  <2>1. /\ pc = "arguments" /\ toggles' = toggles /\ pc' \in {"arguments", "exited"}
    BY <1>5 DEF ParseArgument, At, Goto, run
  <2>2. PICK a \in Arguments : a = Head(opts.argv)
    BY <1>5 DEF ParseArgument, OptionsOK
  <2>3. PICK last : last = (Len(opts.argv) = 1)
    OBVIOUS
  <2>4. PICK read : read = Parse(opts, a, last)
    OBVIOUS
  <2>5. Keeps(opts, read)
    <3>1. a.name # "none" /\ a.num \in Int
      BY <2>2 DEF Arguments
    <3> QED
      BY <1>2, <2>4, <3>1, ParseKeeps
  <2>6. opts' = [read.options EXCEPT !.argv = Tail(@)]
    BY <1>5, <2>2, <2>3, <2>4 DEF ParseArgument
  <2>7. ~ opts'.splitNow
    BY <1>2, <2>1, <2>5, <2>6 DEF Keeps, Settings, SwitchesOK
  <2> QED
    BY <1>3, <2>1, <2>7 DEF SwitchesOK, Counts, SplitsFollowRecordings
<1>6. CASE SendToEncoder
  <2>1. /\ pc = "send_encoder" /\ opts' = opts
        /\ toggles' = [toggles EXCEPT !.initial = opts.capturing]
    BY <1>6 DEF SendToEncoder, At
  <2>2. Counts(toggles') /\ toggles'.segments = toggles.segments
        /\ toggles'.recordings = toggles.recordings /\ (toggles'.initial <=> opts.capturing)
    BY <1>3, <2>1 DEF Counts
  <2>3. pc' # "wait" /\ pc' # "arguments"
    BY <1>1, <2>1 DEF Onward
  <2> QED
    BY <2>1, <2>2, <2>3 DEF SwitchesOK, SplitsFollowRecordings
<1>7. CASE Headers
  <2>1. UNCHANGED pc
    BY <1>7 DEF Headers
  <2>2. ~ Quiet("encoder")
    BY <1>7 DEF Headers, HasBuffer, Quiet
  <2>3. pc # "arguments"
    BY <2>2, QuietPlaces DEF Ports, Unopened, Unmade
  <2>4. CASE UNCHANGED <<opts, toggles>>
    BY <2>1, <2>4 DEF SwitchesOK, Counts, SplitsFollowRecordings
  <2>5. ASSUME NEW fail, NEW over, Due(over), Split(fail) PROVE SwitchesOK'
    <3>1. PICK number : opts' = [opts EXCEPT !.splitNow = FALSE, !.segmentNumber = number]
      BY <2>5 DEF Split
    <3>2. ~ opts'.splitNow /\ opts'.capturing = opts.capturing
      BY <1>2, <3>1 DEF Settings
    <3>3. toggles' = [toggles EXCEPT !.segments = @ + 1]
      BY <2>5 DEF Split
    <3>4. /\ Counts(toggles') /\ toggles'.segments = toggles.segments + 1
          /\ toggles'.recordings = toggles.recordings /\ toggles'.switched = toggles.switched
          /\ toggles'.initial = toggles.initial
      BY <1>3, <3>3 DEF Counts
    <3>5. opts.segmentSize = 0 => opts.splitNow
      BY <2>5 DEF Due
    <3>6. SplitsFollowRecordings'
      BY <1>3, <1>4, <2>3, <3>2, <3>4, <3>5 DEF SwitchesOK, SplitsFollowRecordings
    <3> QED
      BY <2>1, <2>3, <3>2, <3>4, <3>6 DEF SwitchesOK
  <2> QED
    BY <1>7, <2>4, <2>5 DEF Headers
<1>8. CASE Toggle
  <2>1. /\ pc = "toggle" /\ pc' \in {"save", "wait"}
        /\ opts' = [opts EXCEPT !.capturing = ~ opts.capturing,
              !.splitNow = @ \/ (SplitAsked(~ opts.capturing) /\ ~(opts.circular /\ opts.capturing))]
    BY <1>8 DEF Toggle, At, Goto
  <2>2. toggles' = [toggles EXCEPT !.switched = @ + 1,
              !.recordings = IF opts.capturing /\ toggles.switched > 0 THEN @ + 1 ELSE @,
              !.initial = @ /\ ~opts.splitWait]
    BY <1>8 DEF Toggle
  <2>3. opts'.splitNow => opts.splitNow \/ (opts.capturing /\ ~ toggles.initial)
    BY <1>2, <2>1 DEF Settings, SplitAsked
  <2>4. /\ Counts(toggles') /\ toggles'.segments = toggles.segments
        /\ toggles'.switched = toggles.switched + 1
        /\ toggles'.recordings = IF opts.capturing /\ toggles.switched > 0
                                 THEN toggles.recordings + 1 ELSE toggles.recordings
    BY <1>3, <2>2 DEF Counts
  <2>5. SplitsFollowRecordings'
    <3>1. CASE opts'.splitNow => opts.splitNow
      BY <1>3, <1>4, <2>1, <2>4, <3>1 DEF SwitchesOK, SplitsFollowRecordings
    <3>2. CASE opts.capturing /\ ~ toggles.initial
      <4>1. toggles.switched > 0
        BY <1>3, <2>1, <3>2 DEF SwitchesOK
      <4> QED
        BY <1>3, <1>4, <2>1, <2>4, <3>2, <4>1 DEF SwitchesOK, SplitsFollowRecordings
    <3> QED
      BY <2>3, <3>1, <3>2
  <2> QED
    BY <1>3, <2>1, <2>4, <2>5 DEF SwitchesOK
<1>9. CASE ~ ParseArgument /\ ~ SendToEncoder /\ ~ Headers /\ ~ Toggle
  <2>1. /\ toggles' = toggles
        /\ pc' = "wait" => pc = "wait"
        /\ pc = "send_encoder" => pc' \in {"send_encoder", "exited"}
    BY <1>9, TogglesStay
  <2>2. opts'.splitNow = opts.splitNow /\ opts'.capturing = opts.capturing
    BY <1>2, <1>9, SwitchesStay
  <2>3. pc' = "arguments" => pc = "arguments"
    BY <1>1 DEF Onward
  <2>5. pc' \in {"send_splitter", "toggle"} => pc \in {"send_splitter", "toggle", "wait"}
    BY <1>1, <2>1 DEF Onward
  <2>6. SplitsFollowRecordings'
    BY <1>3, <1>4, <2>1, <2>2 DEF SwitchesOK, SplitsFollowRecordings
  <2> QED
    BY <1>3, <2>1, <2>2, <2>3, <2>5, <2>6 DEF SwitchesOK
<1> QED
  BY <1>5, <1>6, <1>7, <1>8, <1>9

(* At most one new file for each recording that was paused.                *)
THEOREM SplitsAreCounted == Spec => []SplitsFollowRecordings
<1>1. Init => IInv /\ SwitchesOK
  BY InvariantInit, SwitchesInit
<1>2. (IInv /\ SwitchesOK) /\ [Next]_vars => (IInv /\ SwitchesOK)'
  BY InvariantNext, SwitchesNext DEF IInv
<1>3. IInv /\ SwitchesOK => SplitsFollowRecordings
  BY DEF SwitchesOK
<1> QED
  BY <1>1, <1>2, <1>3, PTL DEF Spec

-----------------------------------------------------------------------------
(* What is saved of the circular buffer                                    *)

Saving == {"disable", "drain", "close"}
EndPart == Cells(ring, From(ring), ToEnd(ring))
StartPart == Cells(ring, 0, ToStart(ring))

(* Nothing writes to the ring while the capture is paused, so what was     *)
(* saved of it is still what it holds.                                     *)
SavedOK ==
    /\ pc \notin Saving \cup Shut \cup {"save_start", "exited"} => saved = <<>>
    /\ pc = "save_start" /\ ~ opts.capturing =>
         ring.len > 0 /\ saved = EndPart /\ left = ToStart(ring)
    /\ pc \in Saving /\ ~ opts.capturing =>
         saved = <<>> \/ (ring.len > 0 /\ saved = EndPart \o StartPart)

LEMMA SavedInit == Init => SavedOK
BY DEF Init, SavedOK, Saving

LEMMA SavedStays ==
  ASSUME [Next]_vars, ~ SaveEnd, ~ SaveStart
  PROVE  /\ UNCHANGED saved
         /\ pc = "save_start" => UNCHANGED left /\ pc' \in {"save_start", "exited"}
         /\ pc' = "save_start" => pc = "save_start"
<1> USE DEF data, run, At, Goto
<1>1. CASE Build
  <2>1. CASE ParseArgument \/ Begin \/ CreateCamera \/ CreatePreview
    BY <2>1 DEF ParseArgument, Begin, CreateCamera, CreatePreview, GiveUp
  <2>2. CASE CreateEncoder \/ CreateSplitter
    BY <2>2 DEF CreateEncoder, CreateSplitter, GiveUp
  <2>3. CASE ConnectPreview \/ ConnectEncoder \/ EnableSplitter
    BY <2>3 DEF ConnectPreview, ConnectEncoder, EnableSplitter
  <2>4. CASE OpenFiles \/ Allocate \/ EnableEncoder
    BY <2>4 DEF OpenFiles, Allocate, EnableEncoder
  <2> QED
    BY <1>1, <2>1, <2>2, <2>3, <2>4 DEF Build
<1>2. CASE Capture
  <2>1. CASE SendToEncoder \/ SendToSplitter
    BY <2>1 DEF SendToEncoder, SendToSplitter, Send
  <2>2. CASE Idle \/ Toggle \/ WaitOnce \/ WaitTimed \/ WaitKey \/ WaitSignal
    BY <2>2 DEF Idle, Toggle, WaitOnce, WaitTimed, WaitKey, WaitSignal, Wait, Continue
  <2> QED
    BY <1>2, <2>1, <2>2 DEF Capture
<1>3. CASE CloseDown
  BY <1>3 DEF CloseDown, DisablePorts, Disconnect, CloseFiles, DisableComponents, Destroy
<1>4. CASE Deliver
  BY <1>4 DEF Deliver, Headers, SideInfo, Frame, RingFrame, RingOther, RawFrame
<1>5. ASSUME NEW p \in Ports, Recycle(p) PROVE UNCHANGED <<saved, left, pc>>
  BY <1>5 DEF Recycle, Flush, Return, Resend
<1>6. CASE Interrupt \/ UNCHANGED vars
  BY <1>6 DEF Interrupt, vars
<1> QED
  BY <1>1, <1>2, <1>3, <1>4, <1>5, <1>6 DEF Next, Over

LEMMA SavedNext == OptionsOK /\ SavedOK /\ [Next]_vars => SavedOK'
<1> SUFFICES ASSUME OptionsOK, SavedOK, [Next]_vars PROVE SavedOK'
  OBVIOUS
<1>1. Onward
  BY MainGoesOnward
<1>2. CASE SaveEnd
  <2>1. /\ pc = "save" /\ opts' = opts /\ ring' = ring
        /\ \/ pc' = "save_start" /\ ring.len > 0 /\ saved' = EndPart /\ left' = ToStart(ring)
           \/ pc' = "disable" /\ saved' = saved
    BY <1>2 DEF SaveEnd, At, Goto, EndPart
  <2>2. saved = <<>>
    BY <2>1 DEF SavedOK, Saving, Shut
  <2>3. EndPart' = EndPart /\ ToStart(ring)' = ToStart(ring)
    BY <2>1 DEF EndPart
  <2> QED
    BY <2>1, <2>2, <2>3 DEF SavedOK, Saving, Shut
<1>3. CASE SaveStart
  <2>1. /\ pc = "save_start" /\ pc' = "disable" /\ opts' = opts /\ ring' = ring
        /\ saved' = saved \o Cells(ring, 0, left)
    BY <1>3 DEF SaveStart, At, Goto
  <2>2. EndPart' = EndPart /\ StartPart' = StartPart
    BY <2>1 DEF EndPart, StartPart
  <2>3. ~ opts.capturing => saved' = EndPart \o StartPart /\ ring.len > 0
    BY <2>1 DEF SavedOK, StartPart
  <2> QED
    BY <2>1, <2>2, <2>3 DEF SavedOK, Saving, Shut
<1>4. CASE ~ SaveEnd /\ ~ SaveStart
  <2>1. /\ saved' = saved
        /\ pc = "save_start" => left' = left /\ pc' \in {"save_start", "exited"}
        /\ pc' = "save_start" => pc = "save_start"
    BY <1>4, SavedStays
  <2>2. pc' \notin Saving \cup Shut \cup {"save_start", "exited"} =>
          pc \notin Saving \cup Shut \cup {"save_start", "exited"}
    BY <1>1, ShutStays DEF Onward, Saving, Shut
  <2>3. pc' \in Saving => pc \in Saving \/ saved = <<>>
    BY <1>1, <2>1 DEF Onward, SavedOK, Saving, Shut
  <2>4. CASE pc \in Saving \cup {"save_start"} /\ ~ opts'.capturing
    <3>1. opts'.capturing = opts.capturing
      <4>1. ~ ParseArgument /\ ~ Toggle
        BY <2>4 DEF ParseArgument, Toggle, At, Saving
      <4>2. CASE Headers
        <5>1. UNCHANGED opts \/ \E number : opts' = [opts EXCEPT !.splitNow = FALSE, !.segmentNumber = number]
          BY <4>2, Zenon DEF Headers, Split
        <5> QED
          BY <5>1 DEF OptionsOK, Settings
      <4> QED
        BY <4>1, <4>2, SwitchesStay DEF OptionsOK
    <3>2. ~ RingFrame /\ ~ Allocate
      BY <2>4, <3>1 DEF RingFrame, Allocate, At, Saving
    <3>3. ring' = ring
      BY <3>2, RingStays
    <3>4. EndPart' = EndPart /\ StartPart' = StartPart /\ ToStart(ring)' = ToStart(ring)
      BY <3>3 DEF EndPart, StartPart
    <3> QED
      BY <2>1, <2>2, <2>3, <2>4, <3>1, <3>3, <3>4 DEF SavedOK
  <2>5. CASE pc \notin Saving \cup {"save_start"}
    BY <2>1, <2>2, <2>3, <2>5 DEF SavedOK
  <2>6. CASE opts'.capturing
    BY <2>1, <2>2, <2>6 DEF SavedOK
  <2> QED
    BY <2>4, <2>5, <2>6
<1> QED
  BY <1>2, <1>3, <1>4

(* A list that is given by its elements. *)
LEMMA ListedFacts ==
  ASSUME NEW n \in Nat, NEW f, NEW s, s = [i \in 1 .. n |-> f[i]],
         \A i \in 1 .. n : f[i] \in Nat
  PROVE  s \in Seq(Nat) /\ Len(s) = n /\ \A i \in 1 .. n : s[i] = f[i]
OBVIOUS

LEMMA Joined ==
  ASSUME NEW s \in Seq(Nat), NEW t \in Seq(Nat), NEW whole, whole = s \o t
  PROVE  /\ whole \in Seq(Nat) /\ Len(whole) = Len(s) + Len(t)
         /\ \A i \in 1 .. Len(s) : whole[i] = s[i]
         /\ \A i \in 1 .. Len(t) : whole[Len(s) + i] = t[i]
OBVIOUS

(* Units in a row up to the newest are the end of the stream.              *)
LEMMA EndOfStream ==
  ASSUME NEW s \in Seq(Nat), stream.units \in Nat,
         \A i \in 1 .. Len(s) : s[i] = stream.units - Len(s) + i,
         s # <<>> => s[1] \in stream.keys
  PROVE  Whole(s)
<1>1. s = [i \in 1 .. Len(s) |-> s[i]] /\ DOMAIN s = 1 .. Len(s)
  OBVIOUS
<1>2. s = [i \in DOMAIN s |-> stream.units - Len(s) + i]
  BY <1>1
<1> QED
  BY <1>2 DEF Whole

LEMMA SavedIsWhole == RingOK /\ SavedOK => PausedSaveIsWhole
<1> SUFFICES ASSUME RingOK, SavedOK, Saved, ~ opts.capturing, ~ Unnoticed,
                    ring.wrapped => Listed /\ ~ Lapped(ring)
             PROVE  Whole(saved)
  BY DEF PausedSaveIsWhole
<1>1. stream.units \in Nat
  BY DEF RingOK, StreamShape
<1>2. PICK s : s = saved
  OBVIOUS
<1>3. CASE saved = <<>>
  <2>1. s \in Seq(Nat) /\ Len(s) = 0 /\ s = <<>>
    BY <1>2, <1>3
  <2>2. \A i \in 1 .. Len(s) : s[i] = stream.units - Len(s) + i
    BY <2>1
  <2>3. Whole(s)
    BY <1>1, <2>1, <2>2, EndOfStream, Zenon
  <2> QED
    BY <1>2, <2>3
<1>4. CASE ring.len > 0 /\ saved = EndPart \o StartPart
  <2>1. Placed /\ Framed
    BY <1>4 DEF RingOK, Recorded
  <2>2. PICK L \in Nat : L = ring.len /\ L > 0
    BY <1>4 DEF RingOK, RingShape
  <2>3. PICK u \in Nat : u = stream.units
    BY <1>1
  <2>4. PICK w \in 0 .. L - 1 : w = ring.wptr
    BY <2>2 DEF RingOK, RingShape, Span
  <2>5. PICK f \in 0 .. L - 1 : f = From(ring)
    BY <2>2 DEF RingOK, RingShape, Span, From
  <2>6. PICK r : r = ring
    OBVIOUS
  <2>7. \A p \in 0 .. L - 1 : r.cells[p] \in Nat
    BY <2>2, <2>6 DEF RingOK, RingShape
  <2>8. ASSUME NEW p \in 0 .. L - 1, p < w \/ u >= L, u >= w
        PROVE  r.cells[p] = IF p < w THEN u - w + p + 1 ELSE u - w - L + p + 1
    <3>1. Held(p) = IF p < w THEN u - w + p + 1 ELSE u - w - L + p + 1
      BY <2>2, <2>3, <2>4 DEF Held
    <3>2. Held(p) > 0
      BY <2>2, <2>8, <3>1
    <3> QED
      BY <2>1, <2>2, <2>6, <3>1, <3>2 DEF Placed
  <2>9. PICK e, t : e = EndPart /\ t = StartPart
    OBVIOUS
  <2>10. s = e \o t
    BY <1>2, <1>4, <2>9
  <2>11. ASSUME ToStart(ring) = w
         PROVE  t \in Seq(Nat) /\ Len(t) = w /\ \A i \in 1 .. w : t[i] = r.cells[i - 1]
    <3>1. t = [i \in 1 .. w |-> r.cells[0 + i - 1]]
      BY <2>6, <2>9, <2>11 DEF StartPart, Cells
    <3>2. PICK g : g = [i \in 1 .. w |-> r.cells[0 + i - 1]]
      OBVIOUS
    <3>3. \A i \in 1 .. w : g[i] = r.cells[i - 1] /\ i - 1 \in 0 .. L - 1
      BY <3>2
    <3>4. \A i \in 1 .. w : g[i] \in Nat
      BY <2>7, <3>3
    <3>5. t = [i \in 1 .. w |-> g[i]] /\ w \in Nat
      BY <3>1, <3>2
    <3>6. t \in Seq(Nat) /\ Len(t) = w /\ \A i \in 1 .. w : t[i] = g[i]
      BY <3>4, <3>5, ListedFacts
    <3> QED
      BY <3>3, <3>6
  <2>12. CASE ~ ring.wrapped
    <3>1. u <= L
      BY <2>2, <2>3, <2>12 DEF Unnoticed
    <3>2. w = IF u < L THEN u ELSE 0
      BY <2>1, <2>2, <2>3, <2>4, <3>1 DEF Placed
    <3>3. ToEnd(ring) = 0 /\ ToStart(ring) = w
      BY <2>4, <2>12 DEF ToEnd, ToStart
    <3>4. e \in Seq(Nat) /\ Len(e) = 0
      <4>1. e = [i \in 1 .. 0 |-> r.cells[f + i - 1]]
        BY <2>5, <2>6, <2>9, <3>3 DEF EndPart, Cells
      <4> QED
        BY <4>1
    <3>5. t \in Seq(Nat) /\ Len(t) = w /\ \A i \in 1 .. w : t[i] = r.cells[i - 1]
      BY <2>11, <3>3
    <3>6. s \in Seq(Nat) /\ Len(s) = w /\ \A i \in 1 .. w : s[i] = r.cells[i - 1]
      <4>1. /\ s \in Seq(Nat) /\ Len(s) = Len(e) + Len(t)
            /\ \A i \in 1 .. Len(t) : s[Len(e) + i] = t[i]
        BY <2>10, <3>4, <3>5, Joined
      <4> QED
        BY <3>4, <3>5, <4>1
    <3>7. ASSUME NEW i \in 1 .. w PROVE s[i] = u - w + i
      <4>1. i - 1 \in 0 .. L - 1 /\ i - 1 < w /\ u >= w
        BY <3>2
      <4>2. r.cells[i - 1] = u - w + (i - 1) + 1
        BY <2>8, <4>1
      <4> QED
        BY <3>6, <4>2
    <3>8. s # <<>> => s[1] \in stream.keys
      <4> SUFFICES ASSUME s # <<>> PROVE s[1] \in stream.keys
        OBVIOUS
      <4>1. w > 0
        BY <3>6
      <4>2. s[1] = 1 /\ u > 0
        BY <3>2, <3>7, <4>1
      <4> QED
        BY <2>1, <2>3, <4>2 DEF Framed
    <3>9. Whole(s)
      BY <1>1, <2>3, <3>6, <3>7, <3>8, EndOfStream
    <3> QED
      BY <1>2, <3>9
  <2>13. CASE ring.wrapped
    <3>1. u > L
      BY <2>1, <2>2, <2>3, <2>13 DEF Placed
    <3>2. f >= w /\ r.cells[f] \in stream.keys
      BY <2>4, <2>5, <2>6, <2>13 DEF Lapped, Listed
    <3>3. ToEnd(ring) = L - f /\ ToStart(ring) = w
      BY <2>2, <2>4, <2>5, <2>13, <3>2 DEF ToEnd, ToStart
    <3>4. PICK n \in 1 .. L : n = L - f
      OBVIOUS
    <3>5. e \in Seq(Nat) /\ Len(e) = n /\ \A i \in 1 .. n : e[i] = r.cells[f + i - 1]
      <4>1. e = [i \in 1 .. n |-> r.cells[f + i - 1]]
        BY <2>5, <2>6, <2>9, <3>3, <3>4 DEF EndPart, Cells
      <4>2. PICK g : g = [i \in 1 .. n |-> r.cells[f + i - 1]]
        OBVIOUS
      <4>3. \A i \in 1 .. n : g[i] = r.cells[f + i - 1] /\ f + i - 1 \in 0 .. L - 1
        BY <3>4, <4>2
      <4>4. \A i \in 1 .. n : g[i] \in Nat
        BY <2>7, <4>3
      <4>5. e = [i \in 1 .. n |-> g[i]] /\ n \in Nat
        BY <4>1, <4>2
      <4>6. e \in Seq(Nat) /\ Len(e) = n /\ \A i \in 1 .. n : e[i] = g[i]
        BY <4>4, <4>5, ListedFacts
      <4> QED
        BY <4>3, <4>6
    <3>6. t \in Seq(Nat) /\ Len(t) = w /\ \A i \in 1 .. w : t[i] = r.cells[i - 1]
      BY <2>11, <3>3
    <3>7. /\ s \in Seq(Nat) /\ Len(s) = n + w
          /\ \A i \in 1 .. n : s[i] = r.cells[f + i - 1]
          /\ \A i \in 1 .. w : s[n + i] = r.cells[i - 1]
      <4>1. /\ s \in Seq(Nat) /\ Len(s) = Len(e) + Len(t)
            /\ \A i \in 1 .. Len(e) : s[i] = e[i]
            /\ \A i \in 1 .. Len(t) : s[Len(e) + i] = t[i]
        BY <2>10, <3>5, <3>6, Joined
      <4> QED
        BY <3>5, <3>6, <4>1
    <3>8. ASSUME NEW i \in 1 .. n + w PROVE s[i] = u - (n + w) + i
      <4>1. CASE i <= n
        <5>1. PICK p \in 0 .. L - 1 : p = f + i - 1 /\ ~ (p < w)
          BY <3>2, <3>4, <4>1
        <5>2. r.cells[p] = u - w - L + p + 1
          BY <2>8, <3>1, <5>1
        <5>3. s[i] = r.cells[p]
          BY <3>7, <4>1, <5>1
        <5> QED
          BY <3>4, <5>1, <5>2, <5>3
      <4>2. CASE i > n
        <5>1. PICK j \in 1 .. w : i = n + j
          BY <4>2
        <5>2. PICK p \in 0 .. L - 1 : p = j - 1 /\ p < w
          OBVIOUS
        <5>3. r.cells[p] = u - w + p + 1
          BY <2>8, <3>1, <5>2
        <5>4. s[i] = r.cells[p]
          BY <3>7, <5>1, <5>2
        <5> QED
          BY <5>1, <5>2, <5>3, <5>4
      <4> QED
        BY <4>1, <4>2
    <3>9. s[1] \in stream.keys
      <4>1. s[1] = r.cells[f + 1 - 1]
        BY <3>7
      <4>2. f + 1 - 1 = f
        OBVIOUS
      <4> QED
        BY <3>2, <4>1, <4>2
    <3>10. Whole(s)
      BY <1>1, <2>3, <3>7, <3>8, <3>9, EndOfStream
    <3> QED
      BY <1>2, <3>10
  <2> QED
    BY <2>12, <2>13
<1> QED
  BY <1>3, <1>4 DEF SavedOK, Saved, Saving

(* What is saved of a paused stream is the end of it, in order, from an    *)
(* intra frame on, as long as the list knows one that is still whole.      *)
THEOREM PausedSavesAreWhole == Spec => []PausedSaveIsWhole
<1>1. Init => IInv /\ SavedOK
  BY InvariantInit, SavedInit
<1>2. (IInv /\ SavedOK) /\ [Next]_vars => (IInv /\ SavedOK)'
  BY InvariantNext, SavedNext DEF IInv
<1>3. IInv /\ SavedOK => PausedSaveIsWhole
  BY SavedIsWhole DEF IInv
<1> QED
  BY <1>1, <1>2, <1>3, PTL DEF Spec
=============================================================================
