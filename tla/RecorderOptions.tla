-------------------------- MODULE RecorderOptions --------------------------
(***************************************************************************)
(* The options of tech_tests/RaspiVid.c: default_status() and              *)
(* parse_cmdline(), one operator per shape of option.  An argument is a    *)
(* record: cmd names the option, num is the number that follows it (Bad    *)
(* when sscanf cannot read one, Nothing when the command line ends there), *)
(* name is the kind of file name.  Options the recorder only passes on to  *)
(* the firmware unread (camera number, sensor mode, quantisation) are      *)
(* plain numbers; texts are left out.                                      *)
(***************************************************************************)
EXTENDS Integers

Bad == -1
Nothing == -2
Names == {"none", "-", "file", "tcp", "udp", "tcp_malformed"}

\* The options, and the arguments that have not been read yet.
Default(argv) ==
           [argv |-> argv, timeout |-> 5000, width |-> 1920, height |-> 1080,
            encoding |-> "H264", bitrate |-> 17000000, framerate |-> 30,
            intraperiod |-> -1, quantisation |-> 0, profile |-> "high", level |-> "4",
            waitMethod |-> "none", onTime |-> 5000, offTime |-> 5000,
            demo |-> FALSE, demoInterval |-> 250, immutable |-> TRUE,
            capturing |-> FALSE, headers |-> FALSE,
            segmentSize |-> 0, segmentNumber |-> 1, segmentWrap |-> 0,
            splitNow |-> FALSE, splitWait |-> FALSE, circular |-> FALSE,
            vectors |-> FALSE, savePts |-> FALSE, raw |-> FALSE, rawFormat |-> "yuv",
            intraRefresh |-> -1, flush |-> FALSE, listen |-> FALSE,
            settings |-> FALSE, verbose |-> FALSE, camera |-> 0, sensorMode |-> 0,
            video |-> "none", imv |-> "none", pts |-> "none", rawFile |-> "none",
            preview |-> TRUE, fullScreen |-> TRUE, opacity |-> 255, shutter |-> 0]

Invalid(o) == [valid |-> FALSE, options |-> o]
Valid(o) == [valid |-> TRUE, options |-> o]

\* sscanf("%u") into one field.
Number(o, field, n) == IF n < 0 THEN Invalid(o) ELSE Valid([o EXCEPT ![field] = n])

Flag(o, field) == Valid([o EXCEPT ![field] = TRUE])

\* raspicli_map_xref: a word that is not in the table becomes -1, here "unknown".
Mapped(map, word) == IF word \in map THEN word ELSE "unknown"
Fallback(word, default) == IF word = "unknown" THEN default ELSE word

FileName(o, field, name) == IF name = "" THEN Invalid(o)
                                         ELSE Valid([o EXCEPT ![field] = name])

\* -t: 0 means forever, unless another way to wait was chosen before.
Timeout(o, n) ==
  IF n < 0 THEN Invalid(o)
  ELSE Valid([o EXCEPT !.timeout = n,
                       !.waitMethod = IF n = 0 /\ @ = "none" THEN "forever" ELSE @])

\* -d: a number may follow (Nothing is the start of the next option).
Demo(o, n) == IF n = Nothing THEN Valid([o EXCEPT !.demo = TRUE])
              ELSE IF n = Bad THEN Invalid(o)
              ELSE Valid([o EXCEPT !.demo = TRUE, !.demoInterval = IF n = 0 THEN 250 ELSE n])

Profile(o, word) ==
  Valid([o EXCEPT !.profile = Fallback(Mapped({"baseline", "main", "high"}, word), "high")])
Level(o, word) == Valid([o EXCEPT !.level = Fallback(Mapped({"4", "4.1", "4.2"}, word), "4")])

\* -td: both times are at least a second.
Timed(o, on, off) ==
  LET AtLeast(n) == IF n < 1000 THEN 1000 ELSE n
  IN IF on < 0 \/ off < 0 THEN Invalid(o)
     ELSE Valid([o EXCEPT !.onTime = AtLeast(on), !.offTime = AtLeast(off),
                          !.waitMethod = "timed"])

WaitFor(o, method) == Valid([o EXCEPT !.waitMethod = method])

\* -i: "record" is 0 and "pause" is 1, because main() toggles it first.
InitialState(o, word) == Valid([o EXCEPT !.capturing = (word = "pause")])

\* -sg and -sp need the stream's headers repeated to cut it there.
Segment(o, n) == IF n < 0 THEN Invalid(o)
                 ELSE Valid([o EXCEPT !.segmentSize = n, !.headers = TRUE])
SegmentStart(o, n) ==
  LET numbered == [o EXCEPT !.segmentNumber = n]
  IN IF n >= 0 /\ (o.segmentWrap = 0 \/ n <= o.segmentWrap)
     THEN Valid(numbered) ELSE Invalid(o)
SplitWait(o) == Valid([o EXCEPT !.headers = TRUE, !.splitWait = TRUE])

\* -x sets its flag before it looks at the name; -pts and -r do the same.
Vectors(o, name) == FileName([o EXCEPT !.vectors = TRUE], "imv", name)
SavePts(o, name) == FileName([o EXCEPT !.savePts = TRUE], "pts", name)
Raw(o, name) == FileName([o EXCEPT !.raw = TRUE, !.rawFormat = "yuv"], "rawFile", name)
RawFormat(o, word) ==
  LET format == Mapped({"yuv", "rgb", "gray"}, word)
  IN IF format = "unknown" THEN Invalid(o) ELSE Valid([o EXCEPT !.rawFormat = format])
Codec(o, word) == IF word \in {"H264", "MJPEG"} THEN Valid([o EXCEPT !.encoding = word])
                                                ELSE Invalid(o)

\* raspipreview_parse_cmdline: -p with or without a window, -f, -op, -n.
Preview(o, n) == Valid([o EXCEPT !.preview = TRUE, !.fullScreen = (n < 0)])
FullScreen(o) == Valid([o EXCEPT !.preview = TRUE, !.fullScreen = TRUE])
Opacity(o, n) == IF n < 0 THEN Invalid([o EXCEPT !.opacity = 255])
                          ELSE Valid([o EXCEPT !.opacity = n])
NoPreview(o) == Valid([o EXCEPT !.preview = FALSE])

\* An option the recorder does not know is offered to the preview; what
\* neither knows is an invalid command line.
Other(o, a) ==
  CASE a.cmd = "preview" -> Preview(o, a.num)
    [] a.cmd = "fullscreen" -> FullScreen(o)
    [] a.cmd = "opacity" -> Opacity(o, a.num)
    [] a.cmd = "nopreview" -> NoPreview(o)
    [] a.cmd = "shutter" -> Number(o, "shutter", a.num)
    [] OTHER -> Invalid(o)

NumberFields == {"width", "height", "bitrate", "framerate", "intraperiod",
                 "quantisation", "segmentWrap", "camera", "sensorMode"}
FlagFields == {"verbose", "circular", "settings", "flush", "listen"}
\* The options whose table entry says a parameter follows.
Parametric == NumberFields \cup {"timeout", "demo", "profile", "initial", "segment", "start",
                                 "vectors", "savePts", "codec", "level", "raw", "rawFormat",
                                 "output", "refresh"}

\* One turn of the loop.  An option that needs a parameter the command line
\* does not have is passed over, and the line stays valid.
Parse(o, a, last) ==
  CASE a.cmd \in Parametric /\ a.num = Nothing /\ last -> Valid(o)
    [] a.cmd \in NumberFields -> Number(o, a.cmd, a.num)
    [] a.cmd \in FlagFields -> Flag(o, a.cmd)
    [] a.cmd = "previewEncoded" -> Valid([o EXCEPT !.immutable = FALSE])
    [] a.cmd = "headers" -> Flag(o, "headers")
    [] a.cmd = "output" -> FileName(o, "video", a.name)
    [] a.cmd = "timeout" -> Timeout(o, a.num)
    [] a.cmd = "demo" -> Demo(o, a.num)
    [] a.cmd = "profile" -> Profile(o, a.name)
    [] a.cmd = "level" -> Level(o, a.name)
    [] a.cmd = "timed" -> Timed(o, a.num, a.off)
    [] a.cmd \in {"keypress", "signal"} -> WaitFor(o, a.cmd)
    [] a.cmd = "initial" -> InitialState(o, a.name)
    [] a.cmd = "segment" -> Segment(o, a.num)
    [] a.cmd = "start" -> SegmentStart(o, a.num)
    [] a.cmd = "splitWait" -> SplitWait(o)
    [] a.cmd = "vectors" -> Vectors(o, a.name)
    [] a.cmd = "savePts" -> SavePts(o, a.name)
    [] a.cmd = "raw" -> Raw(o, a.name)
    [] a.cmd = "rawFormat" -> RawFormat(o, a.name)
    [] a.cmd = "codec" -> Codec(o, a.name)
    [] a.cmd = "refresh" -> Valid([o EXCEPT !.intraRefresh = a.num])
    [] OTHER -> Other(o, a)

\* After the loop: diagnostics are switched off when the video goes to stdout.
Parsed(o) == [o EXCEPT !.verbose = @ /\ o.video # "-"]
=============================================================================
