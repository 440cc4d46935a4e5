------------------------------ MODULE MCSettings ------------------------------
(***************************************************************************)
(* The pictures of MCDetectBounds; configuration files that differ from a  *)
(* few typical ones in one key, with parameter files, some of which lack a *)
(* key, and without; and the options of RaspiVid, the edges of every range *)
(* among them.                                                             *)
(***************************************************************************)
EXTENDS MCDetectBounds, Settings

Junk == [as |-> "junk", value |-> 0]
Default == [as |-> "default", value |-> 0]

Keys == FileKeys \cup NumberKeys \cup SizeKeys \cup PortKeys \cup {"host", "cmdPort"}

OwnValue(k) == CASE k = "host"     -> "table"
                 [] k \in NumberKeys \cup SizeKeys -> 2
                 [] OTHER          -> 40000

OwnName(k) == CASE k = "detectorParameters" -> "own_detector.xml"
                [] k = "contourParameters"  -> "own_contour.xml"
                [] k = "cameraParameters"   -> "own_camera.xml"
                [] k = "boundsParameters"   -> "own_bounds.xml"

(* A file of its own, one that may be shared, the configuration itself and *)
(* one that the tools write.                                               *)
NodesOf(k) == CASE k \in FileKeys -> {Text(OwnName(k)), Default, Text("own.xml"), Text(Server),
                                      Text(OutputCamera)}
                [] k = "host" -> {Text("table"), Default}
                [] OTHER -> {Text(OwnValue(k)), Default, Junk, Number(OwnValue(k))}

(* Files in which every key of ks has a value of its own, the others the   *)
(* default.                                                                *)
Typical == {[k \in ks |-> IF k \in FileKeys THEN Text(OwnName(k)) ELSE Text(OwnValue(k))] :
              ks \in {Keys, Keys \ FileKeys, FileKeys \cup {"host"}}}
           \cup {[k \in Keys |-> Default]}

With(f, k, node) == [l \in DOMAIN f \cup {k} |-> IF l = k THEN node ELSE f[l]]
Without(f, k) == [l \in DOMAIN f \ {k} |-> f[l]]
Changed(f) == UNION {{With(f, k, node) : node \in NodesOf(k)} \cup {Without(f, k)} : k \in Keys}
ServerFiles == Typical \cup UNION {Changed(f) : f \in Typical}

All(ks) == [k \in ks |-> Number(2)]
Disk(f, own) ==
  LET names == {"detectorParams.xml", "contourParams.xml", "cameraParams.xml", "boundsParams.xml"}
  IN  [n \in {Server} \cup (IF own THEN names ELSE {}) |->
         CASE n = Server -> f
           [] n = "detectorParams.xml" -> All(DetectorKeys)
           [] n = "contourParams.xml"  -> All(ContourKeys \ {"maxWidthRatio"})
           [] n = "cameraParams.xml"   -> All(CameraKeys)
           [] n = "boundsParams.xml"   -> All(DOMAIN Defaults \ {"sections"})]
PreparedDisks == {Disk(f, own) : f \in ServerFiles, own \in BOOLEAN} \cup {[n \in {} |-> 0]}

Region(x, y, w, h) == [x |-> x, y |-> y, width |-> w, height |-> h]
SomeOptions ==
  {<<c, v>> : c \in {"sharpness", "contrast", "saturation"}, v \in {-101, 100}}
  \cup {<<"brightness", 101>>, <<"ISO", 400>>, <<"vstab", 1>>, <<"ev", 4>>,
        <<"exposure", "night">>, <<"exposure", "nonsense">>, <<"awb", "sun">>,
        <<"imxfx", "negative">>, <<"colfx", 100>>, <<"metering", "spot">>,
        <<"rotation", 450>>, <<"rotation", -100>>, <<"hflip", 1>>, <<"vflip", 1>>,
        <<"shutter", 20000>>, <<"drc", "med">>, <<"stats", 1>>,
        <<"awbgains", [r |-> 2, b |-> 0]>>, <<"awbgains", [r |-> 2, b |-> 9]>>,
        <<"awbgains", [r |-> 2, b |-> 2]>>,
        <<"annotate", {"time", "app", "lens"}>>, <<"annotate", {}>>, <<"text", "format">>,
        <<"stereo", "sbs">>, <<"decimate", 1>>, <<"3dswap", 1>>,
        <<"roi", Region(0, 0, 32768, 32768)>>, <<"roi", Region(32768, 0, 65536, 6000)>>,
        <<"roi", Region(0, 0, 70000, 100)>>}
Exposures == <<"off", "auto", "night">>
Awbs == <<"off", "auto", "sun">>
Effects == <<"none", "negative">>
=============================================================================
