---------------------------- MODULE Configuration ----------------------------
(***************************************************************************)
(* config/ServerConfig.cpp with the parameter files it refers to           *)
(* (parsers.hpp, ContourParams.hpp, the file part of DetectBounds.cpp),    *)
(* the start of src/server.cpp that uses them, and the two tools whose -o  *)
(* writes files of the same kinds.                                         *)
(*                                                                         *)
(* A file is what cv::FileStorage makes of it, a function from keys to     *)
(* nodes.  A node is a number, a text, the text "default" or a text that   *)
(* is no number ("junk"); the three last ones can be read as a string, a   *)
(* number reads as the empty string.  The value of a parameter is 0 when   *)
(* its file lacks the key, 1 for what the constructors set, 2 otherwise.   *)
(***************************************************************************)
EXTENDS DetectBounds

CONSTANTS Disks,          (* the files an operator may have prepared           *)
          StaticWidth, StaticHeight     (* ServerConfig.cpp:26-27              *)

FileKeys == {"detectorParameters", "contourParameters", "cameraParameters",
             "boundsParameters"}
NumberKeys == {"dictionaryId", "markerLength", "skippableFrames",
               "movementThreshold", "angleThreshold"}
SizeKeys == {"cameraWidth", "cameraHeight"}
PortKeys == {"udpPort", "tcpPort", "webPort"}

DetectorKeys ==
  {"adaptiveThreshWinSizeMin", "adaptiveThreshWinSizeMax", "adaptiveThreshWinSizeStep",
   "adaptiveThreshConstant", "minMarkerPerimeterRate", "maxMarkerPerimeterRate",
   "polygonalApproxAccuracyRate", "minCornerDistanceRate", "minDistanceToBorder",
   "minMarkerDistanceRate", "doCornerRefinement", "cornerRefinementWinSize",
   "cornerRefinementMaxIterations", "cornerRefinementMinAccuracy", "markerBorderBits",
   "perspectiveRemovePixelPerCell", "perspectiveRemoveIgnoredMarginPerCell",
   "maxErroneousBitsInBorderRate", "minOtsuStdDev", "errorCorrectionRate"}
ContourKeys == {"minPointRatio", "maxPointRatio", "minWidthRatio", "maxWidthRatio"}
CameraKeys == {"camera_matrix", "distortion_coefficients"}

NoName == ""
Server == "serverConfig.xml"
Off == "off"

VARIABLES disk,      (* file name -> file                                      *)
          config,    (* the static fields of ServerConfig                      *)
          reading,   (* the file the running server was started with, or Off   *)
          senders,   (* the transports of its TuioServer                       *)
          saved      (* what was written last, <<>> when that was spoiled      *)

(* The bounds are DetectBounds' own. *)
fvars == <<disk, config, reading, senders, saved>>
-----------------------------------------------------------------------------
Number(v) == [as |-> "number", value |-> v]
Text(v) == [as |-> "text", value |-> v]

(* What operator>> for a string finds is not empty, ... *)
Present(file, k) == k \in DOMAIN file /\ file[k].as \in {"text", "default", "junk"}

(* ... and not "default". *)
IsChosen(file, k) == Present(file, k) /\ file[k].as # "default"

Choice(file, k, old) == IF IsChosen(file, k) THEN file[k].value ELSE old

(* For the names of files an empty string is a choice, too. *)
NameOf(file, k, old) == IF ~Present(file, k) THEN NoName ELSE Choice(file, k, old)

(* A missing key is read as zero, or as an empty matrix. *)
NumberOf(file, k) == IF k \in DOMAIN file THEN file[k].value ELSE 0

(* A port is a number. *)
ASSUME DisksAssumption ==
  \A d \in Disks : \A n \in DOMAIN d :
    "tcpPort" \in DOMAIN d[n] => d[n]["tcpPort"].value \in Int

Opens(d, name) == name # NoName /\ name \in DOMAIN d

(* stoi and stof throw on a text that is no number. *)
Throws(file) ==
  \E k \in NumberKeys \cup SizeKeys \cup PortKeys \cup {"cmdPort"} :
    k \in DOMAIN file /\ file[k].as = "junk"

(* A conversion to short int. *)
Short(n) == ((n + 32768) % 65536) - 32768
-----------------------------------------------------------------------------
(* The four kinds of parameter files: a file that cannot be opened leaves  *)
(* the parameters alone.                                                   *)
ReadDetectorParameters(d, name, old) ==
  IF Opens(d, name) THEN [k \in DetectorKeys |-> NumberOf(d[name], k)] ELSE old
ReadCameraParameters(d, name, old) ==
  IF Opens(d, name) THEN [k \in CameraKeys |-> NumberOf(d[name], k)] ELSE old
ReadContourParameters(d, name) ==
  IF Opens(d, name) THEN [k \in ContourKeys |-> NumberOf(d[name], k)]
                    ELSE [k \in ContourKeys |-> 1]

SizedDefaults(w, h) ==
  [Defaults EXCEPT !.width = w, !.baseline = w, !.height = h, !.baseheight = h]
ReadBounds(d, name, w, h) ==
  IF Opens(d, name) THEN [k \in DOMAIN Defaults |-> NumberOf(d[name], k)]
                    ELSE SizedDefaults(w, h)

Put(d, name, file) ==
  IF name = NoName THEN d
  ELSE [n \in DOMAIN d \cup {name} |-> IF n = name THEN file ELSE d[n]]

WriteDetectorParameters(d, name, p) == Put(d, name, [k \in DetectorKeys |-> Number(p[k])])
WriteCameraParameters(d, name, p) == Put(d, name, [k \in CameraKeys |-> Number(p[k])])
WriteContourParameters(d, name, p) == Put(d, name, [k \in ContourKeys |-> Number(p[k])])

WriteBounds(d, name, b) == Put(d, name, [k \in DOMAIN Defaults |-> Number(b[k])])
-----------------------------------------------------------------------------
(* The static fields of a process that was just started. *)
Statics ==
  [file |-> [k \in FileKeys |-> CASE k = "detectorParameters" -> "detectorParams.xml"
                                  [] k = "contourParameters"  -> "contourParams.xml"
                                  [] k = "cameraParameters"   -> "cameraParams.xml"
                                  [] k = "boundsParameters"   -> "boundsParams.xml"],
   number |-> [k \in NumberKeys |-> 1],
   size |-> [k \in SizeKeys |-> IF k = "cameraWidth" THEN StaticWidth ELSE StaticHeight],
   host |-> "127.0.0.1",
   cmdPort |-> 3332,
   port |-> [k \in PortKeys |-> IF k = "webPort" THEN 8080 ELSE 3333],
   enabled |-> [k \in PortKeys |-> k = "udpPort"],
   detector |-> [k \in DetectorKeys |-> 1],
   contour |-> [k \in ContourKeys |-> 1],
   camera |-> [k \in CameraKeys |-> 1]]

(* ServerConfig::read, for a file that opens and does not throw. *)
ReadFile(d, f, s) ==
  LET file == [k \in FileKeys |-> NameOf(f, k, s.file[k])]
  IN  [file |-> file,
       number |-> [k \in NumberKeys |-> Choice(f, k, s.number[k])],
       size |-> [k \in SizeKeys |-> Choice(f, k, s.size[k])],
       host |-> Choice(f, "host", s.host),
       cmdPort |-> IF IsChosen(f, "cmdPort") THEN Short(f["cmdPort"].value) ELSE s.cmdPort,
       port |-> [k \in PortKeys |-> LET n == Choice(f, k, s.port[k])
                                    IN  IF k = "tcpPort" THEN Short(n) ELSE n],
       enabled |-> [k \in PortKeys |-> s.enabled[k] \/ Present(f, k)],
       detector |-> ReadDetectorParameters(d, file["detectorParameters"], s.detector),
       contour |-> ReadContourParameters(d, file["contourParameters"]),
       camera |-> ReadCameraParameters(d, file["cameraParameters"], s.camera)]

Read(d, name) == IF Opens(d, name) THEN ReadFile(d, d[name], Statics) ELSE Statics

(* The bounds get their defaults first, from the static size of the        *)
(* picture; when there is a configuration their file or, from the size it  *)
(* gives, their defaults again.                                            *)
ReadBoundsToo(d, name, c) ==
  IF Opens(d, name)
    THEN ReadBounds(d, c.file["boundsParameters"], c.size["cameraWidth"], c.size["cameraHeight"])
    ELSE SizedDefaults(StaticWidth, StaticHeight)

(* The flags udp_port_default, ... say the opposite of their names, and    *)
(* are never cleared.                                                      *)
PortDefault(k) == TRUE

(* The flag says what its name says. *)
PortNodeMutant(c, k) == IF PortDefault(k) THEN [as |-> "default", value |-> 0]
                                          ELSE Text(c.port[k])

PortNode(c, k) == IF PortDefault(k) THEN Text(c.port[k]) ELSE [as |-> "default", value |-> 0]

(* The file ServerConfig::write makes.  Numbers are written as numbers,    *)
(* ports, the host and the names of the files as texts; the size of the    *)
(* picture and the command port are not written.                           *)
ServerFile(c) ==
  [k \in FileKeys \cup NumberKeys \cup {"host"} \cup {p \in PortKeys : c.enabled[p]} |->
     CASE k \in FileKeys   -> IF c.file[k] = NoName THEN Number(0) ELSE Text(c.file[k])
       [] k \in NumberKeys -> Number(c.number[k])
       [] k \in PortKeys   -> PortNode(c, k)
       [] k = "host"       -> Text(c.host)]

Write(d, c, b) ==
  LET d1 == Put(d, Server, ServerFile(c))
      d2 == WriteDetectorParameters(d1, c.file["detectorParameters"], c.detector)
      d3 == WriteCameraParameters(d2, c.file["cameraParameters"], c.camera)
      d4 == WriteContourParameters(d3, c.file["contourParameters"], c.contour)
  IN  WriteBounds(d4, c.file["boundsParameters"], b)

(* initTuioServer: a sender for every port that is enabled, or the default *)
(* server.                                                                 *)
Senders(c) ==
  IF \E k \in PortKeys : c.enabled[k]
    THEN {<<k, c.port[k]>> : k \in {p \in PortKeys : c.enabled[p]}}
    ELSE {<<"udpPort", 3333>>}
-----------------------------------------------------------------------------
FilesOff == /\ config = Statics
            /\ reading = Off
            /\ senders = {}
            /\ saved = <<>>

(* main up to server->start(), with -c=name or without, and with -o or     *)
(* without.                                                                *)
Start(name, output) ==
  /\ reading = Off
  /\ ~(Opens(disk, name) /\ Throws(disk[name]))
  /\ reading' = name
  /\ config' = Read(disk, name)
  /\ bounds' = ReadBoundsToo(disk, name, config')
  /\ senders' = Senders(config')
  /\ IF output
       THEN /\ disk' = Write(disk, config', bounds')
            /\ saved' = <<[config |-> config', bounds |-> bounds', senders |-> senders']>>
       ELSE UNCHANGED <<disk, saved>>

Stop == /\ reading # Off
        /\ reading' = Off
        /\ config' = Statics
        /\ bounds' = Defaults
        /\ senders' = {}
        /\ UNCHANGED <<disk, saved>>

(* The keys parseDetectorParameters knows. *)
OverridableKeys == DetectorKeys \ {"minMarkerPerimeterRate", "minCornerDistanceRate",
                                   "minDistanceToBorder", "minMarkerDistanceRate"}

ParseDetectorParameters(p, ks) == [k \in DetectorKeys |-> IF k \in ks THEN 2 ELSE p[k]]

OutputCamera == "output_cameraParams.xml"
OutputDetector == "output_detectorParams.xml"

(* -o of the tools: whatever used these files is spoiled. *)
Output(camera, detector) ==
  /\ disk' = WriteDetectorParameters(WriteCameraParameters(disk, OutputCamera, camera),
                                     OutputDetector, detector)
  /\ saved' = IF \A i \in DOMAIN saved, k \in FileKeys :
                     saved[i].config.file[k] \notin {OutputCamera, OutputDetector}
                 THEN saved ELSE <<>>
  /\ UNCHANGED <<config, bounds, reading, senders>>

(* detect_markers: -c, -dp and -op; without -c the matrices are empty.     *)
(* Corner refinement is switched on after -dp.                             *)
DetectMarkers(c, dp, ks) ==
  /\ c = NoName \/ Opens(disk, c)
  /\ dp = NoName \/ Opens(disk, dp)
  /\ LET read == ReadDetectorParameters(disk, dp, [k \in DetectorKeys |-> 1])
     IN  Output(ReadCameraParameters(disk, c, [k \in CameraKeys |-> 0]),
                ParseDetectorParameters([read EXCEPT !["doCornerRefinement"] = 2], ks))

(* detect_bounds: -dp and -op; it never reads its camera file. *)
DetectBoundsTool(dp, ks) ==
  /\ dp = NoName \/ Opens(disk, dp)
  /\ Output([k \in CameraKeys |-> 0],
            ParseDetectorParameters(ReadDetectorParameters(disk, dp, [k \in DetectorKeys |-> 1]), ks))

FNext ==
  \/ \E output \in BOOLEAN : Start(Server, output)
  \/ \E name \in DOMAIN disk : Start(name, TRUE)
  \/ Stop
  \/ \E c \in {NoName, "cameraParams.xml"}, ks \in {{}, OverridableKeys} :
       DetectMarkers(c, "detectorParams.xml", ks)
  \/ DetectBoundsTool(NoName, {})
-----------------------------------------------------------------------------
(* No parameter file is written over another one or over the configuration. *)
OwnFiles(c) ==
  /\ \A k \in FileKeys : c.file[k] # Server
  /\ \A k, l \in FileKeys : k # l /\ c.file[k] = c.file[l] => c.file[k] = NoName

(* ServerConfig.cpp:47-205: what a server wrote with -o, a later start     *)
(* finds again: the transports with their ports, the host, the names of    *)
(* the files and, when these are files of their own, what is in them; the  *)
(* bounds only if they have a file.  Not so the marker and movement        *)
(* settings, which are written as numbers and read as strings, nor the     *)
(* size of the picture and the command port, which are not written.        *)
SavedComesBack ==
  [][reading = Off /\ reading' = Server /\ saved # <<>> /\ OwnFiles(saved[1].config) =>
       LET old == saved[1]
       IN  /\ senders' = old.senders
           /\ \A f \in {"file", "host", "port", "enabled", "detector", "contour", "camera"} :
                config'[f] = old.config[f]
           /\ old.config.file["boundsParameters"] # NoName => bounds' = old.bounds
    ]_<<fvars, bounds>>
=============================================================================
