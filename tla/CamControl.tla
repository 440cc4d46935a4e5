------------------------------ MODULE CamControl ------------------------------
(***************************************************************************)
(* RaspiCamControl: the parameters a program keeps for the camera and the  *)
(* controls of the camera component itself.  The repository has it twice,  *)
(* in C for the technical test RaspiVid and in C++ for the library, whose  *)
(* RaspiCamera only sets the defaults; the setters are the same in both.   *)
(* RaspiVid also parses options, zooms at a key and has a demo mode.       *)
(*                                                                         *)
(* A control the firmware refuses keeps its value: that is a fault, chosen *)
(* at every call.  Modes are their names on the command line.  A           *)
(* coordinate of the crop is in units of 1/65536 of the picture.           *)
(***************************************************************************)
EXTENDS Integers, Sequences, FiniteSetsExt

CONSTANTS Options,      (* options of the command line, <<command, argument>>  *)
          MaxOptions,   (* bound: options in a command line                    *)
          MaxFaults,    (* bound: calls in which the firmware refuses          *)
          Word,         (* unsigned int is 0 .. Word - 1; 2^32 in the code     *)
          ExposureMap, AwbMap, ImageFxMap  (* the names of the modes, in order *)

ASSUME WordAssumption == Word \in Nat /\ Word > 2 * 65536

Commands == {"sharpness", "contrast", "brightness", "saturation", "ISO", "vstab", "ev",
             "exposure", "awb", "imxfx", "colfx", "metering", "rotation", "hflip", "vflip",
             "roi", "shutter", "awbgains", "drc", "stats", "annotate", "text", "stereo",
             "decimate", "3dswap"}

Rectangle == [x : Int, y : Int, width : Int, height : Int]

(* Other options are parsed by others. *)
ASSUME OptionsAssumption ==
  \A o \in Options : o[1] \in Commands /\ (o[1] = "roi" => o[2] \in Rectangle)

Reset == -99999
Full == 65536
ZoomFull == 9830           (* (unsigned int)(65536 * 0.15) *)
ZoomIncrement == 6553      (* 65536UL / 10 *)

VARIABLES program,    (* "RaspiVid" or "library"                               *)
          phase,      (* "options", "keys" or "demo"; "usage" after a bad one  *)
          given,      (* the number of options parsed                          *)
          params,     (* RASPICAM_CAMERA_PARAMETERS                            *)
          camera,     (* control -> the value it has                            *)
          parameter,  (* the statics of raspicamcontrol_cycle_test             *)
          option,
          faults      (* the number of faults so far                           *)

cvars == <<program, phase, given, params, camera, parameter, option, faults>>

Controls ==
  {"saturation", "sharpness", "contrast", "brightness", "ISO", "vstab", "ev", "exposure",
   "flicker", "metering", "awb", "awb_gains", "imageFX", "colourFX", "rotation0",
   "rotation1", "rotation2", "flips0", "flips1", "flips2", "ROI", "shutter", "DRC",
   "stats", "annotate", "stereo0", "stereo1", "stereo2"}

(* raspicamcontrol_set_defaults. *)
DefaultParameters ==
  [sharpness |-> 0, contrast |-> 0, brightness |-> 50, saturation |-> 0, ISO |-> 0,
   videoStabilisation |-> 0, exposureCompensation |-> 0, exposureMode |-> "auto",
   flickerAvoidMode |-> "off", exposureMeterMode |-> "average", awbMode |-> "auto",
   imageEffect |-> "none", colourEffects |-> [enable |-> 0, u |-> 128, v |-> 128],
   rotation |-> 0, hflip |-> 0, vflip |-> 0,
   roi |-> [x |-> 0, y |-> 0, width |-> Full, height |-> Full],
   shutter_speed |-> 0, awb_gains |-> [r |-> 0, b |-> 0], drc_level |-> "off",
   stats_pass |-> FALSE, enable_annotate |-> {}, annotate_string |-> "empty",
   stereo_mode |-> "off", decimate |-> FALSE, swap_eyes |-> FALSE]
-----------------------------------------------------------------------------
(* A setter is what it sends, and which of its sends decide what it        *)
(* returns; one that refuses its argument sends nothing.                   *)
Setter(sends, heard) == [sends |-> sends, heard |-> heard, refuses |-> FALSE]
Refuses == [sends |-> [c \in {} |-> 0], heard |-> {}, refuses |-> TRUE]
One(c, v) == Setter([d \in {c} |-> v], {c})

(* mmal_status_to_int, and the results added up. *)
Failed(s, fails) == s.refuses \/ s.heard \cap fails # {}

Sent(cam, s, fails) ==
  [c \in Controls |-> IF c \in DOMAIN s.sends \ fails THEN s.sends[c] ELSE cam[c]]

SetSaturation(v) == IF v \in -100 .. 100 THEN One("saturation", v) ELSE Refuses
SetSharpness(v) == IF v \in -100 .. 100 THEN One("sharpness", v) ELSE Refuses
SetContrast(v) == IF v \in -100 .. 100 THEN One("contrast", v) ELSE Refuses
SetBrightness(v) == IF v \in 0 .. 100 THEN One("brightness", v) ELSE Refuses
SetISO(v) == One("ISO", v)
SetMeteringMode(v) == One("metering", v)
SetVideoStabilisation(v) == One("vstab", v)
SetExposureCompensation(v) == One("ev", v)
SetExposureMode(v) == One("exposure", v)
SetFlickerAvoidMode(v) == One("flicker", v)
SetAwbMode(v) == One("awb", v)

(* Gains that are not both given are left alone. *)
SetAwbGains(g) == IF g.r = 0 \/ g.b = 0 THEN Setter([c \in {} |-> 0], {}) ELSE One("awb_gains", g)

SetImageFX(v) == One("imageFX", v)
SetColourFX(v) == One("colourFX", v)

(* The remainder of a negative number is negative in C: the angle is       *)
(* rounded towards 0.  Only the first output's answer is returned.         *)
Quarters(r) == IF r >= 0 THEN ((r % 360) \div 90) * 90 ELSE -((((-r) % 360) \div 90) * 90)
SetRotation(r) ==
  Setter([c \in {"rotation0", "rotation1", "rotation2"} |-> Quarters(r)], {"rotation0"})

(* Here it is the last output's. *)
SetFlips(h, v) ==
  Setter([c \in {"flips0", "flips1", "flips2"} |-> <<h # 0, v # 0>>], {"flips2"})

SetROI(r) == One("ROI", r)
SetShutterSpeed(v) == One("shutter", v)
SetDRC(v) == One("DRC", v)
SetStatsPass(v) == One("stats", v)

Times == {"time", "date"}
Shows == {"shutter", "gain", "lens", "caf", "motion", "frame", "black"}

(* The text of an annotation: a format of strftime takes the place of the  *)
(* time and the date, which otherwise follow the text.                     *)
AnnotateText(settings, string) ==
  LET worded == settings \cap {"app", "user"} # {}
      format == worded /\ settings \cap Times # {} /\ string = "format"
  IN  [words |-> IF worded THEN string ELSE "empty",
       parts |-> IF format THEN {} ELSE settings \cap Times]

SetAnnotate(settings, string) ==
  One("annotate", IF settings = {} THEN [enable |-> FALSE]
                  ELSE [enable |-> TRUE, text |-> AnnotateText(settings, string),
                        shows |-> settings \cap Shows])

(* One output; without a mode the two flags do not matter. *)
SetStereoMode(c, mode, decimate, swap) ==
  One(c, IF mode = "off" THEN <<"off", FALSE, FALSE>> ELSE <<mode, decimate, swap>>)

(* The setters of raspicamcontrol_set_all_parameters: each is called,      *)
(* whatever the ones before it returned.  RaspiVid's copy has no flicker   *)
(* mode.                                                                   *)
AllSetters(p) ==
  <<SetSaturation(p.saturation), SetSharpness(p.sharpness), SetContrast(p.contrast),
    SetBrightness(p.brightness), SetISO(p.ISO), SetVideoStabilisation(p.videoStabilisation),
    SetExposureCompensation(p.exposureCompensation), SetExposureMode(p.exposureMode)>>
  \o (IF program = "library" THEN <<SetFlickerAvoidMode(p.flickerAvoidMode)>> ELSE <<>>)
  \o <<SetMeteringMode(p.exposureMeterMode), SetAwbMode(p.awbMode), SetAwbGains(p.awb_gains),
       SetImageFX(p.imageEffect), SetColourFX(p.colourEffects), SetRotation(p.rotation),
       SetFlips(p.hflip, p.vflip), SetROI(p.roi), SetShutterSpeed(p.shutter_speed),
       SetDRC(p.drc_level), SetStatsPass(p.stats_pass),
       SetAnnotate(p.enable_annotate, p.annotate_string)>>

(* A control has what the last call that was not refused has sent it.      *)
SentAll(cam, setters, fails) ==
  [c \in Controls |->
     LET sending == {i \in DOMAIN setters : c \in DOMAIN setters[i].sends \ fails}
     IN  IF sending = {} THEN cam[c] ELSE setters[Max(sending)].sends[c]]
-----------------------------------------------------------------------------
(* What the firmware starts with is no one's choice. *)
InitialCamera ==
  [c \in Controls |->
     CASE c \in {"saturation", "sharpness", "contrast", "brightness", "ISO", "vstab", "ev",
                 "rotation0", "rotation1", "rotation2", "shutter"} -> 7
       [] c \in {"exposure", "flicker", "metering", "awb", "imageFX", "DRC"} -> "firmware"
       [] c \in {"flips0", "flips1", "flips2"} -> <<TRUE, TRUE>>
       [] c \in {"stereo0", "stereo1", "stereo2"} -> <<"off", FALSE, FALSE>>
       [] c = "awb_gains" -> [r |-> 1, b |-> 1]
       [] c = "colourFX" -> [enable |-> 1, u |-> 0, v |-> 0]
       [] c = "ROI" -> [x |-> 0, y |-> 0, width |-> Full, height |-> Full]
       [] c = "stats" -> FALSE
       [] c = "annotate" -> [enable |-> FALSE]]

CamOff == /\ phase = "options"
          /\ given = 0
          /\ params = DefaultParameters
          /\ camera = InitialCamera
          /\ parameter = 0
          /\ option = Reset
          /\ faults = 0

(* Nothing is refused, everything is, or one control is. *)
FaultSets == {{}} \cup (IF faults < MaxFaults THEN {Controls} \cup {{c} : c \in Controls} ELSE {})

Counted(fails) == faults' = faults + (IF fails = {} THEN 0 ELSE 1)
-----------------------------------------------------------------------------
(* raspicli_map_xref with its fallback. *)
ExposureFromString(s) == IF \E i \in DOMAIN ExposureMap : ExposureMap[i] = s THEN s ELSE "auto"
AwbFromString(s) == IF \E i \in DOMAIN AwbMap : AwbMap[i] = s THEN s ELSE "auto"
ImageFxFromString(s) == IF \E i \in DOMAIN ImageFxMap : ImageFxMap[i] = s THEN s ELSE "none"
MeteringFromString(s) == IF s \in {"average", "spot", "backlit", "matrix"} THEN s ELSE "average"
DrcFromString(s) == IF s \in {"off", "low", "med", "high"} THEN s ELSE "off"
StereoFromString(s) == IF s \in {"off", "sbs", "tb"} THEN s ELSE "off"

(* A region larger than the picture is refused, one that leaves it to the  *)
(* right or below is cut.                                                  *)
Sized(r, w, h) == [x |-> r.x, y |-> r.y, width |-> w, height |-> h]

BadROI(r) == \E f \in {"x", "y", "width", "height"} : r[f] > Full
CutROI(r) == Sized(r, IF r.x + r.width > Full THEN Full - r.x ELSE r.width,
                      IF r.y + r.height > Full THEN Full - r.y ELSE r.height)

BadGains(g) == g.r > 8 \/ g.b > 8

(* raspicamcontrol_parse_cmdline.  A number that does not parse leaves the *)
(* parameter alone: such options are not among Options.                    *)
Refused(c, a) == (c = "roi" /\ BadROI(a)) \/ (c = "awbgains" /\ BadGains(a))

Parsed(p, c, a) ==
  CASE c = "sharpness"  -> [p EXCEPT !.sharpness = a]
    [] c = "contrast"   -> [p EXCEPT !.contrast = a]
    [] c = "brightness" -> [p EXCEPT !.brightness = a]
    [] c = "saturation" -> [p EXCEPT !.saturation = a]
    [] c = "ISO"        -> [p EXCEPT !.ISO = a]
    [] c = "vstab"      -> [p EXCEPT !.videoStabilisation = 1]
    [] c = "ev"         -> [p EXCEPT !.exposureCompensation = a]
    [] c = "exposure"   -> [p EXCEPT !.exposureMode = ExposureFromString(a)]
    [] c = "awb"        -> [p EXCEPT !.awbMode = AwbFromString(a)]
    [] c = "imxfx"      -> [p EXCEPT !.imageEffect = ImageFxFromString(a)]
    [] c = "colfx"      -> [p EXCEPT !.colourEffects = [enable |-> 1, u |-> a, v |-> a]]
    [] c = "metering"   -> [p EXCEPT !.exposureMeterMode = MeteringFromString(a)]
    [] c = "rotation"   -> [p EXCEPT !.rotation = a]
    [] c = "hflip"      -> [p EXCEPT !.hflip = 1]
    [] c = "vflip"      -> [p EXCEPT !.vflip = 1]
    [] c = "roi"        -> [p EXCEPT !.roi = CutROI(a)]
    [] c = "shutter"    -> [p EXCEPT !.shutter_speed = a]
    [] c = "awbgains"   -> [p EXCEPT !.awb_gains = a]
    [] c = "drc"        -> [p EXCEPT !.drc_level = DrcFromString(a)]
    [] c = "stats"      -> [p EXCEPT !.stats_pass = TRUE]
    [] c = "annotate"   -> [p EXCEPT !.enable_annotate = @ \cup a]
    [] c = "text"       -> [p EXCEPT !.enable_annotate = @ \cup {"user"}, !.annotate_string = a]
    [] c = "stereo"     -> [p EXCEPT !.stereo_mode = StereoFromString(a)]
    [] c = "decimate"   -> [p EXCEPT !.decimate = TRUE]
    [] c = "3dswap"     -> [p EXCEPT !.swap_eyes = TRUE]

ParseCmdline(o) ==
  /\ program = "RaspiVid" /\ phase = "options" /\ given < MaxOptions
  /\ given' = given + 1
  /\ IF Refused(o[1], o[2])
       THEN phase' = "usage" /\ UNCHANGED params
       ELSE params' = Parsed(params, o[1], o[2]) /\ UNCHANGED phase
  /\ UNCHANGED <<program, camera, parameter, option, faults>>
-----------------------------------------------------------------------------
(* RaspiVid's create_camera_component: the stereo modes, whose failures    *)
(* end the program, then all parameters and the annotation, whose failures *)
(* nobody looks at.                                                        *)
Stereos(p) == [i \in 1 .. 3 |-> SetStereoMode(<<"stereo0", "stereo1", "stereo2">>[i],
                                              p.stereo_mode, p.decimate, p.swap_eyes)]

(* update_annotation_data: the application's own text comes first. *)
Annotation(p) ==
  SetAnnotate(p.enable_annotate, IF "app" \in p.enable_annotate THEN "application"
                                 ELSE p.annotate_string)

CreateCamera(mode) ==
  /\ program = "RaspiVid" /\ phase = "options"
  /\ \E fails \in FaultSets :
       /\ Counted(fails)
       /\ IF \E i \in 1 .. 3 : Failed(Stereos(params)[i], fails)
            THEN phase' = "usage" /\ UNCHANGED camera
            ELSE /\ phase' = mode
                 /\ camera' = Sent(SentAll(camera, Stereos(params) \o AllSetters(params), fails),
                                   Annotation(params), fails)
  /\ UNCHANGED <<program, given, params, parameter, option>>

(* RaspiCamera::init. *)
InitCamera ==
  /\ program = "library" /\ phase = "options"
  /\ \E fails \in FaultSets : /\ Counted(fails)
                              /\ camera' = SentAll(camera, AllSetters(params), fails)
  /\ phase' = "keys"
  /\ UNCHANGED <<program, given, params, parameter, option>>
-----------------------------------------------------------------------------
(* The fields of a crop are signed, the arithmetic on them is unsigned     *)
(* but for the centring, whose difference may be negative and is halved    *)
(* towards zero.                                                           *)
Signed(n) == LET u == n % Word IN IF u < Word \div 2 THEN u ELSE u - Word
Halved(n) == IF n >= 0 THEN n \div 2 ELSE -((-n) \div 2)

ZoomedIn(r) ==
  IF r.width % Word <= ZoomFull + ZoomIncrement
    THEN Sized(r, ZoomFull, ZoomFull)
    ELSE Sized(r, Signed(r.width - ZoomIncrement), Signed(r.height - ZoomIncrement))

(* Only an overflow of the unsigned integer is the end of zooming out.     *)
ZoomedOut(r) ==
  LET size == (r.width + ZoomIncrement) % Word
  IN  IF size < r.width % Word THEN Sized(r, Full, Full) ELSE Sized(r, Signed(size), Signed(size))

(* Both coordinates are those of the width: negative ones beyond the full  *)
(* width.                                                                  *)
Centred(r) == LET corner == Halved(Signed(Full - r.width))
              IN  [x |-> corner, y |-> corner, width |-> r.width, height |-> r.height]

(* What is recorded is square. *)
Recorded(r) == [x |-> r.x, y |-> r.x, width |-> r.width, height |-> r.width]

NewCrop(command, r) ==
  CASE command = "in"    -> Centred(ZoomedIn(r))
    [] command = "out"   -> Centred(ZoomedOut(r))
    [] command = "reset" -> [x |-> 0, y |-> 0, width |-> Full, height |-> Full]

(* The region is recorded before the camera has answered. *)
EagerZoomMutant(command) ==
  /\ program = "RaspiVid" /\ phase = "keys"
  /\ LET crop == NewCrop(command, camera["ROI"])
     IN  \E fails \in {{}} \cup (IF faults < MaxFaults THEN {{"ROI"}} ELSE {}) :
           /\ Counted(fails)
           /\ camera' = Sent(camera, SetROI(crop), fails)
           /\ params' = [params EXCEPT !.roi = Recorded(crop)]
  /\ UNCHANGED <<program, phase, given, parameter, option>>

(* raspicamcontrol_zoom_in_zoom_out, at a key.  When the crop cannot be    *)
(* read nothing is done.                                                   *)
Zoom(command) ==
  /\ program = "RaspiVid" /\ phase = "keys"
  /\ LET crop == NewCrop(command, camera["ROI"])
     IN  \E fails \in {{}} \cup (IF faults < MaxFaults THEN {{"ROI"}} ELSE {}) :
           /\ Counted(fails)
           /\ camera' = Sent(camera, SetROI(crop), fails)
           /\ params' = IF fails = {} THEN [params EXCEPT !.roi = Recorded(crop)] ELSE params
  /\ UNCHANGED <<program, phase, given, parameter, option>>
-----------------------------------------------------------------------------
(* update_cycle_parameter: the next value of a parameter, or Reset at the  *)
(* end of its range.                                                       *)
UpdateCycle(o, min, max, increment) ==
  LET next == IF o = Reset THEN min ELSE o + increment
  IN  IF next > max THEN Reset ELSE next

(* The range of a list of modes ends one entry too late: what is sent then *)
(* is whatever lies behind the list.                                       *)
ModeAt(map, i) == IF i < Len(map) THEN map[i + 1] ELSE "beyond"

(* One call for one of the parameters that have a range: a new value, or   *)
(* the resting one and the next parameter.                                 *)
NewOption(p, o) ==
  CASE p \in {0, 1, 3} -> UpdateCycle(o, -100, 100, 10)
    [] p = 2 -> UpdateCycle(o, 0, 100, 10)
    [] p = 4 -> UpdateCycle(o, -10, 10, 4)
    [] p = 5 -> UpdateCycle(o, 0, Len(ExposureMap), 1)
    [] p = 6 -> UpdateCycle(o, 0, Len(AwbMap), 1)
    [] p = 7 -> UpdateCycle(o, 0, Len(ImageFxMap), 1)

RangeSetter(p, o) ==
  CASE p = 0 -> SetSharpness(IF o = Reset THEN 0 ELSE o)
    [] p = 1 -> SetContrast(IF o = Reset THEN 0 ELSE o)
    [] p = 2 -> SetBrightness(IF o = Reset THEN 50 ELSE o)
    [] p = 3 -> SetSaturation(IF o = Reset THEN 0 ELSE o)
    [] p = 4 -> SetExposureCompensation(IF o = Reset THEN 0 ELSE o)
    [] p = 5 -> SetExposureMode(IF o = Reset THEN "auto" ELSE ModeAt(ExposureMap, o))
    [] p = 6 -> SetAwbMode(IF o = Reset THEN "auto" ELSE ModeAt(AwbMap, o))
    [] p = 7 -> SetImageFX(IF o = Reset THEN "none" ELSE ModeAt(ImageFxMap, o))

(* Where a call has got to: the two statics and the setters so far. *)
CycleRange(s) ==
  LET o == NewOption(s.p, s.o)
  IN  [p |-> IF o = Reset THEN s.p + 1 ELSE s.p, o |-> o,
       setters |-> Append(s.setters, RangeSetter(s.p, o))]

(* The colour effect is never enabled. *)
CycleColour(s) ==
  CASE s.o = Reset -> [p |-> 8, o |-> 1,
                       setters |-> Append(s.setters, SetColourFX([enable |-> 0, u |-> 128, v |-> 128]))]
    [] s.o = 1     -> [p |-> 8, o |-> 2,
                       setters |-> Append(s.setters, SetColourFX([enable |-> 0, u |-> 100, v |-> 200]))]
    [] s.o = 2     -> [p |-> 9, o |-> Reset,
                       setters |-> Append(s.setters, SetColourFX([enable |-> 0, u |-> 0, v |-> 0]))]

Then(s, o, setter) == [p |-> s.p, o |-> o, setters |-> Append(s.setters, setter)]

(* The picture is not turned back. *)
TurnedMutant(s) ==
  CASE s.o = Reset -> Then(s, 1, SetRotation(90))
    [] s.o = 1     -> Then(s, 2, SetRotation(180))
    [] s.o = 2     -> Then(s, 3, SetRotation(270))
    [] s.o = 3     -> Then(s, 4, SetFlips(1, 0))
    [] s.o = 4     -> Then(s, 5, SetFlips(0, 1))
    [] s.o = 5     -> Then(s, 6, SetFlips(1, 1))
    [] s.o = 6     -> [p |-> 10, o |-> Reset, setters |-> Append(s.setters, SetFlips(0, 0))]

CycleOrientation(s) ==
  CASE s.o = Reset -> Then(s, 1, SetRotation(90))
    [] s.o = 1     -> Then(s, 2, SetRotation(180))
    [] s.o = 2     -> Then(s, 3, SetRotation(270))
    [] s.o = 3     -> Then(Then(s, 3, SetRotation(0)), 4, SetFlips(1, 0))
    [] s.o = 4     -> Then(s, 5, SetFlips(0, 1))
    [] s.o = 5     -> Then(s, 6, SetFlips(1, 1))
    [] s.o = 6     -> [p |-> 10, o |-> Reset, setters |-> Append(s.setters, SetFlips(0, 0))]

(* raspicamcontrol_cycle_test.  Up to parameter 6 only one branch is       *)
(* taken; from then on the next parameter begins in the same call.         *)
CycleFrom(p, o) ==
  LET start == [p |-> p, o |-> o, setters |-> <<>>]
      s1 == IF p <= 6 THEN CycleRange(start) ELSE start
      s2 == IF s1.p = 7 THEN CycleRange(s1) ELSE s1
      s3 == IF s2.p = 8 THEN CycleColour(s2) ELSE s2
      s4 == IF s3.p = 9 THEN CycleOrientation(s3) ELSE s3
  IN  IF s4.p = 10 THEN [s4 EXCEPT !.p = 1] ELSE s4

CycleTest ==
  /\ phase = "demo"
  /\ LET s == CycleFrom(parameter, option)
     IN  /\ parameter' = s.p
         /\ option' = s.o
         /\ \E fails \in {{}} \cup (IF faults < MaxFaults THEN {Controls} ELSE {}) :
              /\ Counted(fails)
              /\ camera' = SentAll(camera, s.setters, fails)
  /\ UNCHANGED <<program, phase, given, params>>
-----------------------------------------------------------------------------
CamNext == \/ \E o \in Options : ParseCmdline(o)
           \/ \E mode \in {"keys", "demo"} : CreateCamera(mode)
           \/ InitCamera
           \/ \E command \in {"in", "out", "reset"} : Zoom(command)
           \/ CycleTest
-----------------------------------------------------------------------------
(* The controls of parameter q are at rest. *)
AtRest(cam, q) ==
  CASE q = 0 -> cam["sharpness"] = 0
    [] q = 1 -> cam["contrast"] = 0
    [] q = 2 -> cam["brightness"] = 50
    [] q = 3 -> cam["saturation"] = 0
    [] q = 4 -> cam["ev"] = 0
    [] q = 5 -> cam["exposure"] = "auto"
    [] q = 6 -> cam["awb"] = "auto"
    [] q = 7 -> cam["imageFX"] = "none"
    [] q = 8 -> cam["colourFX"].enable = 0
    [] q = 9 -> /\ \A c \in {"rotation0", "rotation1", "rotation2"} : cam[c] = 0
                /\ \A c \in {"flips0", "flips1", "flips2"} : cam[c] = <<FALSE, FALSE>>

(* RaspiCamControl.c:241-424: whenever the demo moves on, every control it *)
(* has tried is back at rest, the colours and the orientation included     *)
(* when the cycle begins anew, unless the firmware refused a call.         *)
CycledAreRestored ==
  [][parameter' # parameter /\ faults' = 0 =>
       \A q \in 0 .. (IF parameter' > parameter THEN parameter' ELSE 10) - 1 : AtRest(camera', q)]_cvars

(* RaspiCamControl.c:1366-1432: the region RaspiVid records at a key is    *)
(* the one the camera crops, whichever crops it refused before, as long as *)
(* the crop is square; for others only the width is recorded (1421).       *)
RoiIsTheCrop ==
  [][LET crop == camera'["ROI"]
     IN  phase = "keys" /\ (params'.roi # params.roi \/ crop # camera["ROI"])
           /\ crop.width = crop.height => params'.roi = crop]_cvars
=============================================================================
