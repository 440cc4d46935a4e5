------------------------------- MODULE Settings -------------------------------
(***************************************************************************)
(* What the programs are set up with.  A behaviour is about one part:      *)
(* "bounds", a camera that looks for its section of the table; "files",    *)
(* servers that are configured, save and start again; "camera", the        *)
(* controls of the camera.  The first two share the bounds.                *)
(***************************************************************************)
EXTENDS Configuration, CamControl

VARIABLE part

svars == <<part, vars, fvars, cvars>>

SettingsInit ==
  /\ part \in {"bounds", "files", "camera"}
  /\ Init
  /\ IF part = "files" THEN disk \in Disks ELSE disk = [n \in {} |-> 0]
  /\ FilesOff
  /\ CamOff /\ program \in (IF part = "camera" THEN {"RaspiVid", "library"} ELSE {"library"})

SettingsNext ==
  \/ part = "bounds" /\ Next /\ UNCHANGED <<part, fvars, cvars>>
  \/ part = "files" /\ FNext /\ UNCHANGED <<part, shot, markers, okay, shots, cvars>>
  \/ part = "camera" /\ CamNext /\ UNCHANGED <<part, vars, fvars>>

SettingsSpec == SettingsInit /\ [][SettingsNext]_svars
=============================================================================
