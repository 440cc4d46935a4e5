------------------------------- MODULE Tracking -------------------------------
(***************************************************************************)
(* The frame processors of lib/mrtable/process that turn the markers and   *)
(* contours of a picture into objects and cursors of the TUIO registry:    *)
(* Aruco and ArucoCompute, Contour and ContourCompute, run in turn by a    *)
(* ProcessQueue on the data they share (SharedData).                       *)
(*                                                                         *)
(* A contour is the place of its bounding rectangle, or Speck when its     *)
(* size is not that of a finger.  Places overlap when they are neighbours, *)
(* and are further apart than the movement threshold.  What the processors *)
(* call on the registry are the actions of TuioManager.                    *)
(*                                                                         *)
(* The registry deletes what is removed from it, and the processors hold   *)
(* it by counted pointers that delete it too, or use it again: from then   *)
(* on the heap is spoiled.  The process may die of it at any time; until   *)
(* then the model follows the outcome in which the memory still holds what *)
(* it held.                                                                *)
(***************************************************************************)
EXTENDS TuioManager, Sequences, SequencesExt, Lists

CONSTANTS Installations, (* processors and dictionaryId % 4: the sizes 50,   *)
                         (* 100, 250 and 1000                                *)
          RegionNames,   (* names of regions, in the order of a std::map     *)
          Requests,      (* region commands: [code, region, rect]            *)
          Views,         (* what findContours may find                       *)
          Sightings,     (* what detectMarkers may find                      *)
          SkippableFrames

VARIABLES
  dictionary,      (* ServerConfig::dictionaryId % 4                        *)
  processors,      (* ProcessQueue::processors                              *)
  at,              (* the one that runs, 0 between two frames               *)
  pc,              (* where it is                                           *)
  i,               (* the index of the loop it is in                        *)
  j,               (* and of the loop within that                           *)
  todo,            (* the keys of the maps it has yet to visit              *)
  potentials,      (* contours not yet matched with a touch                 *)
  regionMessages, regions, contours, globalContours, touches, ids, markers,
  heap,            (* sound, or spoiled                                     *)
  missing,         (* for every cursor: pictures since a finger was under it*)
  scanned,         (* for every key: pictures in a row that were searched   *)
  lived            (* for every marker: pictures it was counted in since it *)
                   (* was placed, and Unplaced before                       *)

shared == <<regionMessages, regions, contours, globalContours, touches, ids, markers>>
control == <<dictionary, processors, at, pc, i, j, todo, potentials>>
history == <<missing, scanned, lived>>
tvars == <<mvars, shared, control, heap, history>>

Speck == -1
Null == <<-2>>       (* a null pointer where contours should be *)
Global == "global"   (* globalTouches, as if it were a region *)
NoObject == -1
Unplaced == -1
EmptyMap == [k \in {} |-> k]

ASSUME SkippableFramesAssumption == SkippableFrames \in Nat

(* A map has a name once; what is found has a place.                       *)
ASSUME RegionsAssumption ==
  /\ RegionNames \in Seq(STRING \ {Global})
  /\ \A m, n \in DOMAIN RegionNames : RegionNames[m] = RegionNames[n] => m = n
  /\ \A r \in Requests : /\ r.code \in {"put", "update", "delete"}
                         /\ r.region \in ToSet(RegionNames)
  /\ Views \subseteq Seq(Nat \cup {Speck})
  /\ Sightings \subseteq Seq(Nat)

(* initProcessQueue: of each processor one, and Contour with a             *)
(* ContourCompute after it.                                                *)
ASSUME InstallationsAssumption ==
  \A inst \in Installations :
    /\ inst.dictionary \in 0 .. 3
    /\ inst.processors \in Seq(STRING) \ {<<>>}
    /\ \A m, n \in DOMAIN inst.processors :
         inst.processors[m] = inst.processors[n] => m = n
    /\ \A n \in DOMAIN inst.processors :
         /\ inst.processors[n] = "Contour" =>
              \E m \in DOMAIN inst.processors : m > n /\ inst.processors[m] = "ContourCompute"
         /\ inst.processors[n] = "ContourCompute" =>
              \E m \in DOMAIN inst.processors : m < n /\ inst.processors[m] = "Contour"

(* The sizes 50, 100, 250 and 1000 are 1, 2, 3 and 4: ArucoCompute counts  *)
(* to 100, and TableServer gives its vector 100 markers unless a case of   *)
(* its switch says otherwise; the one for 1000 is never taken.             *)
NumMarkers == 2
DictionarySize == dictionary + 1
VectorSize(d) == CASE d = 0 -> 1
                   [] d = 1 -> 2
                   [] d = 2 -> 3
                   [] d = 4 -> 4
                   [] OTHER -> 2

Keys == {Global} \cup {RegionNames[n] : n \in DOMAIN RegionNames}
Limit == SkippableFrames + 1
TwoLives == 2 * (Limit + 1)   (* as far as `lived' counts *)

TInit ==
  /\ MInit
  /\ \E inst \in Installations :
       processors = inst.processors /\ dictionary = inst.dictionary
  /\ at = 0 /\ pc = "idle" /\ i = 1 /\ j = 1 /\ todo = <<>> /\ potentials = <<>>
  /\ regionMessages = <<>>
  /\ regions = EmptyMap
  /\ contours = EmptyMap
  /\ globalContours = <<>>
  /\ touches = [k \in Keys |-> <<>>]
  /\ ids = <<>>
  /\ markers = [n \in 0 .. VectorSize(dictionary) - 1 |-> [tObj |-> NoObject, deathCounter |-> 0]]
  /\ heap = "sound"
  /\ missing = EmptyMap
  /\ scanned = [k \in Keys |-> 0]
  /\ lived = [n \in DOMAIN markers |-> Unplaced]
-----------------------------------------------------------------------------
(* Maps and vectors. *)
Put(f, k, v) == [x \in DOMAIN f \cup {k} |-> IF x = k THEN v ELSE f[x]]
Erase(f, k) == [x \in DOMAIN f \ {k} |-> f[x]]
InOrder(f) == Chosen(RegionNames, DOMAIN f)
Capped(n) == IF n > Limit THEN Limit + 1 ELSE n
Older(n) == IF n = TwoLives THEN n ELSE n + 1

(* A new picture.  Whoever drives the registry may call initFrame first.   *)
(* Commands for regions were put aside since the last one.                 *)
NewFrame ==
  /\ pc = "idle"
  /\ InitFrame
  /\ \E commands \in {<<>>} \cup {<<r>> : r \in Requests} : regionMessages' = commands
  /\ at' = 1 /\ pc' = "start"
  /\ missing' = [s \in Sids(cursors.live) |-> Capped(missing[s] + 1)]
  /\ UNCHANGED <<dictionary, processors, i, j, todo, potentials, regions, contours, globalContours,
                 touches, ids, markers, heap, scanned, lived>>

(* ProcessQueue::process and FrameProcessor::run: the next processor runs, *)
(* whether the last one returned or threw.                                 *)
Finish == /\ IF at = Len(processors) THEN at' = 0 /\ pc' = "idle"
                                     ELSE at' = at + 1 /\ pc' = "start"
          /\ i' = 1 /\ j' = 1 /\ todo' = <<>> /\ potentials' = <<>>
          /\ UNCHANGED <<dictionary, processors>>

Running(name, where) == at > 0 /\ processors[at] = name /\ pc = where
Goto(where, n) == pc' = where /\ i' = n /\ j' = 1 /\ UNCHANGED <<dictionary, processors, at>>

Die == pc' = "dead" /\ UNCHANGED <<dictionary, processors, at, i, j, todo, potentials>>

(* Nothing outlives the process, so that it may as well die between two    *)
(* pictures.                                                               *)
Crash == /\ heap = "spoiled" /\ pc = "idle"
         /\ Die
         /\ UNCHANGED <<mvars, shared, heap, history>>
-----------------------------------------------------------------------------
(* Aruco::process. *)
DetectMarkers ==
  /\ Running("Aruco", "start")
  /\ ids' \in {s \in Sightings : \A n \in DOMAIN s : s[n] < DictionarySize}
  /\ Finish
  /\ UNCHANGED <<mvars, regionMessages, regions, contours, globalContours, touches,
                 markers, heap, history>>

(* ArucoCompute::process.  A reference beyond the vector is to any memory. *)
StartMarkers == /\ Running("ArucoCompute", "start")
                /\ Goto("age", 0)
                /\ UNCHANGED <<mvars, shared, todo, potentials, heap, history>>

Beyond == /\ heap' = "spoiled"
          /\ UNCHANGED <<mvars, markers>>

OldObject(m) == {e \in objects : e.sid = m.tObj}

(* removeTuioObject and reset: tObj keeps pointing to what was deleted.    *)
Expire(n) ==
  /\ markers' = [markers EXCEPT ![n].deathCounter = 0]
  /\ IF OldObject(markers[n]) = {}
     THEN heap' = "spoiled" /\ Changed("object")
          /\ UNCHANGED <<objects, cursors, blobs, sessionID, touched, added, moving>>
     ELSE (\E e \in OldObject(markers[n]) : Take("object", e)) /\ UNCHANGED heap

AllCounted(n) == n = NumMarkers

(* It is taken away a picture too soon. *)
OverdueMutant(age) == age >= Limit

Overdue(age) == age > Limit

(* The counter goes on whether the marker is seen or not. *)
AgeMarker ==
  /\ Running("ArucoCompute", "age")
  /\ IF AllCounted(i)
     THEN Goto("place", 1) /\ UNCHANGED <<mvars, markers, heap, lived>>
     ELSE /\ Goto("age", i + 1)
          /\ IF i \notin DOMAIN markers THEN Beyond /\ UNCHANGED lived
             ELSE LET m == markers[i]
                      placed == m.tObj # NoObject
                      age == IF placed THEN m.deathCounter + 1 ELSE m.deathCounter
                  IN  /\ IF Overdue(age) THEN Expire(i)
                         ELSE /\ markers' = [markers EXCEPT ![i].deathCounter = age]
                              /\ UNCHANGED <<mvars, heap>>
                      /\ lived' = IF placed THEN [lived EXCEPT ![i] = Older(@)] ELSE lived
  /\ UNCHANGED <<regionMessages, regions, contours, globalContours, touches, ids,
                 todo, potentials, missing, scanned>>

(* The marker is added whenever it is seen and not on the table. *)
AlwaysAddMutant(n) ==
  /\ UNCHANGED heap
  /\ AddObject(n) /\ markers' = [markers EXCEPT ![n].tObj = sessionID + 1]
  /\ lived' = [lived EXCEPT ![n] = 0]

(* A marker that was never added is; one that moved is updated, even when  *)
(* the registry deleted it.                                                *)
PlaceMarker(n) ==
  IF markers[n].tObj = NoObject
  THEN /\ AddObject(n)
       /\ markers' = [markers EXCEPT ![n].tObj = sessionID + 1]
       /\ lived' = [lived EXCEPT ![n] = 0]
       /\ UNCHANGED heap
  ELSE /\ UNCHANGED <<markers, lived>>
       /\ \/ UNCHANGED <<mvars, heap>>
          \/ OldObject(markers[n]) = {} /\ heap' = "spoiled" /\ UNCHANGED mvars
          \/ \E e \in OldObject(markers[n]) : Update("object", e) /\ UNCHANGED heap

PlaceMarkers ==
  /\ Running("ArucoCompute", "place")
  /\ IF i > Len(ids)
     THEN Finish /\ UNCHANGED <<mvars, markers, heap, lived>>
     ELSE /\ Goto("place", i + 1)
          /\ UNCHANGED <<todo, potentials>>
          /\ IF ids[i] \in DOMAIN markers THEN PlaceMarker(ids[i])
             ELSE Beyond /\ UNCHANGED lived
  /\ UNCHANGED <<regionMessages, regions, contours, globalContours, touches, ids,
                 missing, scanned>>
-----------------------------------------------------------------------------
(* Contour::putRegion.  The rectangle is parsed after the region was made  *)
(* and before its contours are.                                            *)
PutRegion(r) ==
  CASE r.rect = "short"   -> UNCHANGED <<regions, contours>>
    [] r.rect = "garbled" -> regions' = Put(regions, r.region, "inside") /\ UNCHANGED contours
    [] OTHER -> regions' = Put(regions, r.region, r.rect) /\ contours' = Put(contours, r.region, <<>>)

UpdateRegion(r) == PutRegion(r)

(* The touches of the region stay where they are. *)
DeleteRegion(r) == regions' = Erase(regions, r.region) /\ contours' = Erase(contours, r.region)

(* Contour::process: first the commands, ... *)
StartContours ==
  /\ Running("Contour", "start")
  /\ IF regionMessages = <<>>
     THEN /\ pc' = "search" /\ todo' = InOrder(regions)
          /\ UNCHANGED <<regionMessages, regions, contours>>
     ELSE LET r == Head(regionMessages)
          IN  /\ CASE r.code = "put"    -> PutRegion(r)
                   [] r.code = "update" -> UpdateRegion(r)
                   [] r.code = "delete" -> DeleteRegion(r)
              /\ regionMessages' = Tail(regionMessages)
              /\ UNCHANGED <<pc, todo>>
  /\ UNCHANGED <<mvars, globalContours, touches, ids, markers, dictionary, processors, at, i, j,
                 potentials, heap, history>>

Searched(k) == scanned' = [scanned EXCEPT ![k] = Capped(@ + 1)]

(* ... then, without regions, the whole picture ...                        *)
SearchPicture ==
  /\ Running("Contour", "search") /\ DOMAIN regions = {}
  /\ globalContours' \in Views
  /\ scanned' = [k \in Keys |-> IF k = Global THEN Capped(scanned[k] + 1) ELSE 0]
  /\ Finish
  /\ UNCHANGED <<mvars, regionMessages, regions, contours, touches, ids, markers, heap,
                 missing, lived>>

(* What is left of the todo list was not searched in this picture. *)
Unsearched(rest) ==
  scanned' = [k \in Keys |-> IF k = Global \/ k \notin DOMAIN regions
                               \/ \E n \in DOMAIN rest : rest[n] = k THEN 0 ELSE scanned[k]]

Allocated(k) == IF k \in DOMAIN contours THEN contours[k] # Null ELSE FALSE

(* ... or each region in turn.  A rectangle outside the picture throws.    *)
(* So may findContours when it is given the null pointer that `contours'   *)
(* makes up for a region without contours; it may also be the end.         *)
SearchRegion ==
  /\ Running("Contour", "search") /\ todo # <<>>
  /\ LET k == Head(todo)
     IN  \/ /\ regions[k] = "outside"
            /\ Finish /\ Unsearched(todo) /\ UNCHANGED contours
         \/ /\ regions[k] # "outside" /\ ~Allocated(k)
            /\ contours' = Put(contours, k, Null)
            /\ \/ Finish /\ Unsearched(todo)
               \/ Die /\ UNCHANGED scanned
         \/ /\ regions[k] # "outside" /\ Allocated(k)
            /\ \E view \in Views : contours' = [contours EXCEPT ![k] = view]
            /\ Searched(k)
            /\ todo' = Tail(todo)
            /\ UNCHANGED <<dictionary, processors, at, pc, i, j, potentials>>
  /\ UNCHANGED <<mvars, regionMessages, regions, globalContours, touches, ids, markers,
                 heap, missing, lived>>

EndContours ==
  /\ Running("Contour", "search") /\ todo = <<>> /\ DOMAIN regions # {}
  /\ Finish /\ Unsearched(<<>>)
  /\ UNCHANGED <<mvars, shared, heap, missing, lived>>
-----------------------------------------------------------------------------
(* ContourCompute::process: the global touches when there are no contours  *)
(* of regions, and those of the regions.                                   *)
StartTouches ==
  /\ Running("ContourCompute", "start")
  /\ todo' = IF DOMAIN contours = {} THEN <<Global>> ELSE InOrder(contours)
  /\ pc' = "key"
  /\ UNCHANGED <<mvars, shared, dictionary, processors, at, i, j, potentials, heap, history>>

(* getPotentialTouches, of a null pointer too.                             *)
NextKey ==
  /\ Running("ContourCompute", "key") /\ todo # <<>>
  /\ LET k == Head(todo)
         found == IF k = Global THEN globalContours ELSE contours[k]
     IN  IF found = Null
         THEN Die
         ELSE /\ potentials' = Chosen(found, ToSet(found) \ {Speck})
              /\ Goto("cull", 1) /\ UNCHANGED todo
  /\ UNCHANGED <<mvars, shared, heap, history>>

EndTouches == /\ Running("ContourCompute", "key") /\ todo = <<>>
              /\ Finish
              /\ UNCHANGED <<mvars, shared, heap, history>>

Here == touches[Head(todo)]
Overlap(p, q) == p - q \in -1 .. 1
Seen(s) == IF scanned[Head(todo)] = 0 THEN missing ELSE Put(missing, s, 0)
CursorOf(t) == {e \in cursors.live : e.sid = t.tCur}

(* The next potential that overlaps the touch, from j on. *)
Matches(t) == {n \in j .. Len(potentials) : Overlap(potentials[n], t.bounds)}

(* The touch keeps its old bounds. *)
StayMutant(t, n) ==
  /\ potentials' = RemoveAt(potentials, n) /\ j' = n
  /\ touches' = [touches EXCEPT ![Head(todo)][i] = [t EXCEPT !.deathCounter = -1]]

(* It is erased, the loop goes on with the one after it, and the touch     *)
(* moves: Touch::calculate.                                                *)
MoveTouch(t, n) ==
  /\ potentials' = RemoveAt(potentials, n) /\ j' = n
  /\ touches' = [touches EXCEPT ![Head(todo)][i] =
                   [bounds |-> potentials[n], deathCounter |-> -1, tCur |-> t.tCur]]

(* cullPotentials, for one touch and one potential, ... *)
MatchTouch ==
  /\ Running("ContourCompute", "cull") /\ i <= Len(Here)
  /\ LET t == Here[i]
     IN  /\ Matches(t) # {}
         /\ LET n == Min(Matches(t))
            IN  /\ MoveTouch(t, n)
                /\ IF potentials[n] = t.bounds THEN UNCHANGED mvars
                   ELSE \E e \in CursorOf(t) : Update("cursor", e)
         /\ missing' = Seen(t.tCur)
  /\ UNCHANGED <<regionMessages, regions, contours, globalContours, ids, markers,
                 dictionary, processors, at, pc, i, todo, heap, scanned, lived>>

(* So is its cursor. *)
EarlyMutant(t) == t.deathCounter + 1 >= SkippableFrames

(* Does this touch expire when its counter is incremented?                 *)
Expires(t) == t.deathCounter + 1 >= Limit

(* ... and at the end for one touch.  One that expires is deleted by the   *)
(* registry, and again by erase.                                           *)
PassTouch ==
  /\ Running("ContourCompute", "cull") /\ i <= Len(Here)
  /\ Matches(Here[i]) = {}
  /\ LET t == Here[i]
         k == Head(todo)
     IN  IF Expires(t)
         THEN /\ \E e \in CursorOf(t) : Take("cursor", e)
              /\ touches' = [touches EXCEPT ![k] = RemoveAt(Here, i)]
              /\ Goto("cull", i)
              /\ heap' = "spoiled"
              /\ missing' = Erase(missing, t.tCur)
         ELSE /\ touches' = [touches EXCEPT ![k][i].deathCounter = @ + 1]
              /\ Goto("cull", i + 1)
              /\ UNCHANGED <<mvars, heap, missing>>
  /\ UNCHANGED <<regionMessages, regions, contours, globalContours, ids, markers,
                 todo, potentials, scanned, lived>>

EndCull == /\ Running("ContourCompute", "cull") /\ i > Len(Here)
           /\ Goto("add", 1)
           /\ UNCHANGED <<mvars, shared, todo, potentials, heap, history>>

(* addPotentials. *)
AddPotential ==
  /\ Running("ContourCompute", "add")
  /\ IF i > Len(potentials)
     THEN /\ Goto("key", 1)
          /\ todo' = Tail(todo)
          /\ UNCHANGED <<mvars, touches, missing>>
     ELSE /\ AddCursor
          /\ touches' = [touches EXCEPT ![Head(todo)] = Append(@,
               [bounds |-> potentials[i], deathCounter |-> 0, tCur |-> sessionID + 1])]
          /\ missing' = Put(missing, sessionID + 1, 0)
          /\ Goto("add", i + 1)
          /\ UNCHANGED todo
  /\ UNCHANGED <<regionMessages, regions, contours, globalContours, ids, markers,
                 potentials, heap, scanned, lived>>
-----------------------------------------------------------------------------
TNext == \/ NewFrame \/ Crash
         \/ DetectMarkers \/ StartMarkers \/ AgeMarker \/ PlaceMarkers
         \/ StartContours \/ SearchPicture \/ SearchRegion \/ EndContours
         \/ StartTouches \/ NextKey \/ MatchTouch \/ PassTouch \/ EndCull \/ AddPotential
         \/ EndTouches

TSpec == TInit /\ [][TNext]_tvars
-----------------------------------------------------------------------------
AllTouches == UNION {{<<k, n>> : n \in DOMAIN touches[k]} : k \in Keys}
Touch(a) == touches[a[1]][a[2]]

(* ContourCompute.hpp:56-88: the cursors on the table and the touches of   *)
(* all regions are the same, one for one, whichever regions come and go    *)
(* and whatever throws: no cursor is left without a touch that could       *)
(* remove it, and no touch points to a cursor that is gone.                *)
CursorsAreTouches ==
  /\ Sids(cursors.live) = {Touch(a).tCur : a \in AllTouches}
  /\ \A a, b \in AllTouches : Touch(a).tCur = Touch(b).tCur => a = b

(* ContourCompute.hpp:43-118: after a look at a region every finger in it  *)
(* that has no neighbour is under a touch.                                 *)
Lone(view, p) == p # Speck /\ \A n \in DOMAIN view : view[n] # p => ~Overlap(p, view[n])

FingersAreTracked ==
  pc = "key" =>
    \A k \in DOMAIN contours :
      contours[k] # Null /\ (\A n \in DOMAIN todo : todo[n] # k) =>
        \A n \in DOMAIN contours[k] :
          Lone(contours[k], contours[k][n]) =>
            \E m \in DOMAIN touches[k] : touches[k][m].bounds = contours[k][n]

(* Contour.hpp:80-102 with ContourCompute.hpp:56-79: a cursor outlives its *)
(* finger by skippableFrames pictures and no more, if its region was       *)
(* searched in all of them.  (A region that is deleted, outside the        *)
(* picture, or after such a one in the map is not searched, and its        *)
(* cursors stay.)                                                          *)
NoGhosts ==
  pc = "idle" =>
    \A a \in AllTouches : scanned[a[1]] >= Limit => missing[Touch(a).tCur] < Limit

(* ContourCompute.hpp:72-77: a cursor is not taken off the table while its *)
(* finger was seen within skippableFrames pictures.                        *)
LeavesAfterAbsence ==
  [][\A e \in cursors.live \ cursors'.live :
        e.sid \in DOMAIN missing /\ missing[e.sid] >= Limit]_tvars

(* ArucoCompute.hpp:53-61: a marker has one object on the table at most.   *)
OneObjectPerMarker == \A e, f \in objects : e.id = f.id => e = f

(* ArucoCompute.hpp:42-48, Marker.cpp:21: nothing sets the counter of a    *)
(* marker back when it is seen, and reset() keeps its pointer.  So a       *)
(* marker is on the table from the picture in which it was placed for      *)
(* Limit further ones, whether it is seen in them or not; it is never      *)
(* placed again; and a second time later, at the latest, the registry is   *)
(* asked to remove what it deleted.  Markers that are not counted stay for *)
(* ever.                                                                   *)
OnTheTable(n) == \E e \in objects : e.id = n

OneLife ==
  \A n \in DOMAIN markers :
    /\ OnTheTable(n) <=> lived[n] \in 0 .. Limit
    /\ lived[n] = TwoLives => heap = "spoiled"

(* No memory is used after it was freed, nor beyond the markers, before    *)
(* somebody was removed or a dictionary was used whose size is not that    *)
(* of the vector.                                                          *)
SomebodyLeft == Cardinality(objects) + Cardinality(cursors.live) <= sessionID
VectorIsTooShort == \/ NumMarkers > Cardinality(DOMAIN markers)
                    \/ DictionarySize > Cardinality(DOMAIN markers)

SpoiledByRemoval == heap = "spoiled" => SomebodyLeft \/ VectorIsTooShort

(* ContourCompute.hpp: fingers, touches and cursors follow one another.    *)
CursorsFollowFingers ==
  /\ CursorsAreTouches
  /\ FingersAreTracked
  /\ NoGhosts

(* ArucoCompute.hpp: objects do not follow markers so; what they follow is *)
(* the count of pictures since they were placed.                           *)
ObjectsAreCounted ==
  /\ OneObjectPerMarker
  /\ OneLife
  /\ SpoiledByRemoval
=============================================================================
