--------------------------- MODULE TrackingProofs ----------------------------
(***************************************************************************)
(* Fingers and markers are followed, for any number of regions, views and  *)
(* pictures, and any queue of processors in which contours are searched    *)
(* before they are looked at.                                              *)
(***************************************************************************)
EXTENDS Tracking, ListLemmas

(***************************************************************************)
(* The registry, as far as the processors change it: every session is a    *)
(* new one, and there are no more on the table than were given out.        *)
(***************************************************************************)
RegistryIs ==
  /\ sessionID \in Int /\ sessionID >= -1
  /\ IsFiniteSet(objects) /\ IsFiniteSet(cursors.live)
  /\ "live" \in DOMAIN cursors
  /\ \A e \in cursors.live : e.sid \in Nat /\ e.sid <= sessionID
  /\ \A e, f \in cursors.live : e.sid = f.sid => e = f
  /\ Cardinality(objects) + Cardinality(cursors.live) <= sessionID + 1

(* A marker that was placed is on the table until somebody left, and who   *)
(* was never placed has not aged.                                          *)
MarkersFollow ==
  /\ dictionary \in 0 .. 3
  /\ markers \in [0 .. VectorSize(dictionary) - 1 -> [tObj : Int, deathCounter : Int]]
  /\ \A n \in DOMAIN markers :
       IF markers[n].tObj = NoObject THEN markers[n].deathCounter = 0
                                     ELSE OldObject(markers[n]) = {} => SomebodyLeft
  /\ \A e \in objects : e.id \in DOMAIN markers /\ markers[e.id].tObj # NoObject
  /\ ids \in Seq(Nat)
  /\ \A n \in DOMAIN ids : ids[n] < DictionarySize
  /\ pc = "age" => i \in 0 .. NumMarkers
  /\ pc = "place" => i \in Nat \ {0}

ObjectsSound == OneObjectPerMarker /\ SpoiledByRemoval

ObjectsOK == RegistryIs /\ MarkersFollow /\ ObjectsSound

(* The one life of a marker: its counter runs from 0 to Limit while its    *)
(* object is on the table, and once more after it was taken away.          *)
Life(n) ==
  /\ lived[n] \in Unplaced .. TwoLives
  /\ lived[n] = Unplaced <=> markers[n].tObj = NoObject
  /\ lived[n] \in 0 .. Limit =>
       /\ markers[n].deathCounter = lived[n]
       /\ [sid |-> markers[n].tObj, id |-> n] \in objects
  /\ lived[n] > Limit =>
       /\ OldObject(markers[n]) = {}
       /\ lived[n] < TwoLives => markers[n].deathCounter = lived[n] - Limit - 1
       /\ lived[n] = TwoLives => heap = "spoiled"

(* The pointers of the markers are to objects of their own.                *)
Pointers ==
  /\ \A n \in DOMAIN markers : markers[n].tObj <= sessionID
  /\ \A m, n \in DOMAIN markers :
       markers[m].tObj = markers[n].tObj /\ markers[m].tObj # NoObject => m = n
  /\ \A e \in objects : /\ e.id \in DOMAIN markers
                        /\ e = [sid |-> markers[e.id].tObj, id |-> e.id]

LivesOK ==
  /\ lived \in [DOMAIN markers -> Int]
  /\ \A n \in DOMAIN markers : Life(n)
  /\ Pointers

(***************************************************************************)
(* What the processors for fingers share.                                  *)
(***************************************************************************)
Places == Nat \cup {Speck}
Named == ToSet(RegionNames)
Looking == pc \in {"key", "cull", "add"}

MapTypes ==
  /\ regionMessages \in Seq(Requests)
  /\ DOMAIN contours \subseteq DOMAIN regions
  /\ DOMAIN regions \subseteq Named
  /\ contours \in [DOMAIN contours -> Seq(Places) \cup {Null}]
  /\ globalContours \in Seq(Places)

LoopTypes ==
  /\ touches \in [Keys -> Seq([bounds : Nat, deathCounter : Int, tCur : Nat])]
  /\ potentials \in Seq(Nat)
  /\ todo \in Seq(Keys)
  /\ pc = "search" => ToSet(todo) \subseteq DOMAIN regions
  /\ Looking => ToSet(todo) \subseteq {Global} \cup DOMAIN contours
  /\ pc \in {"cull", "add"} => todo # <<>> /\ i \in Nat \ {0}
  /\ pc = "cull" => j \in Nat \ {0}

(* CursorsAreTouches, touch by touch. *)
Paired ==
  /\ \A k \in Keys : \A n \in DOMAIN touches[k] : touches[k][n].tCur \in Sids(cursors.live)
  /\ \A s \in Sids(cursors.live) :
       \E k \in Keys : \E n \in DOMAIN touches[k] : touches[k][n].tCur = s
  /\ \A k, l \in Keys : \A n \in DOMAIN touches[k], m \in DOMAIN touches[l] :
       touches[k][n].tCur = touches[l][m].tCur => k = l /\ n = m

TouchesOK == MapTypes /\ LoopTypes /\ Paired

(***************************************************************************)
(* Where the fingers are while the potentials are matched.                 *)
(***************************************************************************)
Found(k) == IF k = Global THEN globalContours ELSE contours[k]

Covered(k, p) == \E m \in DOMAIN touches[k] : touches[k][m].bounds = p

(* The touches before i have found theirs, and i if it was just moved. *)
Settled(k, p) ==
  \E m \in DOMAIN touches[k] :
    /\ touches[k][m].bounds = p
    /\ m < i \/ (m = i /\ touches[k][m].deathCounter = -1)

LoneOnes(k) == {p \in ToSet(Found(k)) : Lone(Found(k), p)}

(* The regions that were looked at; the potentials of the one that is; and *)
(* its fingers while the touches are matched and while the rest is added.  *)
FingersLookedAt ==
  Looking =>
    \A k \in DOMAIN contours \ ToSet(todo) :
      contours[k] # Null => \A p \in LoneOnes(k) : Covered(k, p)

PotentialsFound ==
  pc \in {"cull", "add"} =>
    /\ Found(Head(todo)) \in Seq(Places)
    /\ ToSet(potentials) \subseteq ToSet(Found(Head(todo)))

FingersMatched ==
  pc = "cull" =>
    \A p \in LoneOnes(Head(todo)) : p \in ToSet(potentials) \/ Settled(Head(todo), p)

FingersAdded ==
  pc = "add" =>
    \A p \in LoneOnes(Head(todo)) :
      \/ \E n \in DOMAIN potentials : n >= i /\ potentials[n] = p
      \/ Covered(Head(todo), p)

FingersOK == FingersLookedAt /\ PotentialsFound /\ FingersMatched /\ FingersAdded

(***************************************************************************)
(* How long a finger was away, against the counter of its touch.           *)
(***************************************************************************)
Ahead(name, where) ==
  at # 0 /\ \E n \in DOMAIN processors :
              processors[n] = name /\ (n > at \/ (n = at /\ pc \in where))

ToSearch == Ahead("Contour", {"start", "search"})
ToLook == Ahead("ContourCompute", {"start"})

(* A touch that has yet to be looked at in this picture, before and after  *)
(* its region was searched, and one that was.                              *)
Before(k, t) == /\ t.deathCounter \in 0 .. SkippableFrames
                /\ t.deathCounter < missing[t.tCur]
                /\ missing[t.tCur] <= t.deathCounter + 1 \/ scanned[k] <= t.deathCounter
Due(k, t) == /\ t.deathCounter \in -1 .. SkippableFrames
             /\ t.deathCounter < missing[t.tCur]
             /\ missing[t.tCur] <= t.deathCounter + 1 \/ scanned[k] <= t.deathCounter + 1
Done(k, t) == /\ t.deathCounter \in 0 .. SkippableFrames
              /\ t.deathCounter <= missing[t.tCur]
              /\ missing[t.tCur] <= t.deathCounter \/ scanned[k] <= t.deathCounter

AllBefore(k) == \A n \in DOMAIN touches[k] : Before(k, touches[k][n])
AllDue(k) == \A n \in DOMAIN touches[k] : touches[k][n].deathCounter # -1 /\ Due(k, touches[k][n])
AllDone(k) == \A n \in DOMAIN touches[k] : Done(k, touches[k][n])

(* The keys that StartTouches will look at. *)
Looked == IF DOMAIN contours = {} THEN {Global} ELSE DOMAIN contours

Queue ==
  /\ processors \in Seq(STRING) /\ processors # <<>>
  /\ \A m, n \in DOMAIN processors : processors[m] = processors[n] => m = n
  /\ \A n \in DOMAIN processors :
       /\ processors[n] = "Contour" =>
            \E m \in DOMAIN processors : m > n /\ processors[m] = "ContourCompute"
       /\ processors[n] = "ContourCompute" =>
            \E m \in DOMAIN processors : m < n /\ processors[m] = "Contour"

Passing == pc \in {"start", "age", "place"}

Position ==
  /\ pc \in {"idle", "start", "age", "place", "search", "key", "cull", "add", "dead"}
  /\ pc \notin {"idle", "dead"} => at \in DOMAIN processors

Histories ==
  /\ DOMAIN missing = Sids(cursors.live)
  /\ \A s \in DOMAIN missing : missing[s] \in 0 .. Limit + 1
  /\ scanned \in [Keys -> 0 .. Limit + 1]

(* Without a ContourCompute nobody makes touches. *)
TouchesNeedLooks ==
  (\E k \in Keys : DOMAIN touches[k] # {}) =>
     \E n \in DOMAIN processors : processors[n] = "ContourCompute"

TimeTypes == Queue /\ Position /\ Histories /\ Distinct(todo) /\ TouchesNeedLooks

(* Between two pictures, and while other processors run; ... *)
PassingTimes ==
  /\ pc = "idle" => \A k \in Keys : AllDone(k)
  /\ Passing /\ ToSearch => \A k \in Keys : AllBefore(k)
  /\ Passing /\ ~ToSearch /\ ToLook =>
       \A k \in Keys : AllDue(k) /\ (scanned[k] # 0 => k \in Looked)
  /\ Passing /\ ~ToSearch /\ ~ToLook => \A k \in Keys : AllDone(k)

(* ... while the regions are searched; ... *)
SearchTimes ==
  pc = "search" =>
    /\ \A k \in DOMAIN regions \ ToSet(todo) : AllDue(k) /\ Allocated(k)
    /\ \A k \in ToSet(todo) \cup (Keys \ DOMAIN regions) : AllBefore(k)

(* ... and while they are looked at: the others, and the one in turn.      *)
LookTimes ==
  Looking =>
    /\ \A k \in Keys \ ToSet(todo) : AllDone(k)
    /\ todo # <<>> => \A k \in ToSet(Tail(todo)) : AllDue(k)

CullTimes(k) ==
  \A n \in DOMAIN touches[k] :
    /\ n < i => Done(k, touches[k][n])
    /\ n >= i => Due(k, touches[k][n])
    /\ n > i => touches[k][n].deathCounter # -1

TurnTimes ==
  /\ pc = "key" /\ todo # <<>> => AllDue(Head(todo))
  /\ pc = "cull" => CullTimes(Head(todo))
  /\ pc = "add" => AllDone(Head(todo))

TimesOK == PassingTimes /\ SearchTimes /\ LookTimes /\ TurnTimes
-----------------------------------------------------------------------------
(* Lists *)

LEMMA TailFacts ==
  ASSUME NEW S, NEW s \in Seq(S), s # <<>>
  PROVE  /\ Head(s) \in S /\ Head(s) \in ToSet(s)
         /\ Tail(s) \in Seq(S)
         /\ ToSet(s) = {Head(s)} \cup ToSet(Tail(s))
         /\ Distinct(s) => Distinct(Tail(s)) /\ Head(s) \notin ToSet(Tail(s))
<1>1. Len(s) \in Nat \ {0} /\ Head(s) = s[1] /\ \A n \in 1 .. Len(s) : s[n] \in S
  OBVIOUS
<1>2. /\ Tail(s) \in Seq(S) /\ Len(Tail(s)) = Len(s) - 1
      /\ \A n \in 1 .. Len(s) - 1 : Tail(s)[n] = s[n + 1]
  BY <1>1
<1>3. ToSet(s) = {s[n] : n \in 1 .. Len(s)}
  BY <1>1 DEF ToSet
<1>4. ToSet(Tail(s)) = {s[n + 1] : n \in 1 .. Len(s) - 1}
  <2>1. PICK r : r = Tail(s)
    OBVIOUS
  <2>2. /\ r \in Seq(S) /\ DOMAIN r = 1 .. Len(s) - 1
        /\ \A n \in 1 .. Len(s) - 1 : r[n] = s[n + 1]
    BY <1>1, <1>2, <2>1
  <2>3. ToSet(r) = {r[n] : n \in 1 .. Len(s) - 1}
    BY <2>2 DEF ToSet
  <2> QED
    BY <2>1, <2>2, <2>3
<1>5. ToSet(s) = {Head(s)} \cup ToSet(Tail(s))
  <2>1. ASSUME NEW x \in ToSet(s) PROVE x \in {Head(s)} \cup ToSet(Tail(s))
    <3>1. PICK n \in 1 .. Len(s) : x = s[n]
      BY <1>3
    <3>2. CASE n = 1
      BY <1>1, <3>1, <3>2
    <3>3. CASE n # 1
      <4>1. n - 1 \in 1 .. Len(s) - 1 /\ x = s[(n - 1) + 1]
        BY <1>1, <3>1, <3>3
      <4> QED
        BY <1>4, <4>1
    <3> QED
      BY <3>2, <3>3
  <2>2. ASSUME NEW x \in ToSet(Tail(s)) PROVE x \in ToSet(s)
    <3>1. PICK n \in 1 .. Len(s) - 1 : x = s[n + 1]
      BY <1>4
    <3>2. n + 1 \in 1 .. Len(s)
      BY <1>1
    <3> QED
      BY <1>3, <3>1, <3>2
  <2>3. Head(s) \in ToSet(s)
    <3>1. 1 \in 1 .. Len(s)
      BY <1>1
    <3> QED
      BY <1>1, <1>3, <3>1
  <2> QED
    BY <2>1, <2>2, <2>3
<1>6. ASSUME Distinct(s) PROVE Distinct(Tail(s)) /\ Head(s) \notin ToSet(Tail(s))
  <2>1. ASSUME NEW m \in 1 .. Len(s) - 1, NEW n \in 1 .. Len(s) - 1, Tail(s)[m] = Tail(s)[n]
        PROVE  m = n
    <3>1. s[m + 1] = s[n + 1] /\ m + 1 \in 1 .. Len(s) /\ n + 1 \in 1 .. Len(s)
      BY <1>1, <1>2, <2>1
    <3>2. m + 1 = n + 1
      BY <1>6, <3>1 DEF Distinct
    <3> QED
      BY <1>1, <3>2
  <2>2. ASSUME NEW n \in 1 .. Len(s) - 1, s[n + 1] = s[1] PROVE FALSE
    <3>1. n + 1 \in 1 .. Len(s) /\ 1 \in 1 .. Len(s) /\ n + 1 # 1
      BY <1>1
    <3> QED
      BY <1>6, <2>2, <3>1 DEF Distinct
  <2> QED
    BY <1>1, <1>2, <1>4, <2>1, <2>2 DEF Distinct
<1> QED
  BY <1>1, <1>2, <1>5, <1>6

(* What is asked of every member of a list. *)
LEMMA ListMember ==
  ASSUME NEW S, NEW s \in Seq(S)
  PROVE  /\ DOMAIN s = 1 .. Len(s) /\ Len(s) \in Nat
         /\ \A n \in DOMAIN s : s[n] \in S /\ s[n] \in ToSet(s)
         /\ \A x \in ToSet(s) : x \in S /\ \E n \in DOMAIN s : s[n] = x
  BY DEF ToSet
-----------------------------------------------------------------------------
(* The registry *)

LEMMA CursorAdded ==
  ASSUME RegistryIs, AddCursor
  PROVE  /\ RegistryIs'
         /\ objects' = objects /\ sessionID' = sessionID + 1
         /\ \E e : e.sid = sessionID + 1 /\ cursors'.live = cursors.live \cup {e}
         /\ SomebodyLeft => SomebodyLeft'
<1>1. PICK p : p = cursors
  OBVIOUS
<1>2. /\ sessionID' = sessionID + 1 /\ objects' = objects
      /\ cursors' \in Adds(p, sessionID + 1)
  BY <1>1 DEF AddCursor, NewSession
<1>3. \E e : e.sid = sessionID + 1 /\ cursors'.live = p.live \cup {e} /\ "live" \in DOMAIN cursors'
  <2>1. "live" \in DOMAIN p
    BY <1>1 DEF RegistryIs
  <2>2. CASE TakesFree(p)
    <3>1. PICK f \in p.free :
            cursors' = [p EXCEPT !.live = @ \cup {[sid |-> sessionID + 1, id |-> f.id]},
                                 !.free = @ \ {f}]
      BY <1>2, <2>2 DEF Adds
    <3> DEFINE e == [sid |-> sessionID + 1, id |-> f.id]
    <3>2. e.sid = sessionID + 1
      OBVIOUS
    <3> HIDE DEF e
    <3>3. cursors' = [p EXCEPT !.live = @ \cup {e}, !.free = @ \ {f}]
      BY <3>1 DEF e
    <3>4. cursors'.live = p.live \cup {e} /\ "live" \in DOMAIN cursors'
      BY <2>1, <3>3
    <3> QED
      BY <3>2, <3>4
  <2>3. CASE ~TakesFree(p)
    <3> DEFINE e == [sid |-> sessionID + 1, id |-> Cardinality(p.live)]
    <3>2. e.sid = sessionID + 1
      OBVIOUS
    <3>1. cursors' = [p EXCEPT !.live = @ \cup {e}, !.max = Cardinality(p.live)]
      BY <1>2, <2>3 DEF Adds
    <3> HIDE DEF e
    <3>4. cursors'.live = p.live \cup {e} /\ "live" \in DOMAIN cursors'
      BY <2>1, <3>1
    <3> QED
      BY <3>2, <3>4
  <2> QED
    BY <2>2, <2>3
<1>4. PICK e : e.sid = sessionID + 1 /\ cursors'.live = cursors.live \cup {e}
               /\ "live" \in DOMAIN cursors'
  BY <1>1, <1>3
<1>5. sessionID \in Int /\ sessionID >= -1
  BY DEF RegistryIs
<1>6. e \notin cursors.live
  BY <1>4, <1>5 DEF RegistryIs
<1>7. /\ IsFiniteSet(cursors'.live)
      /\ Cardinality(cursors'.live) = Cardinality(cursors.live) + 1
  BY <1>4, <1>6, FS_AddElement DEF RegistryIs
<1>8. Cardinality(objects) \in Nat /\ Cardinality(cursors.live) \in Nat
  BY FS_CardinalityType DEF RegistryIs
<1>9. SomebodyLeft => SomebodyLeft'
  BY <1>2, <1>5, <1>7, <1>8 DEF SomebodyLeft
<1>10. RegistryIs'
  <2>1. \A f \in cursors'.live : f.sid \in Nat /\ f.sid <= sessionID'
    BY <1>2, <1>4, <1>5 DEF RegistryIs
  <2>2. \A f, g \in cursors'.live : f.sid = g.sid => f = g
    BY <1>4, <1>5 DEF RegistryIs
  <2>3. Cardinality(objects') + Cardinality(cursors'.live) <= sessionID' + 1
    BY <1>2, <1>5, <1>7, <1>8 DEF RegistryIs
  <2>4. sessionID' \in Int /\ sessionID' >= -1 /\ IsFiniteSet(objects')
    BY <1>2, <1>5 DEF RegistryIs
  <2> QED
    BY <1>4, <1>7, <2>1, <2>2, <2>3, <2>4 DEF RegistryIs
<1> QED
  BY <1>2, <1>4, <1>9, <1>10

LEMMA ObjectAdded ==
  ASSUME RegistryIs, NEW n, AddObject(n)
  PROVE  /\ RegistryIs'
         /\ cursors' = cursors /\ sessionID' = sessionID + 1
         /\ objects' = objects \cup {[sid |-> sessionID + 1, id |-> n]}
         /\ SomebodyLeft => SomebodyLeft'
<1> DEFINE e == [sid |-> sessionID + 1, id |-> n]
<1>1. /\ cursors' = cursors /\ sessionID' = sessionID + 1
      /\ objects' = objects \cup {e}
  BY DEF AddObject, NewSession
<1>2. sessionID \in Int /\ sessionID >= -1 /\ IsFiniteSet(objects)
  BY DEF RegistryIs
<1> HIDE DEF e
<1>3. IsFiniteSet(objects') /\ Cardinality(objects') <= Cardinality(objects) + 1
  <2>1. CASE e \in objects
    <3>1. objects' = objects
      BY <1>1, <2>1
    <3>2. Cardinality(objects) \in Nat
      BY <1>2, FS_CardinalityType
    <3> QED
      BY <1>2, <3>1, <3>2
  <2>2. CASE e \notin objects
    <3>1. IsFiniteSet(objects') /\ Cardinality(objects') = Cardinality(objects) + 1
      BY <1>1, <1>2, <2>2, FS_AddElement
    <3>2. Cardinality(objects) \in Nat
      BY <1>2, FS_CardinalityType
    <3> QED
      BY <3>1, <3>2
  <2> QED
    BY <2>1, <2>2
<1>4. /\ Cardinality(objects) \in Nat /\ Cardinality(objects') \in Nat
      /\ Cardinality(cursors.live) \in Nat
  BY <1>2, <1>3, FS_CardinalityType DEF RegistryIs
<1>5. SomebodyLeft => SomebodyLeft'
  BY <1>1, <1>2, <1>3, <1>4 DEF SomebodyLeft
<1>6. RegistryIs'
  BY <1>1, <1>2, <1>3, <1>4 DEF RegistryIs
<1> QED
  BY <1>1, <1>5, <1>6 DEF e

LEMMA ObjectTaken ==
  ASSUME RegistryIs, NEW e \in objects, Take("object", e)
  PROVE  /\ RegistryIs' /\ SomebodyLeft'
         /\ objects' = objects \ {e} /\ UNCHANGED <<cursors, sessionID>>
<1>1. objects' = objects \ {e} /\ cursors' = cursors /\ sessionID' = sessionID
  BY DEF Take, TakeOff
<1>2. IsFiniteSet(objects') /\ Cardinality(objects') = Cardinality(objects) - 1
  BY <1>1, FS_RemoveElement DEF RegistryIs
<1>3. /\ Cardinality(objects) \in Nat /\ Cardinality(cursors.live) \in Nat
      /\ Cardinality(objects') \in Nat
  BY <1>2, FS_CardinalityType DEF RegistryIs
<1>4. sessionID \in Int
  BY DEF RegistryIs
<1>5. SomebodyLeft'
  BY <1>1, <1>2, <1>3, <1>4 DEF SomebodyLeft, RegistryIs
<1>6. RegistryIs'
  BY <1>1, <1>2, <1>3, <1>4 DEF RegistryIs
<1> QED
  BY <1>1, <1>5, <1>6

LEMMA CursorTaken ==
  ASSUME RegistryIs, NEW e \in cursors.live, Take("cursor", e)
  PROVE  /\ RegistryIs' /\ SomebodyLeft'
         /\ cursors'.live = cursors.live \ {e} /\ UNCHANGED <<objects, sessionID>>
<1>1. objects' = objects /\ cursors' = Removes(cursors, {e}) /\ sessionID' = sessionID
  BY DEF Take, TakeOff
<1>2. cursors'.live = cursors.live \ {e} /\ "live" \in DOMAIN cursors'
  BY <1>1 DEF Removes
<1>3. IsFiniteSet(cursors'.live) /\ Cardinality(cursors'.live) = Cardinality(cursors.live) - 1
  BY <1>2, FS_RemoveElement DEF RegistryIs
<1>4. /\ Cardinality(objects) \in Nat /\ Cardinality(cursors.live) \in Nat
      /\ Cardinality(cursors'.live) \in Nat
  BY <1>3, FS_CardinalityType DEF RegistryIs
<1>5. sessionID \in Int
  BY DEF RegistryIs
<1>6. SomebodyLeft'
  BY <1>1, <1>3, <1>4, <1>5 DEF SomebodyLeft, RegistryIs
<1>7. RegistryIs'
  <2>1. \A f \in cursors'.live : f.sid \in Nat /\ f.sid <= sessionID'
    BY <1>1, <1>2 DEF RegistryIs
  <2>2. \A f, g \in cursors'.live : f.sid = g.sid => f = g
    BY <1>2 DEF RegistryIs
  <2>3. Cardinality(objects') + Cardinality(cursors'.live) <= sessionID' + 1
    BY <1>1, <1>3, <1>4, <1>5 DEF RegistryIs
  <2>4. sessionID' \in Int /\ sessionID' >= -1 /\ IsFiniteSet(objects')
    BY <1>1 DEF RegistryIs
  <2> QED
    BY <1>2, <1>3, <2>1, <2>2, <2>3, <2>4 DEF RegistryIs
<1> QED
  BY <1>1, <1>2, <1>6, <1>7

(* Who is on the table does not change. *)
Still == UNCHANGED <<objects, cursors, sessionID>>

LEMMA StillKeeps ==
  ASSUME Still
  PROVE  (RegistryIs => RegistryIs') /\ (SomebodyLeft => SomebodyLeft')
  BY DEF Still, RegistryIs, SomebodyLeft

LEMMA StillSteps ==
  /\ UNCHANGED mvars => Still
  /\ InitFrame => Still
  /\ \A knd, e : Update(knd, e) => Still
  BY DEF mvars, InitFrame, Update, Still
-----------------------------------------------------------------------------
(* Markers and objects *)

LEMMA VectorLength ==
  ASSUME MarkersFollow
  PROVE  /\ VectorSize(dictionary) \in Nat
         /\ Cardinality(DOMAIN markers) = VectorSize(dictionary)
         /\ DOMAIN markers = 0 .. VectorSize(dictionary) - 1
<1>1. dictionary \in 0 .. 3
  BY DEF MarkersFollow
<1>2. dictionary = 0 \/ dictionary = 1 \/ dictionary = 2 \/ dictionary = 3
  BY <1>1
<1>3. VectorSize(dictionary) \in Nat \ {0}
  BY <1>2 DEF VectorSize
<1>4. DOMAIN markers = 0 .. VectorSize(dictionary) - 1
  BY DEF MarkersFollow
<1>5. PICK v : v = VectorSize(dictionary)
  OBVIOUS
<1>6. v \in Nat \ {0} /\ 0 \in Int /\ v - 1 \in Int /\ ~(0 > v - 1)
  BY <1>3, <1>5
<1>7. Cardinality(0 .. v - 1) = v - 1 - 0 + 1
  BY ONLY <1>6, FS_Interval
<1> QED
  BY <1>3, <1>4, <1>5, <1>6, <1>7

(* Beyond the vector is only who it is too short for. *)
LEMMA BeyondIsTooShort ==
  ASSUME MarkersFollow, NEW n \in Nat, n \notin DOMAIN markers,
         n < NumMarkers \/ n < DictionarySize
  PROVE  VectorIsTooShort
<1>1. PICK v : v = VectorSize(dictionary)
  OBVIOUS
<1>2. v \in Nat /\ Cardinality(DOMAIN markers) = v /\ n \notin 0 .. v - 1
  BY <1>1, VectorLength
<1>3. n >= v
  BY <1>2
<1>4. NumMarkers \in Nat /\ DictionarySize \in Nat
  BY DEF NumMarkers, DictionarySize, MarkersFollow
<1> QED
  BY <1>2, <1>3, <1>4 DEF VectorIsTooShort

LEMMA ObjectsInit == TInit => ObjectsOK
<1> SUFFICES ASSUME TInit PROVE ObjectsOK
  OBVIOUS
<1>1. PICK inst \in Installations : processors = inst.processors /\ dictionary = inst.dictionary
  BY DEF TInit
<1>2. dictionary \in 0 .. 3
  BY <1>1, InstallationsAssumption
<1>3. /\ objects = {} /\ cursors = EmptyPool /\ sessionID = -1
  BY DEF TInit, MInit
<1>4. cursors.live = {} /\ "live" \in DOMAIN cursors
  BY <1>3 DEF EmptyPool
<1>5. Cardinality({}) = 0 /\ IsFiniteSet({})
  BY FS_EmptySet
<1>6. RegistryIs
  BY <1>3, <1>4, <1>5 DEF RegistryIs
<1>7. MarkersFollow
  <2>1. markers = [n \in 0 .. VectorSize(dictionary) - 1 |-> [tObj |-> NoObject, deathCounter |-> 0]]
    BY DEF TInit
  <2>2. markers \in [0 .. VectorSize(dictionary) - 1 -> [tObj : Int, deathCounter : Int]]
    BY <2>1 DEF NoObject
  <2>3. \A n \in DOMAIN markers : markers[n].tObj = NoObject /\ markers[n].deathCounter = 0
    BY <2>1
  <2>4. ids = <<>> /\ pc = "idle"
    BY DEF TInit
  <2> QED
    BY <1>2, <1>3, <2>2, <2>3, <2>4 DEF MarkersFollow
<1>8. ObjectsSound
  BY <1>3 DEF ObjectsSound, OneObjectPerMarker, SpoiledByRemoval, TInit
<1> QED
  BY <1>6, <1>7, <1>8 DEF ObjectsOK

(* What leaves the markers and the objects alone. *)
LEMMA OthersKeepObjects ==
  ASSUME ObjectsOK, UNCHANGED <<objects, markers, ids, dictionary>>, RegistryIs',
         SomebodyLeft => SomebodyLeft', heap' = heap \/ SomebodyLeft',
         pc' \notin {"age", "place"}
  PROVE  ObjectsOK'
<1>1. MarkersFollow'
  <2>1. \A n \in DOMAIN markers :
          OldObject(markers[n])' = OldObject(markers[n])
    BY DEF OldObject
  <2>2. (\A n \in DOMAIN ids : ids[n] < DictionarySize)'
    BY DEF ObjectsOK, MarkersFollow, DictionarySize
  <2> QED
    BY <2>1, <2>2 DEF ObjectsOK, MarkersFollow
<1>2. ObjectsSound'
  <2>1. OneObjectPerMarker'
    BY DEF ObjectsOK, ObjectsSound, OneObjectPerMarker
  <2>2. VectorIsTooShort' = VectorIsTooShort
    BY DEF VectorIsTooShort, DictionarySize, NumMarkers
  <2>3. SpoiledByRemoval'
    BY <2>2 DEF ObjectsOK, ObjectsSound, SpoiledByRemoval
  <2> QED
    BY <2>1, <2>3 DEF ObjectsSound
<1> QED
  BY <1>1, <1>2 DEF ObjectsOK
(* What places no marker. *)
LEMMA MarkersStay ==
  ASSUME ObjectsOK, UNCHANGED dictionary,
         markers' \in [DOMAIN markers -> [tObj : Int, deathCounter : Int]],
         \A n \in DOMAIN markers : /\ markers'[n].tObj = markers[n].tObj
                                   /\ markers[n].tObj = NoObject => markers'[n].deathCounter = 0,
         objects' = objects \/ (objects' \subseteq objects /\ SomebodyLeft'),
         RegistryIs', SomebodyLeft => SomebodyLeft',
         heap' = heap \/ SomebodyLeft' \/ VectorIsTooShort,
         ids' \in Seq(Nat), \A n \in DOMAIN ids' : ids'[n] < DictionarySize,
         pc' = "age" => i' \in 0 .. NumMarkers,
         pc' = "place" => i' \in Nat \ {0}
  PROVE  ObjectsOK'
<1>1. DOMAIN markers' = DOMAIN markers /\ DOMAIN markers = 0 .. VectorSize(dictionary) - 1
  BY DEF ObjectsOK, MarkersFollow
<1>2. VectorSize(dictionary)' = VectorSize(dictionary) /\ DictionarySize' = DictionarySize
      /\ VectorIsTooShort' = VectorIsTooShort /\ NumMarkers' = NumMarkers
  BY <1>1 DEF VectorSize, DictionarySize, VectorIsTooShort, NumMarkers
<1>3. ASSUME NEW n \in DOMAIN markers', markers'[n].tObj # NoObject, OldObject(markers[n])' = {}
      PROVE  SomebodyLeft'
  <2>1. OldObject(markers[n])' = {e \in objects' : e.sid = markers[n].tObj}
    BY <1>1 DEF OldObject
  <2>2. objects' = objects => OldObject(markers[n]) = {}
    BY <1>3, <2>1 DEF OldObject
  <2>3. OldObject(markers[n]) = {} => SomebodyLeft
    BY <1>1, <1>3 DEF ObjectsOK, MarkersFollow
  <2> QED
    BY <2>2, <2>3
<1>4. ASSUME NEW e \in objects' PROVE e.id \in DOMAIN markers' /\ markers'[e.id].tObj # NoObject
  BY <1>1 DEF ObjectsOK, MarkersFollow
<1>5. MarkersFollow'
  <2>1. dictionary' \in 0 .. 3
    BY DEF ObjectsOK, MarkersFollow
  <2>2. markers' \in [0 .. VectorSize(dictionary)' - 1 -> [tObj : Int, deathCounter : Int]]
    BY <1>1, <1>2
  <2>3. \A n \in DOMAIN markers' :
          IF markers'[n].tObj = NoObject THEN markers'[n].deathCounter = 0
                                         ELSE OldObject(markers[n])' = {} => SomebodyLeft'
    BY <1>1, <1>3
  <2>4. \A n \in DOMAIN ids' : ids'[n] < DictionarySize'
    BY <1>2
  <2> QED
    BY <1>2, <1>4, <2>1, <2>2, <2>3, <2>4 DEF MarkersFollow
<1>6. OneObjectPerMarker'
  BY DEF ObjectsOK, ObjectsSound, OneObjectPerMarker
<1>7. SpoiledByRemoval'
  BY <1>2 DEF ObjectsOK, ObjectsSound, SpoiledByRemoval
<1> QED
  BY <1>5, <1>6, <1>7 DEF ObjectsOK, ObjectsSound

LEMMA MarkersAreStill ==
  ASSUME ObjectsOK, markers' = markers
  PROVE  /\ markers' \in [DOMAIN markers -> [tObj : Int, deathCounter : Int]]
         /\ \A n \in DOMAIN markers : /\ markers'[n].tObj = markers[n].tObj
                                      /\ markers[n].tObj = NoObject => markers'[n].deathCounter = 0
  BY DEF ObjectsOK, MarkersFollow

LEMMA FinishLeads ==
  ASSUME Finish
  PROVE  pc' \in {"idle", "start"} /\ UNCHANGED <<dictionary, processors>>
  BY DEF Finish

LEMMA DetectKeepsObjects == ObjectsOK /\ DetectMarkers => ObjectsOK'
<1> SUFFICES ASSUME ObjectsOK, DetectMarkers PROVE ObjectsOK'
  OBVIOUS
<1>1. UNCHANGED <<mvars, markers, heap>> /\ Finish
  BY DEF DetectMarkers
<1>2. Still /\ objects' = objects
  BY <1>1, StillSteps DEF Still
<1>3. pc' \in {"idle", "start"} /\ dictionary' = dictionary
  BY <1>1, FinishLeads
<1>4. ids' \in Seq(Nat) /\ \A n \in DOMAIN ids' : ids'[n] < DictionarySize
  BY RegionsAssumption DEF DetectMarkers
<1>5. RegistryIs' /\ (SomebodyLeft => SomebodyLeft')
  BY <1>2, StillKeeps DEF ObjectsOK
<1> QED
  BY <1>1, <1>2, <1>3, <1>4, <1>5, MarkersStay, MarkersAreStill

LEMMA IdsAreStill ==
  ASSUME ObjectsOK, ids' = ids
  PROVE  ids' \in Seq(Nat) /\ \A n \in DOMAIN ids' : ids'[n] < DictionarySize
  BY DEF ObjectsOK, MarkersFollow

LEMMA StartKeepsObjects == ObjectsOK /\ StartMarkers => ObjectsOK'
<1> SUFFICES ASSUME ObjectsOK, StartMarkers PROVE ObjectsOK'
  OBVIOUS
<1>1. UNCHANGED <<mvars, markers, ids, heap, dictionary>> /\ pc' = "age" /\ i' = 0
  BY DEF StartMarkers, Goto, shared
<1>2. Still /\ objects' = objects
  BY <1>1, StillSteps DEF Still
<1>3. RegistryIs' /\ (SomebodyLeft => SomebodyLeft')
  BY <1>2, StillKeeps DEF ObjectsOK
<1>4. 0 \in 0 .. NumMarkers
  BY DEF NumMarkers
<1> QED
  BY <1>1, <1>2, <1>3, <1>4, MarkersStay, MarkersAreStill, IdsAreStill

LEMMA AgeKeepsObjects == ObjectsOK /\ AgeMarker => ObjectsOK'
<1> SUFFICES ASSUME ObjectsOK, AgeMarker PROVE ObjectsOK'
  OBVIOUS
<1>1. ids' = ids /\ pc = "age" /\ i \in 0 .. NumMarkers
  BY DEF AgeMarker, Running, ObjectsOK, MarkersFollow
<1>2. CASE AllCounted(i)
  <2>1. pc' = "place" /\ i' = 1 /\ UNCHANGED <<mvars, markers, heap, dictionary>>
    BY <1>2 DEF AgeMarker, Goto
  <2>2. Still /\ objects' = objects
    BY <2>1, StillSteps DEF Still
  <2>3. RegistryIs' /\ (SomebodyLeft => SomebodyLeft')
    BY <2>2, StillKeeps DEF ObjectsOK
  <2> QED
    BY <1>1, <2>1, <2>2, <2>3, MarkersStay, MarkersAreStill, IdsAreStill
<1>3. CASE ~AllCounted(i)
  <2>1. pc' = "age" /\ i' = i + 1 /\ dictionary' = dictionary
    BY <1>3 DEF AgeMarker, Goto
  <2>2. i < NumMarkers /\ i \in Nat /\ i' \in 0 .. NumMarkers
    BY <1>1, <1>3, <2>1 DEF AllCounted, NumMarkers
  <2>3. CASE i \notin DOMAIN markers
    <3>1. UNCHANGED <<mvars, markers>>
      BY <1>3, <2>3 DEF AgeMarker, Beyond
    <3>2. Still /\ objects' = objects
      BY <3>1, StillSteps DEF Still
    <3>3. RegistryIs' /\ (SomebodyLeft => SomebodyLeft')
      BY <3>2, StillKeeps DEF ObjectsOK
    <3>4. VectorIsTooShort
      BY <2>2, <2>3, BeyondIsTooShort DEF ObjectsOK
    <3> QED
      BY <1>1, <2>1, <2>2, <3>1, <3>2, <3>3, <3>4, MarkersStay, MarkersAreStill, IdsAreStill
  <2>4. CASE i \in DOMAIN markers
    <3> DEFINE m == markers[i]
               placed == m.tObj # NoObject
               age == IF placed THEN m.deathCounter + 1 ELSE m.deathCounter
    <3>1. /\ markers \in [DOMAIN markers -> [tObj : Int, deathCounter : Int]]
          /\ m.tObj = NoObject => m.deathCounter = 0
          /\ m.tObj # NoObject /\ OldObject(m) = {} => SomebodyLeft
      BY <2>4 DEF ObjectsOK, MarkersFollow
    <3>2. Limit \in Nat
      BY SkippableFramesAssumption DEF Limit
    <3>3. CASE age > Limit
      <4>1. Expire(i)
        BY <1>3, <2>4, <3>3 DEF AgeMarker, Overdue
      <4>2. m.tObj # NoObject
        BY <3>1, <3>2, <3>3
      <4>3. /\ markers' \in [DOMAIN markers -> [tObj : Int, deathCounter : Int]]
            /\ \A n \in DOMAIN markers :
                 /\ markers'[n].tObj = markers[n].tObj
                 /\ markers[n].tObj = NoObject => markers'[n].deathCounter = 0
        <5>1. markers' = [markers EXCEPT ![i].deathCounter = 0]
          BY <4>1 DEF Expire
        <5>2. \A n \in DOMAIN markers : markers[n].tObj = NoObject => markers[n].deathCounter = 0
          BY DEF ObjectsOK, MarkersFollow
        <5> QED
          BY <2>4, <3>1, <5>1, <5>2
      <4>4. CASE OldObject(m) = {}
        <5>1. UNCHANGED <<objects, cursors, sessionID>>
          BY <4>1, <4>4 DEF Expire
        <5>2. RegistryIs' /\ (SomebodyLeft => SomebodyLeft')
          BY <5>1, StillKeeps DEF ObjectsOK, Still
        <5>3. SomebodyLeft'
          BY <3>1, <4>2, <4>4, <5>2
        <5> QED
          BY <1>1, <2>1, <2>2, <4>3, <5>1, <5>2, <5>3, MarkersStay, IdsAreStill
      <4>5. CASE OldObject(m) # {}
        <5>1. PICK e \in OldObject(m) : Take("object", e) /\ heap' = heap
          BY <4>1, <4>5 DEF Expire
        <5>2. e \in objects
          BY DEF OldObject
        <5>3. RegistryIs' /\ SomebodyLeft' /\ objects' = objects \ {e}
          BY <5>1, <5>2, ObjectTaken DEF ObjectsOK
        <5> QED
          BY <1>1, <2>1, <2>2, <4>3, <5>1, <5>3, MarkersStay, IdsAreStill
      <4> QED
        BY <4>4, <4>5
    <3>4. CASE ~(age > Limit)
      <4>1. markers' = [markers EXCEPT ![i].deathCounter = age] /\ UNCHANGED <<mvars, heap>>
        BY <1>3, <2>4, <3>4 DEF AgeMarker, Overdue
      <4>2. Still /\ objects' = objects
        BY <4>1, StillSteps DEF Still
      <4>3. RegistryIs' /\ (SomebodyLeft => SomebodyLeft')
        BY <4>2, StillKeeps DEF ObjectsOK
      <4>4. /\ markers' \in [DOMAIN markers -> [tObj : Int, deathCounter : Int]]
            /\ \A n \in DOMAIN markers :
                 /\ markers'[n].tObj = markers[n].tObj
                 /\ markers[n].tObj = NoObject => markers'[n].deathCounter = 0
        <5>1. \A n \in DOMAIN markers : markers[n].tObj = NoObject => markers[n].deathCounter = 0
          BY DEF ObjectsOK, MarkersFollow
        <5>2. age \in Int /\ (m.tObj = NoObject => age = 0)
          BY <2>4, <3>1
        <5> HIDE DEF age
        <5> QED
          BY <2>4, <3>1, <4>1, <5>1, <5>2
      <4> QED
        BY <1>1, <2>1, <2>2, <4>1, <4>2, <4>3, <4>4, MarkersStay, IdsAreStill
    <3> QED
      BY <3>3, <3>4
  <2> QED
    BY <2>3, <2>4
<1> QED
  BY <1>2, <1>3

(* A marker is added once. *)
LEMMA AddKeepsObjects ==
  ASSUME ObjectsOK, NEW n \in DOMAIN markers, markers[n].tObj = NoObject, AddObject(n),
         markers' = [markers EXCEPT ![n].tObj = sessionID + 1],
         UNCHANGED <<heap, ids, dictionary>>,
         pc' = "place", i' \in Nat \ {0}
  PROVE  ObjectsOK'
<1> DEFINE e == [sid |-> sessionID + 1, id |-> n]
<1>1. /\ RegistryIs' /\ objects' = objects \cup {e}
      /\ SomebodyLeft => SomebodyLeft'
  BY ObjectAdded DEF ObjectsOK
<1>2. sessionID + 1 \in Int /\ sessionID + 1 # NoObject
  BY DEF ObjectsOK, RegistryIs, NoObject
<1>3. /\ markers \in [0 .. VectorSize(dictionary) - 1 -> [tObj : Int, deathCounter : Int]]
      /\ DOMAIN markers = 0 .. VectorSize(dictionary) - 1
  BY DEF ObjectsOK, MarkersFollow
<1>4. /\ markers' \in [0 .. VectorSize(dictionary) - 1 -> [tObj : Int, deathCounter : Int]]
      /\ markers'[n].tObj = sessionID + 1
      /\ \A x \in DOMAIN markers : x # n => markers'[x] = markers[x]
      /\ DOMAIN markers' = DOMAIN markers
  BY <1>2, <1>3
<1>5. e.id = n /\ e.sid = sessionID + 1
  OBVIOUS
<1> HIDE DEF e
<1>6. \A f \in objects : f.id \in DOMAIN markers /\ markers[f.id].tObj # NoObject /\ f.id # n
  BY DEF ObjectsOK, MarkersFollow
<1>7. OneObjectPerMarker'
  <2>1. \A f, g \in objects : f.id = g.id => f = g
    BY DEF ObjectsOK, ObjectsSound, OneObjectPerMarker
  <2> QED
    BY <1>1, <1>5, <1>6, <2>1 DEF OneObjectPerMarker
<1>8. /\ VectorIsTooShort' = VectorIsTooShort /\ DictionarySize' = DictionarySize
      /\ VectorSize(dictionary)' = VectorSize(dictionary)
  BY <1>4 DEF VectorIsTooShort, DictionarySize, NumMarkers, VectorSize
<1>9. SpoiledByRemoval'
  BY <1>1, <1>8 DEF ObjectsOK, ObjectsSound, SpoiledByRemoval
<1>10. \A x \in DOMAIN markers' :
         IF markers'[x].tObj = NoObject THEN markers'[x].deathCounter = 0
                                        ELSE OldObject(markers[x])' = {} => SomebodyLeft'
  <2> SUFFICES ASSUME NEW x \in DOMAIN markers'
               PROVE  IF markers'[x].tObj = NoObject THEN markers'[x].deathCounter = 0
                                                     ELSE OldObject(markers[x])' = {} => SomebodyLeft'
    OBVIOUS
  <2>1. OldObject(markers[x])' = {f \in objects' : f.sid = markers'[x].tObj}
    BY DEF OldObject
  <2>2. CASE x = n
    <3>1. e \in OldObject(markers[x])'
      BY <1>1, <1>4, <1>5, <2>1, <2>2
    <3> QED
      BY <1>2, <1>4, <2>2, <3>1
  <2>3. CASE x # n
    <3>1. markers'[x] = markers[x] /\ x \in DOMAIN markers
      BY <1>4, <2>3
    <3>2. OldObject(markers[x])' = {} => OldObject(markers[x]) = {}
      BY <1>1, <2>1, <3>1 DEF OldObject
    <3> QED
      BY <1>1, <3>1, <3>2 DEF ObjectsOK, MarkersFollow
  <2> QED
    BY <2>2, <2>3
<1>11. MarkersFollow'
  <2>1. \A f \in objects' : f.id \in DOMAIN markers' /\ markers'[f.id].tObj # NoObject
    BY <1>1, <1>2, <1>4, <1>5, <1>6
  <2>2. dictionary' \in 0 .. 3 /\ ids' \in Seq(Nat)
    BY DEF ObjectsOK, MarkersFollow
  <2>3. \A x \in DOMAIN ids' : ids'[x] < DictionarySize'
    BY <1>8 DEF ObjectsOK, MarkersFollow
  <2>4. markers' \in [0 .. VectorSize(dictionary)' - 1 -> [tObj : Int, deathCounter : Int]]
    BY <1>4, <1>8
  <2> QED
    BY <1>10, <2>1, <2>2, <2>3, <2>4 DEF MarkersFollow
<1> QED
  BY <1>1, <1>7, <1>9, <1>11 DEF ObjectsOK, ObjectsSound

LEMMA PlaceKeepsObjects == ObjectsOK /\ PlaceMarkers => ObjectsOK'
<1> SUFFICES ASSUME ObjectsOK, PlaceMarkers PROVE ObjectsOK'
  OBVIOUS
<1>1. ids' = ids /\ pc = "place" /\ i \in Nat \ {0}
  BY DEF PlaceMarkers, Running, ObjectsOK, MarkersFollow
<1>2. CASE i > Len(ids)
  <2>1. Finish /\ UNCHANGED <<mvars, markers, heap>>
    BY <1>2 DEF PlaceMarkers
  <2>2. Still /\ objects' = objects
    BY <2>1, StillSteps DEF Still
  <2>3. RegistryIs' /\ (SomebodyLeft => SomebodyLeft')
    BY <2>2, StillKeeps DEF ObjectsOK
  <2> QED
    BY <1>1, <2>1, <2>2, <2>3, FinishLeads, MarkersStay, MarkersAreStill, IdsAreStill
<1>3. CASE ~(i > Len(ids))
  <2>1. pc' = "place" /\ i' = i + 1 /\ dictionary' = dictionary /\ i' \in Nat \ {0}
    BY <1>1, <1>3 DEF PlaceMarkers, Goto
  <2>2. PICK n : n = ids[i]
    OBVIOUS
  <2>3. n \in Nat /\ n < DictionarySize
    BY <1>1, <1>3, <2>2 DEF ObjectsOK, MarkersFollow
  <2>4. CASE n \notin DOMAIN markers
    <3>1. UNCHANGED <<mvars, markers>>
      BY <1>3, <2>2, <2>4 DEF PlaceMarkers, Beyond
    <3>2. Still /\ objects' = objects
      BY <3>1, StillSteps DEF Still
    <3>3. RegistryIs' /\ (SomebodyLeft => SomebodyLeft')
      BY <3>2, StillKeeps DEF ObjectsOK
    <3>4. VectorIsTooShort
      BY <2>3, <2>4, BeyondIsTooShort DEF ObjectsOK
    <3> QED
      BY <1>1, <2>1, <3>1, <3>2, <3>3, <3>4, MarkersStay, MarkersAreStill, IdsAreStill
  <2>5. CASE n \in DOMAIN markers
    <3>1. PlaceMarker(n)
      BY <1>3, <2>2, <2>5 DEF PlaceMarkers
    <3>2. CASE markers[n].tObj = NoObject
      <4>1. /\ AddObject(n) /\ heap' = heap
            /\ markers' = [markers EXCEPT ![n].tObj = sessionID + 1]
        BY <3>1, <3>2 DEF PlaceMarker
      <4> QED
        BY <1>1, <2>1, <2>5, <3>2, <4>1, AddKeepsObjects
    <3>3. CASE markers[n].tObj # NoObject
      <4>1. /\ markers' = markers
            /\ \/ UNCHANGED <<mvars, heap>>
               \/ OldObject(markers[n]) = {} /\ UNCHANGED mvars
               \/ \E e \in OldObject(markers[n]) : Update("object", e) /\ UNCHANGED heap
        BY <3>1, <3>3 DEF PlaceMarker
      <4>2. Still /\ objects' = objects
        BY <4>1, StillSteps DEF Still
      <4>3. RegistryIs' /\ (SomebodyLeft => SomebodyLeft')
        BY <4>2, StillKeeps DEF ObjectsOK
      <4>4. OldObject(markers[n]) = {} => SomebodyLeft
        BY <2>5, <3>3 DEF ObjectsOK, MarkersFollow
      <4>5. heap' = heap \/ SomebodyLeft'
        BY <4>1, <4>3, <4>4
      <4> QED
        BY <1>1, <2>1, <4>1, <4>2, <4>3, <4>5, MarkersStay, MarkersAreStill, IdsAreStill
    <3> QED
      BY <3>2, <3>3
  <2> QED
    BY <2>4, <2>5
<1> QED
  BY <1>2, <1>3

(* The processors for fingers, and a new picture. *)
LEMMA StillKeepsObjects ==
  ASSUME ObjectsOK, Still, UNCHANGED <<markers, ids, dictionary, heap>>,
         pc' \notin {"age", "place"}
  PROVE  ObjectsOK'
<1>1. RegistryIs' /\ (SomebodyLeft => SomebodyLeft') /\ objects' = objects
  BY StillKeeps DEF ObjectsOK, Still
<1> QED
  BY <1>1, OthersKeepObjects

LEMMA ObjectsNext == ObjectsOK /\ [TNext]_tvars => ObjectsOK'
<1> SUFFICES ASSUME ObjectsOK, [TNext]_tvars PROVE ObjectsOK'
  OBVIOUS
<1> USE DEF shared, control, history, Goto, Die, Running
<1>1. CASE UNCHANGED tvars
  <2>1. UNCHANGED <<mvars, markers, ids, dictionary, heap, pc, i>>
    BY <1>1 DEF tvars
  <2>2. Still /\ objects' = objects
    BY <2>1, StillSteps DEF Still
  <2>3. RegistryIs' /\ (SomebodyLeft => SomebodyLeft')
    BY <2>2, StillKeeps DEF ObjectsOK
  <2>4. (pc' = "age" => i' \in 0 .. NumMarkers) /\ (pc' = "place" => i' \in Nat \ {0})
    BY <2>1 DEF ObjectsOK, MarkersFollow
  <2> QED
    BY <2>1, <2>2, <2>3, <2>4, MarkersStay, MarkersAreStill, IdsAreStill
<1>2. CASE NewFrame
  BY <1>2, StillSteps, StillKeepsObjects DEF NewFrame
<1>3. CASE Crash
  BY <1>3, StillSteps, StillKeepsObjects DEF Crash
<1>4. CASE DetectMarkers
  BY <1>4, DetectKeepsObjects
<1>5. CASE StartMarkers
  BY <1>5, StartKeepsObjects
<1>6. CASE AgeMarker
  BY <1>6, AgeKeepsObjects
<1>7. CASE PlaceMarkers
  BY <1>7, PlaceKeepsObjects
<1>8. CASE StartContours
  <2>1. pc' \notin {"age", "place"} /\ UNCHANGED <<mvars, markers, ids, dictionary, heap>>
    BY <1>8 DEF StartContours
  <2> QED
    BY <2>1, StillSteps, StillKeepsObjects
<1>9. CASE SearchPicture
  BY <1>9, FinishLeads, StillSteps, StillKeepsObjects DEF SearchPicture
<1>10. CASE SearchRegion
  <2>1. UNCHANGED <<mvars, markers, ids, heap>> /\ pc = "search"
    BY <1>10 DEF SearchRegion
  <2>2. Finish \/ Die \/ UNCHANGED <<dictionary, pc>>
    BY <1>10 DEF SearchRegion
  <2>3. pc' \notin {"age", "place"} /\ dictionary' = dictionary
    BY <2>1, <2>2, FinishLeads
  <2> QED
    BY <2>1, <2>3, StillSteps, StillKeepsObjects
<1>11. CASE EndContours
  BY <1>11, FinishLeads, StillSteps, StillKeepsObjects DEF EndContours
<1>12. CASE StartTouches
  BY <1>12, StillSteps, StillKeepsObjects DEF StartTouches
<1>13. CASE NextKey
  <2>1. UNCHANGED <<mvars, markers, ids, heap, dictionary>> /\ pc' \notin {"age", "place"}
    BY <1>13 DEF NextKey
  <2> QED
    BY <2>1, StillSteps, StillKeepsObjects
<1>14. CASE MatchTouch
  <2>1. UNCHANGED <<markers, ids, heap, dictionary>> /\ pc' \notin {"age", "place"}
    BY <1>14 DEF MatchTouch
  <2>2. UNCHANGED mvars \/ \E e : Update("cursor", e)
    BY <1>14 DEF MatchTouch
  <2> QED
    BY <2>1, <2>2, StillSteps, StillKeepsObjects
<1>15. CASE PassTouch
  <2>1. UNCHANGED <<markers, ids, dictionary>> /\ pc' \notin {"age", "place"}
    BY <1>15 DEF PassTouch
  <2>2. CASE Expires(Here[i])
    <3>1. PICK e \in CursorOf(Here[i]) : Take("cursor", e)
      BY <1>15, <2>2 DEF PassTouch
    <3>2. e \in cursors.live
      BY DEF CursorOf
    <3>3. RegistryIs' /\ SomebodyLeft' /\ objects' = objects
      BY <3>1, <3>2, CursorTaken DEF ObjectsOK
    <3> QED
      BY <2>1, <3>3, OthersKeepObjects
  <2>3. CASE ~Expires(Here[i])
    <3>1. UNCHANGED <<mvars, heap>>
      BY <1>15, <2>3 DEF PassTouch
    <3> QED
      BY <2>1, <3>1, StillSteps, StillKeepsObjects
  <2> QED
    BY <2>2, <2>3
<1>16. CASE EndCull
  BY <1>16, StillSteps, StillKeepsObjects DEF EndCull
<1>17. CASE AddPotential
  <2>1. UNCHANGED <<markers, ids, dictionary, heap>> /\ pc' \notin {"age", "place"}
    BY <1>17 DEF AddPotential
  <2>2. CASE UNCHANGED mvars
    BY <2>1, <2>2, StillSteps, StillKeepsObjects
  <2>3. CASE AddCursor
    <3>1. RegistryIs' /\ (SomebodyLeft => SomebodyLeft') /\ objects' = objects
      BY <2>3, CursorAdded DEF ObjectsOK
    <3> QED
      BY <2>1, <3>1, OthersKeepObjects
  <2> QED
    BY <1>17, <2>2, <2>3 DEF AddPotential
<1>18. CASE EndTouches
  BY <1>18, FinishLeads, StillSteps, StillKeepsObjects DEF EndTouches
<1> QED
  BY <1>1, <1>2, <1>3, <1>4, <1>5, <1>6, <1>7, <1>8, <1>9, <1>10, <1>11, <1>12, <1>13, <1>14,
     <1>15, <1>16, <1>17, <1>18 DEF TNext

-----------------------------------------------------------------------------
(* The life of a marker *)

LEMMA LimitFacts == /\ Limit \in Nat /\ Limit >= 1 /\ TwoLives \in Nat
                    /\ TwoLives = 2 * Limit + 2 /\ Unplaced = -1 /\ NoObject = -1
  BY SkippableFramesAssumption DEF Limit, TwoLives, Unplaced, NoObject

LEMMA LivesInit == TInit => LivesOK
<1> SUFFICES ASSUME TInit PROVE LivesOK
  OBVIOUS
<1>1. /\ objects = {} /\ sessionID = -1
      /\ lived = [n \in DOMAIN markers |-> Unplaced]
      /\ \A n \in DOMAIN markers : markers[n].tObj = NoObject
  BY DEF TInit, MInit
<1>2. \A n \in DOMAIN markers : Life(n)
  BY <1>1, LimitFacts DEF Life
<1> QED
  BY <1>1, <1>2, LimitFacts DEF LivesOK, Pointers

(* What neither counts nor places.                                         *)
LEMMA LivesStay ==
  ASSUME ObjectsOK, LivesOK, UNCHANGED <<markers, lived, objects>>,
         sessionID' \in {sessionID, sessionID + 1}, heap' \in {heap, "spoiled"}
  PROVE  LivesOK'
<1>1. \A n \in DOMAIN markers : Life(n)'
  <2> SUFFICES ASSUME NEW n \in DOMAIN markers PROVE Life(n)'
    OBVIOUS
  <2>1. Life(n) /\ OldObject(markers[n])' = OldObject(markers[n])
    BY DEF LivesOK, OldObject
  <2> QED
    BY <2>1 DEF Life, TwoLives, Limit
<1>2. \A n \in DOMAIN markers : markers[n].tObj <= sessionID'
  <2>1. sessionID \in Int /\ \A n \in DOMAIN markers : markers[n].tObj \in Int
    BY DEF ObjectsOK, RegistryIs, MarkersFollow
  <2>2. \A n \in DOMAIN markers : markers[n].tObj <= sessionID
    BY DEF LivesOK, Pointers
  <2> QED
    BY <2>1, <2>2
<1> QED
  BY <1>1, <1>2 DEF LivesOK, Pointers

(* Who points to an object is its marker. *)
LEMMA OneOldObject ==
  ASSUME Pointers, NEW n \in DOMAIN markers, markers[n].tObj # NoObject
  PROVE  OldObject(markers[n]) \subseteq {[sid |-> markers[n].tObj, id |-> n]}
<1> SUFFICES ASSUME NEW e \in OldObject(markers[n])
             PROVE  e = [sid |-> markers[n].tObj, id |-> n]
  OBVIOUS
<1>1. e \in objects /\ e.sid = markers[n].tObj
  BY DEF OldObject
<1>2. e.id \in DOMAIN markers /\ e = [sid |-> markers[e.id].tObj, id |-> e.id]
  BY <1>1 DEF Pointers
<1>3. markers[e.id].tObj = markers[n].tObj
  BY <1>1, <1>2
<1>4. e.id = n
  BY <1>2, <1>3 DEF Pointers
<1> QED
  BY <1>2, <1>4

(* Counting on one marker disturbs no other. *)
LEMMA OnlyOneAges ==
  ASSUME ObjectsOK, LivesOK, NEW n \in DOMAIN markers, markers[n].tObj # NoObject,
         NEW d \in Int, markers' = [markers EXCEPT ![n].deathCounter = d],
         NEW l \in Int, lived' = [lived EXCEPT ![n] = l],
         objects' \subseteq objects, \A e \in objects \ objects' : e.sid = markers[n].tObj,
         sessionID' = sessionID, heap' \in {heap, "spoiled"},
         Life(n)'
  PROVE  LivesOK'
<1>1. /\ DOMAIN markers' = DOMAIN markers
      /\ \A x \in DOMAIN markers : /\ markers'[x].tObj = markers[x].tObj
                                  /\ x # n => markers'[x] = markers[x]
  BY DEF ObjectsOK, MarkersFollow
<1>2. lived' \in [DOMAIN markers' -> Int] /\ \A x \in DOMAIN markers : x # n => lived'[x] = lived[x]
  BY <1>1 DEF LivesOK
<1>3. ASSUME NEW x \in DOMAIN markers, x # n PROVE Life(x)'
  <2>1. Life(x) /\ markers'[x] = markers[x] /\ lived'[x] = lived[x]
    BY <1>1, <1>2, <1>3 DEF LivesOK
  <2>2. OldObject(markers[x]) = {} => OldObject(markers[x])' = {}
    BY <2>1 DEF OldObject
  <2>3. lived[x] \in 0 .. Limit => [sid |-> markers[x].tObj, id |-> x] \in objects'
    <3> SUFFICES ASSUME lived[x] \in 0 .. Limit PROVE [sid |-> markers[x].tObj, id |-> x] \in objects'
      OBVIOUS
    <3>1. [sid |-> markers[x].tObj, id |-> x] \in objects /\ markers[x].tObj # NoObject
      BY <2>1, LimitFacts DEF Life
    <3>2. markers[x].tObj # markers[n].tObj
      BY <1>3, <3>1 DEF LivesOK, Pointers
    <3> QED
      BY <3>1, <3>2
  <2>4. Limit' = Limit /\ TwoLives' = TwoLives
    BY DEF Limit, TwoLives
  <2> QED
    BY <2>1, <2>2, <2>3, <2>4 DEF Life
<1>4. Pointers'
  BY <1>1 DEF LivesOK, Pointers
<1> QED
  BY <1>1, <1>2, <1>3, <1>4 DEF LivesOK

LEMMA AgeKeepsLives == ObjectsOK /\ LivesOK /\ AgeMarker => LivesOK'
<1> SUFFICES ASSUME ObjectsOK, LivesOK, AgeMarker PROVE LivesOK'
  OBVIOUS
<1>1. CASE AllCounted(i) \/ i \notin DOMAIN markers
  <2>1. UNCHANGED <<objects, sessionID, markers, lived>> /\ heap' \in {heap, "spoiled"}
    BY <1>1 DEF AgeMarker, Beyond, mvars
  <2> QED
    BY <2>1, LivesStay
<1>2. CASE ~AllCounted(i) /\ i \in DOMAIN markers /\ markers[i].tObj = NoObject
  <2>1. markers[i].deathCounter = 0 /\ ~Overdue(0)
    BY <1>2, LimitFacts DEF ObjectsOK, MarkersFollow, Overdue
  <2>2. markers' = [markers EXCEPT ![i].deathCounter = 0] /\ UNCHANGED <<mvars, heap, lived>>
    BY <1>2, <2>1 DEF AgeMarker
  <2>3. markers' = markers
    BY <1>2, <2>1, <2>2 DEF ObjectsOK, MarkersFollow
  <2> QED
    BY <2>2, <2>3, LivesStay DEF mvars
<1>3. CASE ~AllCounted(i) /\ i \in DOMAIN markers /\ markers[i].tObj # NoObject
  <2>1A. PICK n : n = i
    OBVIOUS
  <2>1B. n \in DOMAIN markers /\ markers[n].tObj # NoObject
    BY <1>3, <2>1A
  <2> DEFINE d == markers[n].deathCounter
             l == lived[n]
             e == [sid |-> markers[n].tObj, id |-> n]
  <2>1. /\ IF d + 1 > Limit THEN Expire(n)
           ELSE markers' = [markers EXCEPT ![n].deathCounter = d + 1] /\ UNCHANGED <<mvars, heap>>
        /\ lived' = [lived EXCEPT ![n] = Older(l)]
    BY <1>3, <2>1A DEF AgeMarker, Overdue
  <2>2. d \in Int /\ l \in Int /\ markers \in [DOMAIN markers -> [tObj : Int, deathCounter : Int]]
    BY <2>1B DEF ObjectsOK, MarkersFollow, LivesOK
  <2>3. Life(n) /\ l \in 0 .. TwoLives
    BY <2>1B, LimitFacts DEF LivesOK, Life
  <2>4. OldObject(markers[n]) \subseteq {e}
    BY <2>1B, OneOldObject DEF LivesOK
  <2>5. Limit' = Limit /\ TwoLives' = TwoLives
    BY DEF Limit, TwoLives
  <2>6. Older(l) \in Int /\ lived'[n] = Older(l)
    BY <2>1B, <2>1, <2>2 DEF Older, LivesOK
  <2>7. ASSUME ~(d + 1 > Limit) PROVE Life(n)'
    <3>1. /\ markers' = [markers EXCEPT ![n].deathCounter = d + 1]
          /\ UNCHANGED <<objects, sessionID, heap>>
      BY <2>1, <2>7 DEF mvars
    <3>2. markers'[n].tObj = markers[n].tObj /\ markers'[n].deathCounter = d + 1
      BY <2>1B, <2>2, <3>1
    <3>3. OldObject(markers[n])' = OldObject(markers[n])
      BY <3>1, <3>2 DEF OldObject
    <3>4. CASE l \in 0 .. Limit
      <4>1. d = l /\ e \in objects /\ Older(l) = l + 1 /\ l + 1 \in 0 .. Limit
        BY <2>2, <2>3, <2>7, <3>4, LimitFacts DEF Life, Older
      <4> QED
        BY <2>1B, <2>5, <2>6, <3>1, <3>2, <4>1, LimitFacts DEF Life
    <3>5. CASE l > Limit /\ l < TwoLives
      <4>1. d = l - Limit - 1 /\ OldObject(markers[n]) = {} /\ Older(l) = l + 1 /\ l + 1 < TwoLives
        BY <2>2, <2>3, <2>7, <3>5, LimitFacts DEF Life, Older
      <4> QED
        BY <2>1B, <2>2, <2>5, <2>6, <3>2, <3>3, <3>5, <4>1, LimitFacts DEF Life
    <3>6. CASE l = TwoLives
      <4>1. OldObject(markers[n]) = {} /\ Older(l) = TwoLives /\ heap = "spoiled"
        BY <2>2, <2>3, <3>6, LimitFacts DEF Life, Older
      <4> QED
        BY <2>1B, <2>5, <2>6, <3>1, <3>2, <3>3, <4>1, LimitFacts DEF Life
    <3> QED
      BY <2>2, <2>3, <3>4, <3>5, <3>6, LimitFacts
  <2>8. ASSUME d + 1 > Limit PROVE Life(n)'
    <3>1. Expire(n) /\ markers' = [markers EXCEPT ![n].deathCounter = 0]
      BY <2>1, <2>8 DEF Expire
    <3>2. markers'[n].tObj = markers[n].tObj /\ markers'[n].deathCounter = 0
      BY <2>1B, <2>2, <3>1
    <3>3. CASE OldObject(markers[n]) = {}
      <4>1. UNCHANGED <<objects, sessionID>> /\ heap' = "spoiled"
        BY <3>1, <3>3 DEF Expire
      <4>2. OldObject(markers[n])' = {}
        BY <3>2, <3>3, <4>1 DEF OldObject
      <4>3. l > Limit
        <5>1. e.sid = markers[n].tObj
          OBVIOUS
        <5>2. e \notin objects
          BY <3>3, <5>1 DEF OldObject
        <5> QED
          BY <2>2, <2>3, <5>2, LimitFacts DEF Life
      <4>4. Older(l) = TwoLives
        BY <2>2, <2>3, <2>8, <4>3, LimitFacts DEF Life, Older
      <4> QED
        BY <2>1B, <2>5, <2>6, <3>2, <4>1, <4>2, <4>4, LimitFacts DEF Life
    <3>4. CASE OldObject(markers[n]) # {}
      <4>1. PICK f \in OldObject(markers[n]) : Take("object", f) /\ heap' = heap
        BY <3>1, <3>4 DEF Expire
      <4>2. f \in objects /\ f.sid = markers[n].tObj
        BY DEF OldObject
      <4>3. objects' = objects \ {f} /\ sessionID' = sessionID
        BY <4>1, <4>2, ObjectTaken DEF ObjectsOK
      <4>4. OldObject(markers[n])' = {}
        <5>1. \A g \in objects : g.sid = markers[n].tObj => g = e
          BY <2>4 DEF OldObject
        <5>2. f = e
          BY <4>2, <5>1
        <5> QED
          BY <3>2, <4>3, <5>1, <5>2 DEF OldObject
      <4>5. l \in 0 .. Limit
        BY <2>2, <2>3, <3>4, LimitFacts DEF Life
      <4>6. l = Limit /\ Older(l) = Limit + 1 /\ Limit + 1 < TwoLives
        BY <2>2, <2>3, <2>8, <4>5, LimitFacts DEF Life, Older
      <4> QED
        BY <2>1B, <2>5, <2>6, <3>2, <4>4, <4>6, LimitFacts DEF Life
    <3> QED
      BY <3>3, <3>4
  <2>9. \E c \in Int : markers' = [markers EXCEPT ![n].deathCounter = c]
    <3>1. d + 1 \in Int /\ 0 \in Int
      BY <2>2
    <3> QED
      BY <2>1, <3>1 DEF Expire
  <2>10. /\ objects' \subseteq objects /\ \A f \in objects \ objects' : f.sid = markers[n].tObj
         /\ sessionID' = sessionID /\ heap' \in {heap, "spoiled"}
    <3>1. CASE UNCHANGED <<mvars, heap>>
      BY <3>1 DEF mvars
    <3>2. CASE Expire(n)
      <4>1. CASE OldObject(markers[n]) = {}
        BY <3>2, <4>1 DEF Expire
      <4>2. CASE OldObject(markers[n]) # {}
        <5>1. PICK f \in OldObject(markers[n]) : Take("object", f) /\ heap' = heap
          BY <3>2, <4>2 DEF Expire
        <5>2. f \in objects /\ f.sid = markers[n].tObj
          BY DEF OldObject
        <5>3. objects' = objects \ {f} /\ sessionID' = sessionID
          BY <5>1, <5>2, ObjectTaken DEF ObjectsOK
        <5> QED
          BY <5>1, <5>2, <5>3
      <4> QED
        BY <4>1, <4>2
    <3> QED
      BY <2>1, <3>1, <3>2
  <2>11. Life(n)'
    BY <2>7, <2>8
  <2> HIDE DEF d, l, e
  <2> QED
    BY <2>1, <2>1B, <2>6, <2>9, <2>10, <2>11, OnlyOneAges
<1> QED
  BY <1>1, <1>2, <1>3

(* The object that is added is one nobody points to. *)
LEMMA PlaceKeepsLives == ObjectsOK /\ LivesOK /\ PlaceMarkers => LivesOK'
<1> SUFFICES ASSUME ObjectsOK, LivesOK, PlaceMarkers PROVE LivesOK'
  OBVIOUS
<1>1. CASE i > Len(ids) \/ ids[i] \notin DOMAIN markers
  <2>1. UNCHANGED <<objects, sessionID, markers, lived>> /\ heap' \in {heap, "spoiled"}
    BY <1>1 DEF PlaceMarkers, Beyond, mvars
  <2> QED
    BY <2>1, LivesStay
<1>2. CASE ~(i > Len(ids)) /\ ids[i] \in DOMAIN markers
  <2>1. PICK n \in DOMAIN markers : PlaceMarker(n)
    BY <1>2 DEF PlaceMarkers
  <2>2. CASE markers[n].tObj # NoObject
    <3>1. UNCHANGED <<objects, sessionID, markers, lived>> /\ heap' \in {heap, "spoiled"}
      BY <2>1, <2>2 DEF PlaceMarker, mvars, Update
    <3> QED
      BY <3>1, LivesStay
  <2>3. CASE markers[n].tObj = NoObject
    <3> DEFINE e == [sid |-> sessionID + 1, id |-> n]
    <3>1. /\ AddObject(n) /\ markers' = [markers EXCEPT ![n].tObj = sessionID + 1]
          /\ lived' = [lived EXCEPT ![n] = 0] /\ heap' = heap
      BY <2>1, <2>3 DEF PlaceMarker
    <3>2. objects' = objects \cup {e} /\ sessionID' = sessionID + 1
      BY <3>1, ObjectAdded DEF ObjectsOK
    <3>3. /\ sessionID \in Int /\ sessionID >= -1
          /\ markers \in [DOMAIN markers -> [tObj : Int, deathCounter : Int]]
          /\ markers[n].deathCounter = 0
          /\ \A x \in objects : x.id \in DOMAIN markers /\ markers[x.id].tObj # NoObject
      BY <2>3 DEF ObjectsOK, RegistryIs, MarkersFollow
    <3>4. /\ DOMAIN markers' = DOMAIN markers
          /\ markers'[n].tObj = sessionID + 1 /\ markers'[n].deathCounter = 0
          /\ \A x \in DOMAIN markers : x # n => markers'[x] = markers[x]
      BY <3>1, <3>3
    <3>5. /\ lived' \in [DOMAIN markers' -> Int] /\ lived'[n] = 0
          /\ \A x \in DOMAIN markers : x # n => lived'[x] = lived[x]
      BY <3>1, <3>4 DEF LivesOK
    <3>6. \A x \in DOMAIN markers : markers[x].tObj <= sessionID /\ markers[x].tObj \in Int
      BY <3>3 DEF LivesOK, Pointers
    <3>7. Limit' = Limit /\ TwoLives' = TwoLives
      BY DEF Limit, TwoLives
    <3>8. Life(n)'
      <4>1. [sid |-> markers'[n].tObj, id |-> n] \in objects'
        BY <3>2, <3>4
      <4>2. markers'[n].tObj # NoObject
        BY <3>3, <3>4, LimitFacts
      <4> QED
        BY <3>4, <3>5, <3>7, <4>1, <4>2, LimitFacts DEF Life
    <3>9. ASSUME NEW x \in DOMAIN markers, x # n PROVE Life(x)'
      <4>1. Life(x) /\ markers'[x] = markers[x] /\ lived'[x] = lived[x]
        BY <3>4, <3>5, <3>9 DEF LivesOK
      <4>2. e.sid # markers[x].tObj
        BY <3>3, <3>6
      <4>3. OldObject(markers[x])' = OldObject(markers[x])
        BY <3>2, <4>1, <4>2 DEF OldObject
      <4>4. /\ (lived[x] = Unplaced)' <=> (markers[x].tObj = NoObject)'
            /\ lived'[x] \in Unplaced .. TwoLives
            /\ lived'[x] \in 0 .. Limit => /\ markers'[x].deathCounter = lived'[x]
                                          /\ [sid |-> markers'[x].tObj, id |-> x] \in objects'
        BY <3>2, <4>1 DEF Life
      <4>5. lived'[x] > Limit =>
              /\ OldObject(markers[x])' = {}
              /\ lived'[x] < TwoLives => markers'[x].deathCounter = lived'[x] - Limit - 1
              /\ lived'[x] = TwoLives => heap' = "spoiled"
        BY <3>1, <4>1, <4>3 DEF Life
      <4> QED
        BY <3>7, <4>4, <4>5 DEF Life
    <3>10. Pointers'
      <4>1. \A x \in DOMAIN markers' : markers'[x].tObj <= sessionID'
        <5> SUFFICES ASSUME NEW x \in DOMAIN markers PROVE markers'[x].tObj <= sessionID'
          BY <3>4
        <5>1. CASE x = n
          BY <3>2, <3>3, <3>4, <5>1
        <5>2. CASE x # n
          BY <3>2, <3>3, <3>4, <3>6, <5>2
        <5> QED
          BY <5>1, <5>2
      <4>2. \A x, y \in DOMAIN markers' :
              markers'[x].tObj = markers'[y].tObj /\ markers'[x].tObj # NoObject => x = y
        <5>1. \A x, y \in DOMAIN markers :
                markers[x].tObj = markers[y].tObj /\ markers[x].tObj # NoObject => x = y
          BY DEF LivesOK, Pointers
        <5>2. \A x \in DOMAIN markers : markers[x].tObj # sessionID + 1
          BY <3>3, <3>6
        <5> QED
          BY <3>4, <5>1, <5>2
      <4>3. \A x \in objects' : /\ x.id \in DOMAIN markers'
                                /\ x = [sid |-> markers'[x.id].tObj, id |-> x.id]
        <5> SUFFICES ASSUME NEW x \in objects'
                     PROVE  /\ x.id \in DOMAIN markers'
                            /\ x = [sid |-> markers'[x.id].tObj, id |-> x.id]
          OBVIOUS
        <5>1. CASE x = e
          BY <3>4, <5>1
        <5>2. CASE x \in objects
          <6>1. /\ x.id \in DOMAIN markers /\ markers[x.id].tObj # NoObject
                /\ x = [sid |-> markers[x.id].tObj, id |-> x.id]
            BY <3>3, <5>2 DEF LivesOK, Pointers
          <6> QED
            BY <2>3, <3>4, <6>1
        <5> QED
          BY <3>2, <5>1, <5>2
      <4> QED
        BY <4>1, <4>2, <4>3 DEF Pointers
    <3> QED
      BY <3>4, <3>5, <3>8, <3>9, <3>10 DEF LivesOK
  <2> QED
    BY <2>2, <2>3
<1> QED
  BY <1>1, <1>2

LEMMA LivesNext == ObjectsOK /\ LivesOK /\ [TNext]_tvars => LivesOK'
<1> SUFFICES ASSUME ObjectsOK, LivesOK, [TNext]_tvars PROVE LivesOK'
  OBVIOUS
<1> USE DEF shared, history, mvars
<1>1. CASE AgeMarker
  BY <1>1, AgeKeepsLives
<1>2. CASE PlaceMarkers
  BY <1>2, PlaceKeepsLives
<1>3. CASE UNCHANGED tvars \/ Crash \/ DetectMarkers \/ StartMarkers \/ StartContours
  <2>1. UNCHANGED <<objects, sessionID, markers, lived, heap>>
    BY <1>3 DEF tvars, Crash, DetectMarkers, StartMarkers, StartContours
  <2> QED
    BY <2>1, LivesStay
<1>4. CASE NewFrame \/ SearchPicture \/ SearchRegion \/ EndContours
  <2>1. UNCHANGED <<objects, sessionID, markers, lived, heap>>
    BY <1>4 DEF NewFrame, InitFrame, SearchPicture, SearchRegion, EndContours
  <2> QED
    BY <2>1, LivesStay
<1>5. CASE StartTouches \/ NextKey \/ EndCull \/ EndTouches
  <2>1. UNCHANGED <<objects, sessionID, markers, lived, heap>>
    BY <1>5 DEF StartTouches, NextKey, EndCull, EndTouches
  <2> QED
    BY <2>1, LivesStay
<1>6. CASE MatchTouch
  <2>1. UNCHANGED <<markers, lived, heap>> /\ (UNCHANGED mvars \/ \E e : Update("cursor", e))
    BY <1>6 DEF MatchTouch
  <2>2. UNCHANGED <<objects, sessionID>>
    BY <2>1 DEF Update
  <2> QED
    BY <2>1, <2>2, LivesStay
<1>7. CASE PassTouch
  <2>1. UNCHANGED <<markers, lived>> /\ heap' \in {heap, "spoiled"}
    BY <1>7 DEF PassTouch
  <2>2. UNCHANGED mvars \/ \E e \in cursors.live : Take("cursor", e)
    BY <1>7 DEF PassTouch, CursorOf
  <2>3. UNCHANGED <<objects, sessionID>>
    BY <2>2, CursorTaken DEF ObjectsOK
  <2> QED
    BY <2>1, <2>3, LivesStay
<1>8. CASE AddPotential
  <2>1. UNCHANGED <<markers, lived, heap>> /\ (UNCHANGED mvars \/ AddCursor)
    BY <1>8 DEF AddPotential
  <2>2. objects' = objects /\ sessionID' \in {sessionID, sessionID + 1}
    BY <2>1, CursorAdded DEF ObjectsOK
  <2> QED
    BY <2>1, <2>2, LivesStay
<1> QED
  BY <1>1, <1>2, <1>3, <1>4, <1>5, <1>6, <1>7, <1>8 DEF TNext

LEMMA LivesAreOne == ObjectsOK /\ LivesOK => OneLife
<1> SUFFICES ASSUME ObjectsOK, LivesOK, NEW n \in DOMAIN markers
             PROVE  /\ OnTheTable(n) <=> lived[n] \in 0 .. Limit
                    /\ lived[n] = TwoLives => heap = "spoiled"
  BY DEF OneLife
<1>1. Life(n)
  BY DEF LivesOK
<1>2. ASSUME OnTheTable(n) PROVE lived[n] \in 0 .. Limit
  <2>1. PICK e \in objects : e.id = n
    BY <1>2 DEF OnTheTable
  <2>2. markers[n].tObj # NoObject /\ e = [sid |-> markers[n].tObj, id |-> n]
    BY <2>1 DEF ObjectsOK, MarkersFollow, LivesOK, Pointers
  <2>3. e \in OldObject(markers[n])
    BY <2>2 DEF OldObject
  <2> QED
    BY <1>1, <2>2, <2>3, LimitFacts DEF Life
<1>3. ASSUME lived[n] \in 0 .. Limit PROVE OnTheTable(n)
  <2>1. [sid |-> markers[n].tObj, id |-> n] \in objects
    BY <1>1, <1>3 DEF Life
  <2> QED
    BY <2>1 DEF OnTheTable
<1>4. lived[n] = TwoLives => heap = "spoiled"
  BY <1>1, LimitFacts DEF Life
<1> QED
  BY <1>2, <1>3, <1>4

(* A marker has one object at most, on the table for Limit pictures after  *)
(* the one it was placed in and never again; nothing that was freed is     *)
(* used before somebody left, and a marker that was counted twice as long  *)
(* has spoiled the heap: ArucoCompute.hpp:36-67.                           *)
THEOREM MarkersAreCounted == TSpec => []ObjectsAreCounted
<1>1. TInit => ObjectsOK /\ LivesOK
  BY ObjectsInit, LivesInit
<1>2. ObjectsOK /\ LivesOK /\ [TNext]_tvars => (ObjectsOK /\ LivesOK)'
  BY ObjectsNext, LivesNext
<1>3. ObjectsOK /\ LivesOK => ObjectsAreCounted
  BY LivesAreOne DEF ObjectsOK, ObjectsSound, ObjectsAreCounted
<1> QED
  BY <1>1, <1>2, <1>3, PTL DEF TSpec
-----------------------------------------------------------------------------
(* Touches and cursors *)

LEMMA KeysAre ==
  /\ Keys = {Global} \cup Named /\ Global \notin Named
  /\ RegionNames \in Seq(Named) /\ Distinct(RegionNames)
<1>1. /\ RegionNames \in Seq(STRING \ {Global})
      /\ \A m, n \in DOMAIN RegionNames : RegionNames[m] = RegionNames[n] => m = n
  BY RegionsAssumption
<1>2. Named = {RegionNames[n] : n \in DOMAIN RegionNames}
  BY <1>1 DEF Named, ToSet
<1>3. Global \notin Named /\ RegionNames \in Seq(Named)
  BY <1>1, <1>2
<1>4. Distinct(RegionNames)
  BY <1>1 DEF Distinct
<1> QED
  BY <1>2, <1>3, <1>4 DEF Keys

LEMMA Narrower ==
  ASSUME NEW S, NEW T, NEW s \in Seq(S), ToSet(s) \subseteq T
  PROVE  s \in Seq(T)
<1>1. \A n \in 1 .. Len(s) : s[n] \in T
  BY DEF ToSet
<1> QED
  BY <1>1

LEMMA NamesInOrder ==
  ASSUME NEW f
  PROVE  /\ InOrder(f) \in Seq(Keys)
         /\ ToSet(InOrder(f)) = Named \cap DOMAIN f
         /\ Distinct(InOrder(f))
<1>1. PICK s : s = InOrder(f)
  OBVIOUS
<1>2. s \in Seq(Named) /\ ToSet(s) = ToSet(RegionNames) \cap DOMAIN f /\ Distinct(s)
  BY <1>1, KeysAre, ChosenFacts, ChosenDistinct DEF InOrder
<1>3. s \in Seq(Keys)
  BY <1>2, KeysAre
<1> QED
  BY <1>1, <1>2, <1>3 DEF Named

LEMMA FingersChosen ==
  ASSUME NEW found \in Seq(Places)
  PROVE  /\ Chosen(found, ToSet(found) \ {Speck}) \in Seq(Nat)
         /\ ToSet(Chosen(found, ToSet(found) \ {Speck})) = ToSet(found) \ {Speck}
<1>1. PICK s : s = Chosen(found, ToSet(found) \ {Speck})
  OBVIOUS
<1>2. s \in Seq(Places) /\ ToSet(s) = ToSet(found) \cap (ToSet(found) \ {Speck})
  BY <1>1, ChosenFacts
<1>3. ToSet(found) \subseteq Places
  BY ListMember
<1>4. ToSet(s) \subseteq Nat
  BY <1>2, <1>3 DEF Places
<1>5. s \in Seq(Nat)
  BY <1>2, <1>4, Narrower
<1> QED
  BY <1>1, <1>2, <1>5

LEMMA TouchesInit == TInit => TouchesOK
<1> SUFFICES ASSUME TInit PROVE TouchesOK
  OBVIOUS
<1>1. MapTypes
  BY DEF TInit, MapTypes, EmptyMap
<1>2. LoopTypes
  BY DEF TInit, LoopTypes, Looking
<1>3. Paired
  <2>1. cursors.live = {} /\ touches = [k \in Keys |-> <<>>]
    BY DEF TInit, MInit, EmptyPool
  <2>2. \A k \in Keys : DOMAIN touches[k] = {}
    BY <2>1
  <2> QED
    BY <2>1, <2>2 DEF Paired, Sids
<1> QED
  BY <1>1, <1>2, <1>3 DEF TouchesOK

(* Commands for regions. *)
LEMMA CommandKeepsMaps ==
  ASSUME MapTypes, NEW r \in Requests,
         \/ r.code = "put" /\ PutRegion(r)
         \/ r.code = "update" /\ UpdateRegion(r)
         \/ r.code = "delete" /\ DeleteRegion(r)
  PROVE  /\ DOMAIN contours' \subseteq DOMAIN regions' /\ DOMAIN regions' \subseteq Named
         /\ contours' \in [DOMAIN contours' -> Seq(Places) \cup {Null}]
<1>1. r.region \in Named
  BY RegionsAssumption DEF Named
<1>2. PICK x, w : x = r.region /\ w = r.rect
  OBVIOUS
<1>3. \/ UNCHANGED <<regions, contours>>
      \/ regions' = Put(regions, x, "inside") /\ contours' = contours
      \/ regions' = Put(regions, x, w) /\ contours' = Put(contours, x, <<>>)
      \/ regions' = Erase(regions, x) /\ contours' = Erase(contours, x)
  BY <1>2 DEF PutRegion, UpdateRegion, DeleteRegion
<1>4. x \in Named
  BY <1>1, <1>2
<1>5. /\ DOMAIN contours \subseteq DOMAIN regions /\ DOMAIN regions \subseteq Named
      /\ contours \in [DOMAIN contours -> Seq(Places) \cup {Null}]
  BY DEF MapTypes
<1>6. CASE UNCHANGED <<regions, contours>>
  BY <1>5, <1>6
<1>7. CASE regions' = Put(regions, x, "inside") /\ contours' = contours
  <2>1. DOMAIN regions' = DOMAIN regions \cup {x}
    BY <1>7 DEF Put
  <2> QED
    BY <1>4, <1>5, <1>7, <2>1
<1>8. CASE regions' = Put(regions, x, w) /\ contours' = Put(contours, x, <<>>)
  <2>1. <<>> \in Seq(Places)
    OBVIOUS
  <2>2. contours' = [y \in DOMAIN contours \cup {x} |-> IF y = x THEN <<>> ELSE contours[y]]
    BY <1>8 DEF Put
  <2>3. contours' \in [DOMAIN contours' -> Seq(Places) \cup {Null}]
    BY <1>5, <2>1, <2>2
  <2>4. DOMAIN regions' = DOMAIN regions \cup {x} /\ DOMAIN contours' = DOMAIN contours \cup {x}
    BY <1>8 DEF Put
  <2> QED
    BY <1>4, <1>5, <2>3, <2>4
<1>9. CASE regions' = Erase(regions, x) /\ contours' = Erase(contours, x)
  <2>1. contours' \in [DOMAIN contours' -> Seq(Places) \cup {Null}]
    BY <1>5, <1>9 DEF Erase
  <2>2. DOMAIN regions' = DOMAIN regions \ {x} /\ DOMAIN contours' = DOMAIN contours \ {x}
    BY <1>9 DEF Erase
  <2> QED
    BY <1>5, <2>1, <2>2
<1> QED
  BY <1>3, <1>6, <1>7, <1>8, <1>9

LEMMA MapsNext == MapTypes /\ LoopTypes /\ [TNext]_tvars => MapTypes'
<1> SUFFICES ASSUME MapTypes, LoopTypes, [TNext]_tvars PROVE MapTypes'
  OBVIOUS
<1>1. CASE UNCHANGED <<regionMessages, regions, contours, globalContours>>
  BY <1>1 DEF MapTypes
<1>2. CASE NewFrame
  <2>1. UNCHANGED <<regions, contours, globalContours>>
    BY <1>2 DEF NewFrame
  <2>2. regionMessages' = <<>> \/ \E r \in Requests : regionMessages' = <<r>>
    BY <1>2 DEF NewFrame
  <2>3. regionMessages' \in Seq(Requests)
    <3>1. <<>> \in Seq(Requests) /\ \A r \in Requests : <<r>> \in Seq(Requests)
      OBVIOUS
    <3> QED
      BY <2>2, <3>1
  <2> QED
    BY <2>1, <2>3 DEF MapTypes
<1>3. CASE StartContours
  <2>1. globalContours' = globalContours
    BY <1>3 DEF StartContours
  <2>2. CASE regionMessages = <<>>
    <3>1. UNCHANGED <<regionMessages, regions, contours>>
      BY <1>3, <2>2 DEF StartContours
    <3> QED
      BY <2>1, <3>1 DEF MapTypes
  <2>3. CASE regionMessages # <<>>
    <3>1. PICK r : r = Head(regionMessages)
      OBVIOUS
    <3>2. r \in Requests /\ Tail(regionMessages) \in Seq(Requests)
      BY <2>3, <3>1, TailFacts DEF MapTypes
    <3>3. r.code \in {"put", "update", "delete"}
      BY <3>2, RegionsAssumption
    <3>4. /\ CASE r.code = "put"    -> PutRegion(r)
               [] r.code = "update" -> UpdateRegion(r)
               [] r.code = "delete" -> DeleteRegion(r)
          /\ regionMessages' = Tail(regionMessages)
      BY <1>3, <2>3, <3>1 DEF StartContours
    <3>5. \/ r.code = "put" /\ PutRegion(r)
          \/ r.code = "update" /\ UpdateRegion(r)
          \/ r.code = "delete" /\ DeleteRegion(r)
      BY <3>3, <3>4
    <3>6. /\ DOMAIN contours' \subseteq DOMAIN regions' /\ DOMAIN regions' \subseteq Named
          /\ contours' \in [DOMAIN contours' -> Seq(Places) \cup {Null}]
      BY <3>2, <3>5, CommandKeepsMaps
    <3> QED
      BY <2>1, <3>2, <3>4, <3>6 DEF MapTypes
  <2> QED
    BY <2>2, <2>3
<1>4. CASE SearchPicture
  <2>1. UNCHANGED <<regionMessages, regions, contours>> /\ globalContours' \in Seq(Places)
    BY <1>4, RegionsAssumption DEF SearchPicture, Places
  <2> QED
    BY <2>1 DEF MapTypes
<1>5. CASE SearchRegion
  <2>1. UNCHANGED <<regionMessages, regions, globalContours>> /\ todo # <<>>
    BY <1>5 DEF SearchRegion
  <2>2. PICK k : k = Head(todo)
    OBVIOUS
  <2>7. k \in DOMAIN regions
    <3>1. todo \in Seq(Keys) /\ ToSet(todo) \subseteq DOMAIN regions
      BY <1>5 DEF LoopTypes, SearchRegion, Running
    <3> QED
      BY <2>1, <2>2, <3>1, TailFacts
  <2>3. \/ contours' = contours
        \/ ~Allocated(k) /\ contours' = Put(contours, k, Null)
        \/ Allocated(k) /\ \E view \in Views : contours' = [contours EXCEPT ![k] = view]
    BY <1>5, <2>2 DEF SearchRegion
  <2>4. CASE contours' = contours
    BY <2>1, <2>4 DEF MapTypes
  <2>5. CASE Allocated(k) /\ \E view \in Views : contours' = [contours EXCEPT ![k] = view]
    <3>1. PICK view \in Views : contours' = [contours EXCEPT ![k] = view]
      BY <2>5
    <3>2. view \in Seq(Places)
      BY RegionsAssumption DEF Places
    <3>3. contours' \in [DOMAIN contours -> Seq(Places) \cup {Null}] /\ DOMAIN contours' = DOMAIN contours
      BY <3>1, <3>2 DEF MapTypes
    <3> QED
      BY <2>1, <3>3 DEF MapTypes
  <2>6. CASE contours' = Put(contours, k, Null)
    <3>1. contours' = [y \in DOMAIN contours \cup {k} |-> IF y = k THEN Null ELSE contours[y]]
      BY <2>6 DEF Put
    <3>2. contours' \in [DOMAIN contours' -> Seq(Places) \cup {Null}]
      BY <3>1 DEF MapTypes
    <3>3. DOMAIN contours' = DOMAIN contours \cup {k}
      BY <2>6 DEF Put
    <3> QED
      BY <2>1, <2>7, <3>2, <3>3 DEF MapTypes
  <2> QED
    BY <2>3, <2>4, <2>5, <2>6
<1> QED
  BY <1>1, <1>2, <1>3, <1>4, <1>5 DEF TNext, tvars, shared, Crash, DetectMarkers, StartMarkers,
     AgeMarker, PlaceMarkers, EndContours, StartTouches, NextKey, MatchTouch, PassTouch, EndCull,
     AddPotential, EndTouches

(* What a step makes of one touch of the region looked at. *)
TouchSet == [bounds : Nat, deathCounter : Int, tCur : Nat]

LEMMA LoopFacts ==
  ASSUME MapTypes, LoopTypes, pc \in {"cull", "add"}
  PROVE  /\ Head(todo) \in Keys /\ todo # <<>> /\ todo \in Seq(Keys)
         /\ Head(todo) \in {Global} \cup DOMAIN contours
         /\ touches \in [Keys -> Seq(TouchSet)]
         /\ potentials \in Seq(Nat) /\ i \in Nat \ {0}
         /\ Here \in Seq(TouchSet) /\ Here = touches[Head(todo)]
         /\ i <= Len(Here) => i \in 1 .. Len(Here) /\ Here[i] \in TouchSet
<1>1. todo # <<>> /\ todo \in Seq(Keys) /\ touches \in [Keys -> Seq(TouchSet)] /\ i \in Nat \ {0}
      /\ potentials \in Seq(Nat) /\ ToSet(todo) \subseteq {Global} \cup DOMAIN contours
  BY DEF LoopTypes, TouchSet, Looking
<1>2. Head(todo) \in Keys /\ Head(todo) \in ToSet(todo)
  BY <1>1, TailFacts
<1>3. Here \in Seq(TouchSet) /\ Here = touches[Head(todo)]
  BY <1>1, <1>2 DEF Here
<1>4. i <= Len(Here) => i \in 1 .. Len(Here) /\ Here[i] \in TouchSet
  BY <1>1, <1>3
<1> QED
  BY <1>1, <1>2, <1>3, <1>4

(* MatchTouch: one potential goes, and the touch gets its bounds. *)
LEMMA MatchIs ==
  ASSUME MapTypes, LoopTypes, MatchTouch
  PROVE  \E k \in Keys : \E n \in 1 .. Len(potentials) : \E t \in TouchSet :
           /\ k = Head(todo) /\ t = touches[k][i] /\ i \in DOMAIN touches[k]
           /\ n \in Matches(t) /\ n >= j
           /\ t.bounds - potentials[n] \in -1 .. 1
           /\ potentials' = RemoveAt(potentials, n)
           /\ touches' = [touches EXCEPT ![k][i] =
                            [bounds |-> potentials[n], deathCounter |-> -1, tCur |-> t.tCur]]
           /\ missing' = IF scanned[k] = 0 THEN missing ELSE Put(missing, t.tCur, 0)
           /\ j' = n /\ UNCHANGED <<pc, i, todo, scanned, contours, globalContours, regions>>
           /\ UNCHANGED mvars \/ (\E e : Update("cursor", e))
<1>1. pc = "cull" /\ i <= Len(Here)
  BY DEF MatchTouch, Running
<1>2. PICK k : k = Head(todo)
  OBVIOUS
<1>3. /\ k \in Keys /\ i \in 1 .. Len(Here) /\ Here = touches[k] /\ Here \in Seq(TouchSet)
      /\ potentials \in Seq(Nat) /\ Here[i] \in TouchSet
  BY <1>1, <1>2, LoopFacts
<1>4. PICK t \in TouchSet : t = Here[i]
  BY <1>3
<1>5. Matches(t) # {}
  BY <1>4 DEF MatchTouch
<1>6. PICK n : n = Min(Matches(t))
  OBVIOUS
<1>7. /\ MoveTouch(t, n) /\ missing' = Seen(t.tCur)
      /\ IF potentials[n] = t.bounds THEN UNCHANGED mvars
         ELSE \E e \in CursorOf(t) : Update("cursor", e)
  BY <1>4, <1>6 DEF MatchTouch
<1>8. j \in Nat \ {0}
  BY <1>1 DEF LoopTypes
<1>9. n \in Matches(t)
  <2>1. PICK M : M = Matches(t)
    OBVIOUS
  <2>2. M \subseteq Nat /\ M # {}
    BY <1>3, <1>5, <1>8, <2>1 DEF Matches
  <2>3. PICK x \in M : \A y \in M : ~ (<<y, x>> \in OpToRel(<, Nat))
    BY ONLY <2>2, NatLessThanWellFounded, WFMin, Zenon
  <2>4. \A y \in M : x <= y
    <3>1. \A y \in M : ~(y < x)
      BY <2>2, <2>3 DEF OpToRel
    <3> QED
      BY <2>2, <3>1
  <2>5. Min(M) \in M
    <3>1. Min(M) = CHOOSE z \in M : \A y \in M : z <= y
      BY DEF Min
    <3> QED
      BY <2>4, <3>1
  <2> QED
    BY <1>6, <2>1, <2>5
<1>10. n \in 1 .. Len(potentials) /\ n >= j /\ potentials[n] \in Nat
       /\ potentials[n] - t.bounds \in -1 .. 1
  BY <1>3, <1>8, <1>9 DEF Matches, Overlap
<1>11. t.bounds - potentials[n] \in -1 .. 1
  <2>1. PICK x, y \in Nat : x = t.bounds /\ y = potentials[n]
    BY <1>10 DEF TouchSet
  <2> QED
    BY <1>10, <2>1
<1>13. /\ potentials' = RemoveAt(potentials, n) /\ j' = n
       /\ touches' = [touches EXCEPT ![k][i] =
                        [bounds |-> potentials[n], deathCounter |-> -1, tCur |-> t.tCur]]
  BY <1>2, <1>7 DEF MoveTouch
<1>14. missing' = IF scanned[k] = 0 THEN missing ELSE Put(missing, t.tCur, 0)
  BY <1>2, <1>7 DEF Seen
<1>15. UNCHANGED <<pc, i, todo, scanned, contours, globalContours, regions>>
  BY DEF MatchTouch
<1>16. UNCHANGED mvars \/ (\E e : Update("cursor", e))
  BY <1>7
<1>17. t = touches[k][i] /\ i \in DOMAIN touches[k]
  BY <1>3, <1>4
<1> QED
  BY <1>2, <1>3, <1>9, <1>10, <1>11, <1>13, <1>14, <1>15, <1>16, <1>17

(* PassTouch of a touch that stays, and of one that goes. *)
LEMMA PassIs ==
  ASSUME MapTypes, LoopTypes, PassTouch
  PROVE  \E k \in Keys : \E t \in TouchSet :
           /\ k = Head(todo) /\ t = touches[k][i] /\ i \in DOMAIN touches[k]
           /\ pc' = "cull" /\ j' = 1
           /\ UNCHANGED <<todo, potentials, scanned, contours, globalContours, regions>>
           /\ \/ /\ t.deathCounter + 1 < Limit
                 /\ touches' = [touches EXCEPT ![k][i] =
                                  [bounds |-> t.bounds, deathCounter |-> t.deathCounter + 1,
                                   tCur |-> t.tCur]]
                 /\ i' = i + 1 /\ missing' = missing /\ UNCHANGED mvars
              \/ /\ t.deathCounter + 1 >= Limit
                 /\ touches' = [touches EXCEPT ![k] = RemoveAt(touches[k], i)]
                 /\ i' = i /\ missing' = Erase(missing, t.tCur)
                 /\ \E e \in cursors.live : e.sid = t.tCur /\ Take("cursor", e)
<1>1. pc = "cull" /\ i <= Len(Here)
  BY DEF PassTouch, Running
<1>2. PICK k : k = Head(todo)
  OBVIOUS
<1>3. k \in Keys /\ i \in 1 .. Len(Here) /\ Here = touches[k] /\ Here \in Seq(TouchSet)
      /\ Here[i] \in TouchSet
  BY <1>1, <1>2, LoopFacts
<1>4. PICK t \in TouchSet : t = Here[i]
  BY <1>3
<1>5. t = touches[k][i] /\ i \in DOMAIN touches[k]
  BY <1>3, <1>4
<1>6. Limit \in Nat /\ t.deathCounter \in Int
  BY SkippableFramesAssumption DEF Limit, TouchSet
<1>7. UNCHANGED <<todo, potentials, scanned, contours, globalContours, regions>>
  BY DEF PassTouch
<1>8. CASE Expires(t)
  <2>1. /\ \E e \in CursorOf(t) : Take("cursor", e)
        /\ touches' = [touches EXCEPT ![k] = RemoveAt(touches[k], i)]
        /\ pc' = "cull" /\ i' = i /\ j' = 1
        /\ missing' = Erase(missing, t.tCur)
    BY <1>2, <1>3, <1>4, <1>8 DEF PassTouch, Goto
  <2>2. \E e \in cursors.live : e.sid = t.tCur /\ Take("cursor", e)
    BY <2>1 DEF CursorOf
  <2>3. t.deathCounter + 1 >= Limit
    BY <1>8 DEF Expires
  <2> QED
    BY <1>2, <1>3, <1>5, <1>7, <2>1, <2>2, <2>3
<1>9. CASE ~Expires(t)
  <2>1. /\ touches' = [touches EXCEPT ![k][i].deathCounter = @ + 1]
        /\ pc' = "cull" /\ i' = i + 1 /\ j' = 1
        /\ UNCHANGED <<mvars, missing>>
    BY <1>2, <1>4, <1>9 DEF PassTouch, Goto
  <2>2. t = [bounds |-> t.bounds, deathCounter |-> t.deathCounter, tCur |-> t.tCur]
    BY DEF TouchSet
  <2>3. [t EXCEPT !.deathCounter = @ + 1]
          = [bounds |-> t.bounds, deathCounter |-> t.deathCounter + 1, tCur |-> t.tCur]
    BY <2>2
  <2>4. touches' = [touches EXCEPT ![k][i] = [t EXCEPT !.deathCounter = @ + 1]]
    BY <1>5, <2>1
  <2>5. touches' = [touches EXCEPT ![k][i] =
                      [bounds |-> t.bounds, deathCounter |-> t.deathCounter + 1, tCur |-> t.tCur]]
    BY <2>3, <2>4
  <2>6. t.deathCounter + 1 < Limit
    BY <1>6, <1>9 DEF Expires
  <2> QED
    BY <1>2, <1>3, <1>5, <1>7, <2>1, <2>5, <2>6
<1> QED
  BY <1>8, <1>9

(* AddPotential of one more touch. *)
LEMMA AddIs ==
  ASSUME MapTypes, LoopTypes, RegistryIs, AddPotential, ~(i > Len(potentials))
  PROVE  \E k \in Keys : \E t \in TouchSet :
           /\ k = Head(todo) /\ i \in 1 .. Len(potentials)
           /\ t = [bounds |-> potentials[i], deathCounter |-> 0, tCur |-> sessionID + 1]
           /\ touches' = [touches EXCEPT ![k] = Append(touches[k], t)]
           /\ missing' = Put(missing, sessionID + 1, 0)
           /\ AddCursor /\ pc' = "add" /\ i' = i + 1
           /\ UNCHANGED <<todo, potentials, scanned, contours, globalContours, regions>>
<1>1. pc = "add"
  BY DEF AddPotential, Running
<1>2. PICK k : k = Head(todo)
  OBVIOUS
<1>3. /\ k \in Keys /\ touches \in [Keys -> Seq(TouchSet)] /\ potentials \in Seq(Nat)
      /\ i \in 1 .. Len(potentials)
  BY <1>1, <1>2, LoopFacts
<1>4. PICK t : t = [bounds |-> potentials[i], deathCounter |-> 0, tCur |-> sessionID + 1]
  OBVIOUS
<1>5. sessionID + 1 \in Nat /\ potentials[i] \in Nat
  BY <1>3 DEF RegistryIs
<1>6. t \in TouchSet
  BY <1>4, <1>5 DEF TouchSet
<1>7. touches' = [touches EXCEPT ![k] = Append(touches[k], t)]
  BY <1>2, <1>4 DEF AddPotential
<1>8. /\ missing' = Put(missing, sessionID + 1, 0)
      /\ AddCursor /\ pc' = "add" /\ i' = i + 1
      /\ UNCHANGED <<todo, potentials, scanned, contours, globalContours, regions>>
  BY DEF AddPotential, Goto
<1> QED
  BY <1>2, <1>3, <1>4, <1>6, <1>7, <1>8

LEMMA LoopStays ==
  ASSUME LoopTypes, touches' = touches, UNCHANGED <<todo, potentials>> \/ Finish,
         pc' \notin {"search", "key", "cull", "add"}
  PROVE  LoopTypes'
<1>1. todo' \in Seq(Keys) /\ potentials' \in Seq(Nat)
  <2>1. CASE UNCHANGED <<todo, potentials>>
    BY <2>1 DEF LoopTypes
  <2>2. CASE Finish
    <3>1. todo' = <<>> /\ potentials' = <<>>
      BY <2>2 DEF Finish
    <3> QED
      BY <3>1
  <2> QED
    BY <2>1, <2>2
<1> QED
  BY <1>1 DEF LoopTypes, Looking

LEMMA LoopNext == MapTypes /\ LoopTypes /\ RegistryIs /\ [TNext]_tvars => LoopTypes'
<1> SUFFICES ASSUME MapTypes, LoopTypes, RegistryIs, [TNext]_tvars PROVE LoopTypes'
  OBVIOUS
<1>1. CASE UNCHANGED tvars
  BY <1>1 DEF LoopTypes, tvars, shared, control, Looking
<1>2. CASE NewFrame
  BY <1>2, LoopStays DEF NewFrame
<1>3. CASE Crash
  BY <1>3, LoopStays DEF Crash, Die, shared
<1>4. CASE DetectMarkers
  BY <1>4, LoopStays, FinishLeads DEF DetectMarkers
<1>5. CASE StartMarkers
  BY <1>5, LoopStays DEF StartMarkers, Goto, shared
<1>6. CASE AgeMarker
  BY <1>6, LoopStays DEF AgeMarker, Goto
<1>7. CASE PlaceMarkers
  <2>1. touches' = touches
    BY <1>7 DEF PlaceMarkers
  <2>2. Finish \/ (pc' = "place" /\ UNCHANGED <<todo, potentials>>)
    BY <1>7 DEF PlaceMarkers, Goto
  <2> QED
    BY <2>1, <2>2, LoopStays, FinishLeads
<1>8. CASE StartContours
  <2>1. UNCHANGED <<touches, potentials, i, j>> /\ pc = "start"
    BY <1>8 DEF StartContours, Running
  <2>2. CASE regionMessages = <<>>
    <3>1. pc' = "search" /\ todo' = InOrder(regions) /\ regions' = regions
      BY <1>8, <2>2 DEF StartContours
    <3>2. todo' \in Seq(Keys) /\ ToSet(todo') \subseteq DOMAIN regions
      BY <3>1, NamesInOrder
    <3> QED
      BY <2>1, <3>1, <3>2 DEF LoopTypes, Looking
  <2>3. CASE regionMessages # <<>>
    <3>1. UNCHANGED <<pc, todo>>
      BY <1>8, <2>3 DEF StartContours
    <3> QED
      BY <2>1, <3>1, LoopStays
  <2> QED
    BY <2>2, <2>3
<1>9. CASE SearchPicture
  BY <1>9, LoopStays, FinishLeads DEF SearchPicture
<1>10. CASE SearchRegion
  <2>1. UNCHANGED <<touches, regions>> /\ todo # <<>> /\ pc = "search"
    BY <1>10 DEF SearchRegion, Running
  <2>2. \/ Finish
        \/ Die
        \/ todo' = Tail(todo) /\ UNCHANGED <<pc, potentials>>
    BY <1>10 DEF SearchRegion
  <2>3. CASE Finish
    BY <2>1, <2>3, LoopStays, FinishLeads
  <2>4. CASE Die
    BY <2>1, <2>4, LoopStays DEF Die
  <2>5. CASE todo' = Tail(todo) /\ UNCHANGED <<pc, potentials>>
    <3>1. todo \in Seq(Keys) /\ ToSet(todo) \subseteq DOMAIN regions
      BY <2>1 DEF LoopTypes
    <3>2. todo' \in Seq(Keys) /\ ToSet(todo') \subseteq DOMAIN regions'
      BY <2>1, <2>5, <3>1, TailFacts
    <3> QED
      BY <2>1, <2>5, <3>2 DEF LoopTypes, Looking
  <2> QED
    BY <2>2, <2>3, <2>4, <2>5
<1>11. CASE EndContours
  BY <1>11, LoopStays, FinishLeads DEF EndContours, shared
<1>12. CASE StartTouches
  <2>1. UNCHANGED <<touches, potentials, contours, i, j>> /\ pc' = "key"
    BY <1>12 DEF StartTouches, shared
  <2>2. todo' = <<Global>> \/ todo' = InOrder(contours)
    BY <1>12 DEF StartTouches
  <2>3. todo' \in Seq(Keys) /\ ToSet(todo') \subseteq {Global} \cup DOMAIN contours
    <3>1. CASE todo' = <<Global>>
      <4>1. <<Global>> \in Seq(Keys) /\ ToSet(<<Global>>) = {Global}
        BY KeysAre DEF ToSet
      <4> QED
        BY <3>1, <4>1
    <3>2. CASE todo' = InOrder(contours)
      BY <3>2, NamesInOrder
    <3> QED
      BY <2>2, <3>1, <3>2
  <2> QED
    BY <2>1, <2>3 DEF LoopTypes, Looking
<1>13. CASE NextKey
  <2>1. UNCHANGED <<touches, todo, contours, globalContours>> /\ todo # <<>> /\ pc = "key"
    BY <1>13 DEF NextKey, Running, shared, Die
  <2>2. PICK k, found : k = Head(todo) /\ found = IF k = Global THEN globalContours ELSE contours[k]
    OBVIOUS
  <2>3. CASE found = Null
    <3>1. Die
      BY <1>13, <2>2, <2>3 DEF NextKey
    <3> QED
      BY <2>1, <3>1, LoopStays DEF Die
  <2>4. CASE found # Null
    <3>1. /\ potentials' = Chosen(found, ToSet(found) \ {Speck})
          /\ pc' = "cull" /\ i' = 1 /\ j' = 1
      BY <1>13, <2>2, <2>4 DEF NextKey, Goto
    <3>2. k \in {Global} \cup DOMAIN contours
      BY <2>1, <2>2, TailFacts DEF LoopTypes, Looking
    <3>3. found \in Seq(Places)
      BY <2>2, <2>4, <3>2 DEF MapTypes
    <3>4. potentials' \in Seq(Nat)
      BY <3>1, <3>3, FingersChosen
    <3> QED
      BY <2>1, <3>1, <3>4 DEF LoopTypes, Looking
  <2> QED
    BY <2>3, <2>4
<1>14. CASE MatchTouch
  <2>0. pc = "cull"
    BY <1>14 DEF MatchTouch, Running
  <2>1. PICK k \in Keys, n \in 1 .. Len(potentials), t \in TouchSet :
          /\ i \in DOMAIN touches[k]
          /\ potentials' = RemoveAt(potentials, n)
          /\ touches' = [touches EXCEPT ![k][i] =
                           [bounds |-> potentials[n], deathCounter |-> -1, tCur |-> t.tCur]]
          /\ j' = n /\ UNCHANGED <<pc, i, todo, contours>>
    BY <1>14, MatchIs
  <2>2. /\ touches \in [Keys -> Seq(TouchSet)] /\ potentials \in Seq(Nat)
        /\ potentials[n] \in Nat
    BY <2>0, LoopFacts
  <2>3. PICK u : u = [bounds |-> potentials[n], deathCounter |-> -1, tCur |-> t.tCur]
    OBVIOUS
  <2>4. u \in TouchSet
    BY <2>2, <2>3 DEF TouchSet
  <2>5. touches' = [touches EXCEPT ![k] = [touches[k] EXCEPT ![i] = u]]
    BY <2>1, <2>3
  <2>6. [touches[k] EXCEPT ![i] = u] \in Seq(TouchSet)
    BY <2>1, <2>2, <2>4
  <2>7. touches' \in [Keys -> Seq(TouchSet)]
    BY <2>2, <2>5, <2>6
  <2>8. potentials' \in Seq(Nat) /\ j' \in Nat \ {0}
    BY <2>1, <2>2, RemoveAtFacts
  <2> QED
    BY <2>0, <2>1, <2>7, <2>8 DEF LoopTypes, Looking, TouchSet
<1>15. CASE PassTouch
  <2>0. pc = "cull"
    BY <1>15 DEF PassTouch, Running
  <2>1. PICK k \in Keys, t \in TouchSet :
          /\ i \in DOMAIN touches[k]
          /\ pc' = "cull" /\ j' = 1 /\ UNCHANGED <<todo, potentials, contours>>
          /\ \/ /\ touches' = [touches EXCEPT ![k][i] =
                                 [bounds |-> t.bounds, deathCounter |-> t.deathCounter + 1,
                                  tCur |-> t.tCur]]
                /\ i' = i + 1
             \/ /\ touches' = [touches EXCEPT ![k] = RemoveAt(touches[k], i)]
                /\ i' = i
    BY <1>15, PassIs
  <2>2. touches \in [Keys -> Seq(TouchSet)] /\ i \in Nat \ {0}
    BY <2>0, LoopFacts
  <2>3. PICK u : u = [bounds |-> t.bounds, deathCounter |-> t.deathCounter + 1, tCur |-> t.tCur]
    OBVIOUS
  <2>4. u \in TouchSet
    BY <2>3 DEF TouchSet
  <2>5. [touches[k] EXCEPT ![i] = u] \in Seq(TouchSet)
    BY <2>1, <2>2, <2>4
  <2>6. RemoveAt(touches[k], i) \in Seq(TouchSet)
    <3>1. touches[k] \in Seq(TouchSet) /\ i \in 1 .. Len(touches[k])
      BY <2>1, <2>2
    <3> QED
      BY <3>1, RemoveAtFacts
  <2>7. \/ touches' = [touches EXCEPT ![k] = [touches[k] EXCEPT ![i] = u]]
        \/ touches' = [touches EXCEPT ![k] = RemoveAt(touches[k], i)]
    BY <2>1, <2>3
  <2>8. touches' \in [Keys -> Seq(TouchSet)]
    BY <2>2, <2>5, <2>6, <2>7
  <2>9. i' \in Nat \ {0}
    BY <2>1, <2>2
  <2>10. pc' = "cull" /\ j' = 1 /\ UNCHANGED <<todo, potentials, contours>>
    BY <2>1
  <2> QED
    BY <2>0, <2>8, <2>9, <2>10 DEF LoopTypes, Looking, TouchSet
<1>16. CASE EndCull
  <2>1. pc = "cull" /\ pc' = "add" /\ i' = 1 /\ UNCHANGED <<touches, potentials, todo, contours>>
    BY <1>16 DEF EndCull, Running, Goto, shared
  <2> QED
    BY <2>1 DEF LoopTypes, Looking
<1>17. CASE AddPotential
  <2>0. pc = "add"
    BY <1>17 DEF AddPotential, Running
  <2>1. CASE i > Len(potentials)
    <3>1. pc' = "key" /\ todo' = Tail(todo) /\ UNCHANGED <<touches, potentials, contours>>
      BY <1>17, <2>1 DEF AddPotential, Goto
    <3>2. todo \in Seq(Keys) /\ ToSet(todo) \subseteq {Global} \cup DOMAIN contours /\ todo # <<>>
      BY <2>0 DEF LoopTypes, Looking
    <3>3. todo' \in Seq(Keys) /\ ToSet(todo') \subseteq {Global} \cup DOMAIN contours'
      BY <3>1, <3>2, TailFacts
    <3> QED
      BY <3>1, <3>3 DEF LoopTypes, Looking
  <2>2. CASE ~(i > Len(potentials))
    <3>1. PICK k \in Keys, t \in TouchSet :
            /\ touches' = [touches EXCEPT ![k] = Append(touches[k], t)]
            /\ pc' = "add" /\ i' = i + 1 /\ UNCHANGED <<todo, potentials, contours>>
      BY <1>17, <2>2, AddIs
    <3>2. touches \in [Keys -> Seq(TouchSet)] /\ i \in Nat \ {0}
      BY <2>0, LoopFacts
    <3>3. touches' \in [Keys -> Seq(TouchSet)]
      BY <3>1, <3>2
    <3>4. i' \in Nat \ {0}
      BY <3>1, <3>2
    <3> QED
      BY <2>0, <3>1, <3>3, <3>4 DEF LoopTypes, Looking, TouchSet
  <2> QED
    BY <2>1, <2>2
<1>18. CASE EndTouches
  BY <1>18, LoopStays, FinishLeads DEF EndTouches, shared
<1> QED
  BY <1>1, <1>2, <1>3, <1>4, <1>5, <1>6, <1>7, <1>8, <1>9, <1>10, <1>11, <1>12, <1>13, <1>14,
     <1>15, <1>16, <1>17, <1>18 DEF TNext

LEMMA PairsStay ==
  ASSUME Paired, cursors'.live = cursors.live,
         \A k \in Keys : /\ DOMAIN touches'[k] = DOMAIN touches[k]
                         /\ \A n \in DOMAIN touches[k] : touches'[k][n].tCur = touches[k][n].tCur
  PROVE  Paired'
<1>1. Sids(cursors'.live) = Sids(cursors.live)
  OBVIOUS
<1>2. \A k \in Keys : \A n \in DOMAIN touches'[k] : touches'[k][n].tCur \in Sids(cursors'.live)
  BY <1>1 DEF Paired
<1>3. \A s \in Sids(cursors'.live) :
        \E k \in Keys : \E n \in DOMAIN touches'[k] : touches'[k][n].tCur = s
  <2> SUFFICES ASSUME NEW s \in Sids(cursors.live)
               PROVE  \E k \in Keys : \E n \in DOMAIN touches'[k] : touches'[k][n].tCur = s
    BY <1>1
  <2>1. PICK k, n : k \in Keys /\ n \in DOMAIN touches[k] /\ touches[k][n].tCur = s
    BY DEF Paired
  <2>2. n \in DOMAIN touches'[k] /\ touches'[k][n].tCur = s
    BY <2>1
  <2> QED
    BY <2>1, <2>2
<1>4. \A k, l \in Keys : \A n \in DOMAIN touches'[k], m \in DOMAIN touches'[l] :
        touches'[k][n].tCur = touches'[l][m].tCur => k = l /\ n = m
  BY DEF Paired
<1> QED
  BY <1>2, <1>3, <1>4 DEF Paired

LEMMA StillPairs ==
  ASSUME Paired, Still, touches' = touches
  PROVE  Paired'
  BY PairsStay DEF Still

LEMMA MatchKeepsPairs ==
  ASSUME MapTypes, LoopTypes, Paired, MatchTouch
  PROVE  Paired'
<1>0. pc = "cull"
  BY DEF MatchTouch, Running
<1>1. PICK k \in Keys, n \in 1 .. Len(potentials), t \in TouchSet :
        /\ t = touches[k][i] /\ i \in DOMAIN touches[k]
        /\ touches' = [touches EXCEPT ![k][i] =
                         [bounds |-> potentials[n], deathCounter |-> -1, tCur |-> t.tCur]]
        /\ UNCHANGED mvars \/ (\E e : Update("cursor", e))
  BY MatchIs
<1>2. touches \in [Keys -> Seq(TouchSet)]
  BY <1>0, LoopFacts
<1>3. PICK u : u = [bounds |-> potentials[n], deathCounter |-> -1, tCur |-> t.tCur]
  OBVIOUS
<1>4. u.tCur = touches[k][i].tCur
  BY <1>1, <1>3
<1>5. touches' = [touches EXCEPT ![k] = [touches[k] EXCEPT ![i] = u]]
  BY <1>1, <1>3
<1>6. \A l \in Keys : /\ DOMAIN touches'[l] = DOMAIN touches[l]
                      /\ \A m \in DOMAIN touches[l] : touches'[l][m].tCur = touches[l][m].tCur
  BY <1>1, <1>2, <1>4, <1>5
<1>7. cursors' = cursors
  BY <1>1, StillSteps DEF Still
<1> QED
  BY <1>6, <1>7, PairsStay

LEMMA SidsWithout ==
  ASSUME RegistryIs, NEW e \in cursors.live
  PROVE  Sids(cursors.live \ {e}) = Sids(cursors.live) \ {e.sid}
  BY DEF RegistryIs, Sids

LEMMA PassKeepsPairs ==
  ASSUME MapTypes, LoopTypes, RegistryIs, Paired, PassTouch
  PROVE  Paired'
<1>0. pc = "cull"
  BY DEF PassTouch, Running
<1>1. PICK k \in Keys, t \in TouchSet :
        /\ t = touches[k][i] /\ i \in DOMAIN touches[k]
        /\ \/ /\ touches' = [touches EXCEPT ![k][i] =
                               [bounds |-> t.bounds, deathCounter |-> t.deathCounter + 1,
                                tCur |-> t.tCur]]
              /\ UNCHANGED mvars
           \/ /\ touches' = [touches EXCEPT ![k] = RemoveAt(touches[k], i)]
              /\ \E e \in cursors.live : e.sid = t.tCur /\ Take("cursor", e)
  BY PassIs
<1>2. touches \in [Keys -> Seq(TouchSet)]
  BY <1>0, LoopFacts
<1>3. CASE /\ touches' = [touches EXCEPT ![k][i] =
                            [bounds |-> t.bounds, deathCounter |-> t.deathCounter + 1,
                             tCur |-> t.tCur]]
           /\ UNCHANGED mvars
  <2>1. PICK u : u = [bounds |-> t.bounds, deathCounter |-> t.deathCounter + 1, tCur |-> t.tCur]
    OBVIOUS
  <2>2. u.tCur = touches[k][i].tCur
    BY <1>1, <2>1
  <2>3. touches' = [touches EXCEPT ![k] = [touches[k] EXCEPT ![i] = u]]
    BY <1>3, <2>1
  <2>4. \A l \in Keys : /\ DOMAIN touches'[l] = DOMAIN touches[l]
                        /\ \A n \in DOMAIN touches[l] : touches'[l][n].tCur = touches[l][n].tCur
    BY <1>1, <1>2, <2>2, <2>3
  <2>5. cursors' = cursors
    BY <1>3, StillSteps DEF Still
  <2> QED
    BY <2>4, <2>5, PairsStay
<1>4. CASE /\ touches' = [touches EXCEPT ![k] = RemoveAt(touches[k], i)]
           /\ \E e \in cursors.live : e.sid = t.tCur /\ Take("cursor", e)
  <2>1. PICK e \in cursors.live : e.sid = t.tCur /\ Take("cursor", e)
    BY <1>4
  <2>2. Sids(cursors'.live) = Sids(cursors.live) \ {t.tCur}
    <3>1. cursors'.live = cursors.live \ {e}
      BY <2>1, CursorTaken
    <3> QED
      BY <2>1, <3>1, SidsWithout
  <2>3. PICK q, len : q = RemoveAt(touches[k], i) /\ len = Len(touches[k])
    OBVIOUS
  <2>4. /\ len \in Nat /\ i \in 1 .. len /\ DOMAIN touches[k] = 1 .. len
        /\ touches[k] \in Seq(TouchSet)
    BY <1>1, <1>2, <2>3
  <2>5. /\ q \in Seq(TouchSet) /\ DOMAIN q = 1 .. len - 1
        /\ \A n \in 1 .. len - 1 : q[n] = IF n < i THEN touches[k][n] ELSE touches[k][n + 1]
    BY <2>3, <2>4, RemoveAtFacts
  <2>6. touches'[k] = q /\ \A l \in Keys : l # k => touches'[l] = touches[l]
    BY <1>2, <1>4, <2>3
  (* Where a touch that is left was before. *)
  <2>7. \A n \in DOMAIN q : \E m \in DOMAIN touches[k] :
           m # i /\ q[n] = touches[k][m] /\ m = IF n < i THEN n ELSE n + 1
    <3> SUFFICES ASSUME NEW n \in DOMAIN q
                 PROVE  \E m \in DOMAIN touches[k] :
                          m # i /\ q[n] = touches[k][m] /\ m = IF n < i THEN n ELSE n + 1
      OBVIOUS
    <3>1. CASE n < i
      BY <2>4, <2>5, <3>1
    <3>2. CASE ~(n < i)
      <4>1. n + 1 \in DOMAIN touches[k] /\ n + 1 # i /\ q[n] = touches[k][n + 1]
        BY <2>4, <2>5, <3>2
      <4> QED
        BY <3>2, <4>1
    <3> QED
      BY <3>1, <3>2
  <2>8. \A m \in DOMAIN touches[k] : m # i => \E n \in DOMAIN q : q[n] = touches[k][m]
    <3> SUFFICES ASSUME NEW m \in DOMAIN touches[k], m # i
                 PROVE  \E n \in DOMAIN q : q[n] = touches[k][m]
      OBVIOUS
    <3>1. CASE m < i
      <4>1. m \in DOMAIN q /\ q[m] = touches[k][m]
        BY <2>4, <2>5, <3>1
      <4> QED
        BY <4>1
    <3>2. CASE ~(m < i)
      <4>1. m - 1 \in DOMAIN q /\ ~(m - 1 < i) /\ (m - 1) + 1 = m
        BY <2>4, <2>5, <3>2
      <4>2. q[m - 1] = touches[k][m]
        BY <2>5, <4>1
      <4> QED
        BY <4>1, <4>2
    <3> QED
      BY <3>1, <3>2
  <2>9. ASSUME NEW l \in Keys, NEW n \in DOMAIN touches'[l]
        PROVE  touches'[l][n].tCur \in Sids(cursors.live) \ {t.tCur}
    <3>1. \A m \in DOMAIN touches[l] : /\ touches[l][m].tCur \in Sids(cursors.live)
                                       /\ touches[l][m].tCur = t.tCur => l = k /\ m = i
      BY <1>1 DEF Paired
    <3>2. CASE l = k
      BY <2>6, <2>7, <3>1, <3>2
    <3>3. CASE l # k
      BY <2>6, <3>1, <3>3
    <3> QED
      BY <3>2, <3>3
  <2>10. ASSUME NEW s \in Sids(cursors.live) \ {t.tCur}
         PROVE  \E l \in Keys : \E n \in DOMAIN touches'[l] : touches'[l][n].tCur = s
    <3>1. PICK l, m : l \in Keys /\ m \in DOMAIN touches[l] /\ touches[l][m].tCur = s
      BY DEF Paired
    <3>2. CASE l = k
      <4>1. m # i
        BY <1>1, <3>1, <3>2
      <4> QED
        BY <2>6, <2>8, <3>1, <3>2, <4>1
    <3>3. CASE l # k
      BY <2>6, <3>1, <3>3
    <3> QED
      BY <3>2, <3>3
  <2>11. ASSUME NEW l \in Keys, NEW o \in Keys, NEW n \in DOMAIN touches'[l], NEW m \in DOMAIN touches'[o],
                touches'[l][n].tCur = touches'[o][m].tCur
         PROVE  l = o /\ n = m
    <3>1. \A x \in DOMAIN touches[l], y \in DOMAIN touches[o] :
             touches[l][x].tCur = touches[o][y].tCur => l = o /\ x = y
      BY DEF Paired
    <3>2. PICK x \in DOMAIN touches[l] :
             /\ touches'[l][n] = touches[l][x]
             /\ x = IF l = k /\ ~(n < i) THEN n + 1 ELSE n
      BY <2>6, <2>7
    <3>3. PICK y \in DOMAIN touches[o] :
             /\ touches'[o][m] = touches[o][y]
             /\ y = IF o = k /\ ~(m < i) THEN m + 1 ELSE m
      BY <2>6, <2>7
    <3>4. l = o /\ x = y
      BY <2>11, <3>1, <3>2, <3>3
    <3>5. CASE l = k
      <4>1. n \in Nat /\ m \in Nat /\ i \in Nat
        BY <2>4, <2>5, <2>6, <3>4, <3>5
      <4> QED
        BY <3>2, <3>3, <3>4, <4>1
    <3>6. CASE l # k
      BY <3>2, <3>3, <3>4, <3>6
    <3> QED
      BY <3>4, <3>5, <3>6
  <2> QED
    BY <2>2, <2>9, <2>10, <2>11 DEF Paired
<1> QED
  BY <1>1, <1>3, <1>4

LEMMA AddKeepsPairs ==
  ASSUME MapTypes, LoopTypes, RegistryIs, Paired, AddPotential
  PROVE  Paired'
<1>0. pc = "add"
  BY DEF AddPotential, Running
<1>1. CASE i > Len(potentials)
  <2>1. UNCHANGED <<mvars, touches>>
    BY <1>1 DEF AddPotential
  <2> QED
    BY <2>1, StillSteps, StillPairs
<1>2. CASE ~(i > Len(potentials))
  <2>1. PICK k \in Keys, t \in TouchSet :
          /\ t = [bounds |-> potentials[i], deathCounter |-> 0, tCur |-> sessionID + 1]
          /\ touches' = [touches EXCEPT ![k] = Append(touches[k], t)]
          /\ AddCursor
    BY <1>2, AddIs
  <2>2. touches \in [Keys -> Seq(TouchSet)]
    BY <1>0, LoopFacts
  <2>3. PICK new, len : new = sessionID + 1 /\ len = Len(touches[k])
    OBVIOUS
  <2>4. t.tCur = new
    BY <2>1, <2>3
  <2>5. Sids(cursors'.live) = Sids(cursors.live) \cup {new}
    <3>1. PICK e : e.sid = sessionID + 1 /\ cursors'.live = cursors.live \cup {e}
      BY <2>1, CursorAdded
    <3> QED
      BY <2>3, <3>1 DEF Sids
  <2>6. new \notin Sids(cursors.live)
    BY <2>3 DEF RegistryIs, Sids
  <2>7. /\ len \in Nat /\ DOMAIN touches[k] = 1 .. len
        /\ DOMAIN touches'[k] = 1 .. len + 1
        /\ touches'[k][len + 1] = t
        /\ \A n \in 1 .. len : touches'[k][n] = touches[k][n]
        /\ \A l \in Keys : l # k => touches'[l] = touches[l]
    <3>1. len \in Nat /\ touches[k] \in Seq(TouchSet) /\ DOMAIN touches[k] = 1 .. len
      BY <2>2, <2>3
    <3>2. touches'[k] = Append(touches[k], t) /\ \A l \in Keys : l # k => touches'[l] = touches[l]
      BY <2>1, <2>2
    <3> QED
      BY <2>3, <3>1, <3>2
  <2>8. ASSUME NEW l \in Keys, NEW n \in DOMAIN touches'[l]
        PROVE  IF l = k /\ n = len + 1 THEN touches'[l][n].tCur = new
               ELSE n \in DOMAIN touches[l] /\ touches'[l][n] = touches[l][n]
    <3>1. CASE l = k
      <4>1. n \in 1 .. len + 1
        BY <2>7, <3>1
      <4>2. CASE n = len + 1
        BY <2>4, <2>7, <3>1, <4>2
      <4>3. CASE n # len + 1
        <5>1. n \in 1 .. len
          BY <2>7, <4>1, <4>3
        <5> QED
          BY <2>7, <3>1, <4>3, <5>1
      <4> QED
        BY <4>2, <4>3
    <3>2. CASE l # k
      BY <2>7, <3>2
    <3> QED
      BY <3>1, <3>2
  <2>9. ASSUME NEW l \in Keys, NEW n \in DOMAIN touches[l]
        PROVE  touches[l][n].tCur \in Sids(cursors.live)
    BY DEF Paired
  <2>10. \A l \in Keys : \A n \in DOMAIN touches'[l] : touches'[l][n].tCur \in Sids(cursors'.live)
    BY <2>5, <2>8, <2>9
  <2>11. ASSUME NEW s \in Sids(cursors'.live)
         PROVE  \E l \in Keys : \E n \in DOMAIN touches'[l] : touches'[l][n].tCur = s
    <3>1. CASE s = new
      <4>1. len + 1 \in DOMAIN touches'[k] /\ touches'[k][len + 1].tCur = s
        BY <2>4, <2>7, <3>1
      <4> QED
        BY <4>1
    <3>2. CASE s # new
      <4>1. PICK l, n : l \in Keys /\ n \in DOMAIN touches[l] /\ touches[l][n].tCur = s
        BY <2>5, <3>2 DEF Paired
      <4>2. n \in DOMAIN touches'[l] /\ touches'[l][n] = touches[l][n]
        BY <2>7, <4>1
      <4> QED
        BY <4>1, <4>2
    <3> QED
      BY <3>1, <3>2
  <2>12. ASSUME NEW l \in Keys, NEW o \in Keys, NEW n \in DOMAIN touches'[l], NEW m \in DOMAIN touches'[o],
                touches'[l][n].tCur = touches'[o][m].tCur
         PROVE  l = o /\ n = m
    <3>1. \A x \in DOMAIN touches[l], y \in DOMAIN touches[o] :
             touches[l][x].tCur = touches[o][y].tCur => l = o /\ x = y
      BY DEF Paired
    <3>2. CASE l = k /\ n = len + 1
      <4>1. touches'[o][m].tCur = new
        BY <2>8, <2>12, <3>2
      <4>2. o = k /\ m = len + 1
        BY <2>6, <2>8, <2>9, <4>1
      <4> QED
        BY <3>2, <4>2
    <3>3. CASE o = k /\ m = len + 1
      <4>1. touches'[l][n].tCur = new
        BY <2>8, <2>12, <3>3
      <4>2. l = k /\ n = len + 1
        BY <2>6, <2>8, <2>9, <4>1
      <4> QED
        BY <3>3, <4>2
    <3>4. CASE ~(l = k /\ n = len + 1) /\ ~(o = k /\ m = len + 1)
      BY <2>8, <2>12, <3>1, <3>4
    <3> QED
      BY <3>2, <3>3, <3>4
  <2> QED
    BY <2>10, <2>11, <2>12 DEF Paired
<1> QED
  BY <1>1, <1>2

LEMMA PairsNext == MapTypes /\ LoopTypes /\ RegistryIs /\ Paired /\ [TNext]_tvars => Paired'
<1> SUFFICES ASSUME MapTypes, LoopTypes, RegistryIs, Paired, [TNext]_tvars PROVE Paired'
  OBVIOUS
<1>1. CASE MatchTouch
  BY <1>1, MatchKeepsPairs
<1>2. CASE PassTouch
  BY <1>2, PassKeepsPairs
<1>3. CASE AddPotential
  BY <1>3, AddKeepsPairs
<1>4. CASE UNCHANGED <<mvars, touches>> \/ (InitFrame /\ touches' = touches)
  BY <1>4, StillSteps, StillPairs
<1>5. CASE AgeMarker \/ PlaceMarkers
  <2>1. touches' = touches /\ cursors' = cursors
    BY <1>5 DEF AgeMarker, PlaceMarkers, PlaceMarker, Expire, Beyond, AddObject, Take, TakeOff,
       Update, mvars
  <2> QED
    BY <2>1, PairsStay
<1> QED
  BY <1>1, <1>2, <1>3, <1>4, <1>5 DEF TNext, tvars, shared, NewFrame, Crash, DetectMarkers,
     StartMarkers, StartContours, SearchPicture, SearchRegion, EndContours, StartTouches, NextKey,
     EndCull, EndTouches

LEMMA PairsAreTouches == Paired => CursorsAreTouches
<1> SUFFICES ASSUME Paired PROVE CursorsAreTouches
  OBVIOUS
<1>1. \A a : a \in AllTouches <=> \E k \in Keys : \E n \in DOMAIN touches[k] : a = <<k, n>>
  BY DEF AllTouches
<1>2. \A k \in Keys : \A n \in DOMAIN touches[k] : Touch(<<k, n>>) = touches[k][n]
  BY DEF Touch
<1>3. Sids(cursors.live) = {Touch(a).tCur : a \in AllTouches}
  <2>1. ASSUME NEW s \in Sids(cursors.live) PROVE \E a \in AllTouches : s = Touch(a).tCur
    <3>1. PICK k, n : k \in Keys /\ n \in DOMAIN touches[k] /\ touches[k][n].tCur = s
      BY DEF Paired
    <3>2. <<k, n>> \in AllTouches /\ Touch(<<k, n>>).tCur = s
      BY <1>1, <1>2, <3>1
    <3> QED
      BY <3>2
  <2>2. ASSUME NEW a \in AllTouches PROVE Touch(a).tCur \in Sids(cursors.live)
    <3>1. PICK k, n : k \in Keys /\ n \in DOMAIN touches[k] /\ a = <<k, n>>
      BY <1>1
    <3> QED
      BY <1>2, <3>1 DEF Paired
  <2> QED
    BY <2>1, <2>2
<1>4. ASSUME NEW a \in AllTouches, NEW b \in AllTouches, Touch(a).tCur = Touch(b).tCur
      PROVE  a = b
  <2>1. PICK k, n : k \in Keys /\ n \in DOMAIN touches[k] /\ a = <<k, n>>
    BY <1>1
  <2>2. PICK l, m : l \in Keys /\ m \in DOMAIN touches[l] /\ b = <<l, m>>
    BY <1>1
  <2>3. touches[k][n].tCur = touches[l][m].tCur
    BY <1>2, <1>4, <2>1, <2>2
  <2>4. k = l /\ n = m
    BY <2>1, <2>2, <2>3 DEF Paired
  <2> QED
    BY <2>1, <2>2, <2>4
<1> QED
  BY <1>3, <1>4 DEF CursorsAreTouches
-----------------------------------------------------------------------------
(* Fingers and touches *)

LEMMA NotLooking ==
  ASSUME ~Looking'
  PROVE  FingersOK'
  BY DEF Looking, FingersOK, FingersLookedAt, PotentialsFound, FingersMatched, FingersAdded

LEMMA FingersInit == TInit => FingersOK
  BY DEF TInit, Looking, FingersOK, FingersLookedAt, PotentialsFound, FingersMatched, FingersAdded

(* What was found stays what it is while it is looked at. *)
LEMMA FindingsStay ==
  ASSUME UNCHANGED <<contours, globalContours>>
  PROVE  \A k : Found(k)' = Found(k) /\ LoneOnes(k)' = LoneOnes(k)
<1> TAKE k
<1>1. Found(k)' = Found(k)
  BY DEF Found
<1> QED
  BY <1>1 DEF LoneOnes

LEMMA NextKeepsFingers ==
  ASSUME MapTypes, LoopTypes, FingersOK, NextKey
  PROVE  FingersOK'
<1>1. pc = "key" /\ todo # <<>> /\ UNCHANGED <<touches, contours, globalContours>>
  BY DEF NextKey, Running, shared
<1>2. PICK k, found : k = Head(todo) /\ found = Found(k)
  OBVIOUS
<1>3. CASE found = Null
  <2>1. pc' = "dead"
    BY <1>2, <1>3 DEF NextKey, Found, Die
  <2> QED
    BY <2>1, NotLooking DEF Looking
<1>4. CASE found # Null
  <2>1. /\ potentials' = Chosen(found, ToSet(found) \ {Speck})
        /\ pc' = "cull" /\ todo' = todo
    BY <1>2, <1>4 DEF NextKey, Found, Goto
  <2>2. k \in {Global} \cup DOMAIN contours
    BY <1>1, <1>2, TailFacts DEF LoopTypes, Looking
  <2>3. found \in Seq(Places)
    BY <1>2, <1>4, <2>2 DEF MapTypes, Found
  <2>4. ToSet(potentials') = ToSet(found) \ {Speck}
    BY <2>1, <2>3, FingersChosen
  <2>5. Head(todo)' = k /\ Found(k)' = found /\ LoneOnes(k)' = LoneOnes(k)
    BY <1>1, <1>2, <2>1, FindingsStay
  <2>6. FingersLookedAt'
    <3>1. \A l : LoneOnes(l)' = LoneOnes(l) /\ \A p : Covered(l, p)' = Covered(l, p)
      BY <1>1, FindingsStay DEF Covered
    <3>2. \A l \in DOMAIN contours \ ToSet(todo) :
            contours[l] # Null => \A p \in LoneOnes(l) : Covered(l, p)
      BY <1>1 DEF FingersOK, FingersLookedAt, Looking
    <3> QED
      BY <1>1, <2>1, <3>1, <3>2 DEF FingersLookedAt
  <2>7. PotentialsFound'
    BY <2>3, <2>4, <2>5 DEF PotentialsFound
  <2>8. FingersMatched'
    <3>1. \A p \in LoneOnes(k) : p \in ToSet(potentials')
      BY <1>2, <2>4 DEF LoneOnes, Lone
    <3> QED
      BY <2>5, <3>1 DEF FingersMatched
  <2>9. FingersAdded'
    BY <2>1 DEF FingersAdded
  <2> QED
    BY <2>6, <2>7, <2>8, <2>9 DEF FingersOK
<1> QED
  BY <1>3, <1>4

(* The other regions keep their touches. *)
LEMMA OthersStayLookedAt ==
  ASSUME FingersOK, Looking, NEW k, k \in ToSet(todo),
         \A l \in Keys : l # k => touches'[l] = touches[l],
         UNCHANGED <<todo, contours, globalContours>>, MapTypes
  PROVE  FingersLookedAt'
<1>1. \A l \in DOMAIN contours \ ToSet(todo) :
        contours[l] # Null => \A p \in LoneOnes(l) : Covered(l, p)
  BY DEF FingersOK, FingersLookedAt
<1>2. ASSUME NEW l \in DOMAIN contours \ ToSet(todo)
      PROVE  LoneOnes(l)' = LoneOnes(l) /\ \A p : Covered(l, p) => Covered(l, p)'
  <2>1. l \in Keys /\ l # k
    BY KeysAre DEF MapTypes
  <2>2. touches'[l] = touches[l]
    BY <2>1
  <2> QED
    BY <2>2, FindingsStay DEF Covered
<1> QED
  BY <1>1, <1>2 DEF FingersLookedAt

LEMMA MatchKeepsFingers ==
  ASSUME MapTypes, LoopTypes, FingersOK, MatchTouch
  PROVE  FingersOK'
<1>0. pc = "cull" /\ Looking
  BY DEF MatchTouch, Running, Looking
<1>1. PICK k \in Keys, n \in 1 .. Len(potentials), t \in TouchSet :
        /\ k = Head(todo) /\ t = touches[k][i] /\ i \in DOMAIN touches[k]
        /\ t.bounds - potentials[n] \in -1 .. 1
        /\ potentials' = RemoveAt(potentials, n)
        /\ touches' = [touches EXCEPT ![k][i] =
                         [bounds |-> potentials[n], deathCounter |-> -1, tCur |-> t.tCur]]
        /\ UNCHANGED <<pc, i, todo, contours, globalContours>>
  BY MatchIs
<1>2. /\ touches \in [Keys -> Seq(TouchSet)] /\ potentials \in Seq(Nat)
      /\ todo \in Seq(Keys) /\ todo # <<>> /\ i \in Nat
  BY <1>0, LoopFacts
<1>3. k \in ToSet(todo)
  BY <1>1, <1>2, TailFacts
<1>4. PICK q, u : q = potentials[n] /\ u = [bounds |-> q, deathCounter |-> -1, tCur |-> t.tCur]
  OBVIOUS
<1>5. /\ touches' = [touches EXCEPT ![k] = [touches[k] EXCEPT ![i] = u]]
      /\ u.bounds = q /\ u.deathCounter = -1 /\ i \in DOMAIN touches[k]
  BY <1>1, <1>4
<1>6. /\ DOMAIN touches'[k] = DOMAIN touches[k] /\ touches'[k][i] = u
      /\ \A m \in DOMAIN touches[k] : m # i => touches'[k][m] = touches[k][m]
      /\ \A l \in Keys : l # k => touches'[l] = touches[l]
  BY <1>2, <1>5
<1>7. q \in ToSet(potentials) /\ q \in Nat
  BY <1>2, <1>4, ListMember
<1>8. /\ ToSet(potentials') \subseteq ToSet(potentials)
      /\ ToSet(potentials) \ {q} \subseteq ToSet(potentials')
  BY <1>1, <1>2, <1>4, RemoveAtKeeps
<1>9. /\ Found(k) \in Seq(Places) /\ ToSet(potentials) \subseteq ToSet(Found(k))
  BY <1>0, <1>1 DEF FingersOK, PotentialsFound
<1>10. Found(k)' = Found(k) /\ LoneOnes(k)' = LoneOnes(k) /\ Head(todo)' = k
  BY <1>1, FindingsStay
<1>11. FingersLookedAt'
  BY <1>0, <1>1, <1>3, <1>6, OthersStayLookedAt
<1>12. PotentialsFound'
  BY <1>8, <1>9, <1>10 DEF PotentialsFound
<1>13. FingersMatched'
  <2> SUFFICES ASSUME NEW p \in LoneOnes(k)
               PROVE  p \in ToSet(potentials') \/ Settled(k, p)'
    BY <1>10 DEF FingersMatched
  <2>1. p \in ToSet(potentials) \/ Settled(k, p)
    BY <1>0, <1>1 DEF FingersOK, FingersMatched
  <2>2. q = p => Settled(k, p)'
    BY <1>1, <1>5, <1>6 DEF Settled
  <2>3. CASE p \in ToSet(potentials)
    BY <1>8, <2>2, <2>3
  <2>4. CASE Settled(k, p)
    <3>1. PICK m \in DOMAIN touches[k] :
            /\ touches[k][m].bounds = p
            /\ m < i \/ (m = i /\ touches[k][m].deathCounter = -1)
      BY <2>4 DEF Settled
    <3>2. CASE m < i
      <4>1. m # i
        BY <1>2, <3>2
      <4>2. m \in DOMAIN touches'[k] /\ touches'[k][m].bounds = p
        BY <1>6, <3>1, <4>1
      <4> QED
        BY <1>1, <3>2, <4>2 DEF Settled
    <3>3. CASE m = i
      <4>1. Overlap(p, q)
        BY <1>1, <1>4, <3>1, <3>3 DEF Overlap
      <4>2. PICK x \in DOMAIN Found(k) : Found(k)[x] = q
        BY <1>7, <1>9, ListMember
      <4>3. Lone(Found(k), p)
        BY DEF LoneOnes
      <4>4. q = p
        BY <4>1, <4>2, <4>3 DEF Lone
      <4> QED
        BY <2>2, <4>4
    <3> QED
      BY <3>1, <3>2, <3>3
  <2> QED
    BY <2>1, <2>3, <2>4
<1>14. FingersAdded'
  BY <1>0, <1>1 DEF FingersAdded
<1> QED
  BY <1>11, <1>12, <1>13, <1>14 DEF FingersOK

LEMMA PassKeepsFingers ==
  ASSUME MapTypes, LoopTypes, FingersOK, PassTouch
  PROVE  FingersOK'
<1>0. pc = "cull" /\ Looking
  BY DEF PassTouch, Running, Looking
<1>1. PICK k \in Keys, t \in TouchSet :
        /\ k = Head(todo) /\ t = touches[k][i] /\ i \in DOMAIN touches[k]
        /\ pc' = "cull" /\ UNCHANGED <<todo, potentials, contours, globalContours>>
        /\ \/ /\ touches' = [touches EXCEPT ![k][i] =
                               [bounds |-> t.bounds, deathCounter |-> t.deathCounter + 1,
                                tCur |-> t.tCur]]
              /\ i' = i + 1
           \/ /\ t.deathCounter + 1 >= Limit
              /\ touches' = [touches EXCEPT ![k] = RemoveAt(touches[k], i)]
              /\ i' = i
  BY PassIs
<1>2. /\ touches \in [Keys -> Seq(TouchSet)]
      /\ todo \in Seq(Keys) /\ todo # <<>> /\ i \in Nat \ {0}
  BY <1>0, LoopFacts
<1>3. k \in ToSet(todo)
  BY <1>1, <1>2, TailFacts
<1>4. /\ k = Head(todo) /\ t = touches[k][i] /\ i \in DOMAIN touches[k]
      /\ pc' = "cull" /\ UNCHANGED <<todo, potentials, contours, globalContours>>
  BY <1>1
<1>5. /\ \A l \in Keys : l # k => touches'[l] = touches[l]
      /\ \A p : Settled(k, p) => Settled(k, p)'
  <2>1. CASE /\ touches' = [touches EXCEPT ![k][i] =
                              [bounds |-> t.bounds, deathCounter |-> t.deathCounter + 1,
                               tCur |-> t.tCur]]
             /\ i' = i + 1
    <3>1. PICK u : u = [bounds |-> t.bounds, deathCounter |-> t.deathCounter + 1, tCur |-> t.tCur]
      OBVIOUS
    <3>2. touches' = [touches EXCEPT ![k] = [touches[k] EXCEPT ![i] = u]] /\ u.bounds = t.bounds
      BY <2>1, <3>1
    <3>3. /\ DOMAIN touches'[k] = DOMAIN touches[k]
          /\ \A m \in DOMAIN touches[k] : touches'[k][m].bounds = touches[k][m].bounds
          /\ \A l \in Keys : l # k => touches'[l] = touches[l]
      BY <1>2, <1>4, <3>2
    <3>4. ASSUME NEW p, Settled(k, p) PROVE Settled(k, p)'
      <4>1. PICK m \in DOMAIN touches[k] : touches[k][m].bounds = p /\ (m < i \/ m = i)
        BY <3>4 DEF Settled
      <4>2. m < i'
        BY <1>2, <2>1, <4>1
      <4> QED
        BY <3>3, <4>1, <4>2 DEF Settled
    <3> QED
      BY <3>3, <3>4
  <2>2. CASE /\ t.deathCounter + 1 >= Limit
             /\ touches' = [touches EXCEPT ![k] = RemoveAt(touches[k], i)]
             /\ i' = i
    <3>1. PICK q, len : q = RemoveAt(touches[k], i) /\ len = Len(touches[k])
      OBVIOUS
    <3>2. /\ len \in Nat /\ i \in 1 .. len /\ DOMAIN touches[k] = 1 .. len
          /\ touches[k] \in Seq(TouchSet)
      BY <1>2, <1>4, <3>1
    <3>9. i \in 1 .. Len(touches[k])
      BY ONLY <3>1, <3>2
    <3>10. /\ RemoveAt(touches[k], i) \in Seq(TouchSet)
           /\ Len(RemoveAt(touches[k], i)) = Len(touches[k]) - 1
           /\ \A m \in 1 .. Len(touches[k]) - 1 :
                 RemoveAt(touches[k], i)[m] = IF m < i THEN touches[k][m] ELSE touches[k][m + 1]
      BY ONLY <3>2, <3>9, RemoveAtFacts
    <3>3. /\ q \in Seq(TouchSet) /\ DOMAIN q = 1 .. len - 1
          /\ \A m \in 1 .. len - 1 : m < i => q[m] = touches[k][m]
      BY ONLY <3>1, <3>2, <3>10
    <3>4. touches'[k] = q /\ \A l \in Keys : l # k => touches'[l] = touches[l]
      BY <1>2, <2>2, <3>1
    <3>5. t.deathCounter # -1
      BY <2>2, SkippableFramesAssumption DEF Limit
    <3>6. ASSUME NEW p, Settled(k, p) PROVE Settled(k, p)'
      <4>1. PICK m \in DOMAIN touches[k] : touches[k][m].bounds = p /\ m < i
        BY <1>4, <3>5, <3>6 DEF Settled
      <4>2. m \in DOMAIN q /\ q[m].bounds = p
        BY <3>2, <3>3, <4>1
      <4> QED
        BY <2>2, <3>4, <4>1, <4>2 DEF Settled
    <3> QED
      BY <3>4, <3>6
  <2> QED
    BY <1>1, <2>1, <2>2
<1>6. Found(k)' = Found(k) /\ LoneOnes(k)' = LoneOnes(k) /\ Head(todo)' = k
  BY <1>4, FindingsStay
<1>7. FingersLookedAt'
  BY <1>0, <1>3, <1>4, <1>5, OthersStayLookedAt
<1>8. PotentialsFound'
  BY <1>0, <1>4, <1>6 DEF FingersOK, PotentialsFound
<1>9. FingersMatched'
  BY <1>0, <1>4, <1>5, <1>6 DEF FingersOK, FingersMatched
<1>10. FingersAdded'
  BY <1>4 DEF FingersAdded
<1> QED
  BY <1>7, <1>8, <1>9, <1>10 DEF FingersOK

LEMMA EndCullKeepsFingers ==
  ASSUME MapTypes, LoopTypes, FingersOK, EndCull
  PROVE  FingersOK'
<1>1. /\ pc = "cull" /\ pc' = "add" /\ i' = 1
      /\ UNCHANGED <<touches, potentials, todo, contours, globalContours>>
  BY DEF EndCull, Running, Goto, shared
<1>2. \A k : /\ Found(k)' = Found(k) /\ LoneOnes(k)' = LoneOnes(k)
             /\ \A p : Covered(k, p)' = Covered(k, p)
  BY <1>1, FindingsStay DEF Covered
<1>3. FingersLookedAt'
  BY <1>1, <1>2 DEF FingersOK, FingersLookedAt, Looking
<1>4. PotentialsFound'
  BY <1>1, <1>2 DEF FingersOK, PotentialsFound
<1>5. FingersMatched'
  BY <1>1 DEF FingersMatched
<1>6. FingersAdded'
  <2> SUFFICES ASSUME NEW p \in LoneOnes(Head(todo))
               PROVE  \/ \E n \in DOMAIN potentials : n >= 1 /\ potentials[n] = p
                      \/ Covered(Head(todo), p)
    BY <1>1, <1>2 DEF FingersAdded
  <2>1. p \in ToSet(potentials) \/ Settled(Head(todo), p)
    BY <1>1 DEF FingersOK, FingersMatched
  <2>2. potentials \in Seq(Nat)
    BY <1>1, LoopFacts
  <2>3. p \in ToSet(potentials) => \E n \in DOMAIN potentials : n >= 1 /\ potentials[n] = p
    BY <2>2, ListMember
  <2> QED
    BY <2>1, <2>3 DEF Settled, Covered
<1> QED
  BY <1>3, <1>4, <1>5, <1>6 DEF FingersOK

LEMMA AddKeepsFingers ==
  ASSUME MapTypes, LoopTypes, RegistryIs, FingersOK, AddPotential
  PROVE  FingersOK'
<1>0. pc = "add" /\ Looking
  BY DEF AddPotential, Running, Looking
<1>1. /\ touches \in [Keys -> Seq(TouchSet)] /\ potentials \in Seq(Nat)
      /\ todo \in Seq(Keys) /\ todo # <<>> /\ i \in Nat \ {0}
  BY <1>0, LoopFacts
<1>2. PICK h : h = Head(todo)
  OBVIOUS
<1>3. h \in Keys /\ h \in ToSet(todo) /\ ToSet(todo) = {h} \cup ToSet(Tail(todo))
  BY <1>1, <1>2, TailFacts
<1>4. DOMAIN potentials = 1 .. Len(potentials) /\ Len(potentials) \in Nat
  BY <1>1
<1>5. \A p \in LoneOnes(h) :
        \/ \E n \in DOMAIN potentials : n >= i /\ potentials[n] = p
        \/ Covered(h, p)
  BY <1>0, <1>2 DEF FingersOK, FingersAdded
<1>6. CASE i > Len(potentials)
  <2>1. /\ pc' = "key" /\ todo' = Tail(todo)
        /\ UNCHANGED <<touches, potentials, contours, globalContours>>
    BY <1>6 DEF AddPotential, Goto
  <2>2. \A k : /\ LoneOnes(k)' = LoneOnes(k)
               /\ \A p : Covered(k, p)' = Covered(k, p)
    BY <2>1, FindingsStay DEF Covered
  <2>3. \A p \in LoneOnes(h) : Covered(h, p)
    BY <1>1, <1>4, <1>5, <1>6
  <2>4. \A k \in DOMAIN contours \ ToSet(todo) :
          contours[k] # Null => \A p \in LoneOnes(k) : Covered(k, p)
    BY <1>0 DEF FingersOK, FingersLookedAt
  <2>5. FingersLookedAt'
    BY <1>3, <2>1, <2>2, <2>3, <2>4 DEF FingersLookedAt
  <2> QED
    BY <2>1, <2>5 DEF FingersOK, PotentialsFound, FingersMatched, FingersAdded
<1>7. CASE ~(i > Len(potentials))
  <2>1. PICK k \in Keys, t \in TouchSet :
          /\ k = Head(todo) /\ i \in 1 .. Len(potentials)
          /\ t = [bounds |-> potentials[i], deathCounter |-> 0, tCur |-> sessionID + 1]
          /\ touches' = [touches EXCEPT ![k] = Append(touches[k], t)]
          /\ pc' = "add" /\ i' = i + 1
          /\ UNCHANGED <<todo, potentials, contours, globalContours>>
    BY <1>7, AddIs
  <2>2. k = h /\ t.bounds = potentials[i]
    BY <1>2, <2>1
  <2>3. PICK len : len = Len(touches[h])
    OBVIOUS
  <2>4. /\ len \in Nat /\ DOMAIN touches[h] = 1 .. len
        /\ DOMAIN touches'[h] = 1 .. len + 1
        /\ touches'[h][len + 1] = t
        /\ \A n \in 1 .. len : touches'[h][n] = touches[h][n]
        /\ \A l \in Keys : l # h => touches'[l] = touches[l]
    <3>1. len \in Nat /\ touches[h] \in Seq(TouchSet) /\ DOMAIN touches[h] = 1 .. len
      BY <1>1, <1>3, <2>3
    <3>2. touches'[h] = Append(touches[h], t) /\ \A l \in Keys : l # h => touches'[l] = touches[l]
      BY <1>1, <1>3, <2>1, <2>2
    <3> QED
      BY <2>3, <3>1, <3>2
  <2>5. Found(h)' = Found(h) /\ LoneOnes(h)' = LoneOnes(h) /\ Head(todo)' = h
    BY <1>2, <2>1, FindingsStay
  <2>6. FingersLookedAt'
    BY <1>0, <1>3, <2>1, <2>4, OthersStayLookedAt
  <2>7. PotentialsFound'
    BY <1>0, <1>2, <2>1, <2>5 DEF FingersOK, PotentialsFound
  <2>8. FingersMatched'
    BY <2>1 DEF FingersMatched
  <2>9. FingersAdded'
    <3> SUFFICES ASSUME NEW p \in LoneOnes(h)
                 PROVE  \/ \E n \in DOMAIN potentials : n >= i + 1 /\ potentials[n] = p
                        \/ Covered(h, p)'
      BY <2>1, <2>5 DEF FingersAdded
    <3>1. CASE Covered(h, p)
      <4>1. PICK m \in DOMAIN touches[h] : touches[h][m].bounds = p
        BY <3>1 DEF Covered
      <4>2. m \in DOMAIN touches'[h] /\ touches'[h][m].bounds = p
        BY <2>4, <4>1
      <4> QED
        BY <4>2 DEF Covered
    <3>2. CASE \E n \in DOMAIN potentials : n >= i /\ potentials[n] = p
      <4>1. PICK n \in DOMAIN potentials : n >= i /\ potentials[n] = p
        BY <3>2
      <4>2. CASE n = i
        <5>1. len + 1 \in DOMAIN touches'[h] /\ touches'[h][len + 1].bounds = p
          BY <2>2, <2>4, <4>1, <4>2
        <5> QED
          BY <5>1 DEF Covered
      <4>3. CASE n # i
        <5>1. n >= i + 1
          BY <1>1, <1>4, <4>1, <4>3
        <5> QED
          BY <4>1, <5>1
      <4> QED
        BY <4>2, <4>3
    <3> QED
      BY <1>5, <3>1, <3>2
  <2> QED
    BY <2>6, <2>7, <2>8, <2>9 DEF FingersOK
<1> QED
  BY <1>6, <1>7

LEMMA FingersNext == MapTypes /\ LoopTypes /\ RegistryIs /\ FingersOK /\ [TNext]_tvars => FingersOK'
<1> SUFFICES ASSUME MapTypes, LoopTypes, RegistryIs, FingersOK, [TNext]_tvars PROVE FingersOK'
  OBVIOUS
<1>1. CASE UNCHANGED tvars
  <2>1. UNCHANGED <<pc, i, todo, potentials, touches, contours, globalContours>>
    BY <1>1 DEF tvars, shared, control
  <2>2. \A k : /\ Found(k)' = Found(k) /\ LoneOnes(k)' = LoneOnes(k)
               /\ \A p : Covered(k, p)' = Covered(k, p) /\ Settled(k, p)' = Settled(k, p)
    BY <2>1, FindingsStay DEF Covered, Settled
  <2>3. FingersLookedAt'
    BY <2>1, <2>2 DEF FingersOK, FingersLookedAt, Looking
  <2>4. PotentialsFound' /\ FingersMatched' /\ FingersAdded'
    BY <2>1, <2>2 DEF FingersOK, PotentialsFound, FingersMatched, FingersAdded
  <2> QED
    BY <2>3, <2>4 DEF FingersOK
<1>2. CASE StartTouches
  <2>1. /\ pc' = "key" /\ UNCHANGED <<contours, touches>>
        /\ todo' = IF DOMAIN contours = {} THEN <<Global>> ELSE InOrder(contours)
    BY <1>2 DEF StartTouches, shared
  <2>2. DOMAIN contours \ ToSet(todo') = {}
    BY <2>1, NamesInOrder DEF MapTypes
  <2> QED
    BY <2>1, <2>2 DEF FingersOK, FingersLookedAt, PotentialsFound, FingersMatched, FingersAdded
<1>3. CASE NextKey
  BY <1>3, NextKeepsFingers
<1>4. CASE MatchTouch
  BY <1>4, MatchKeepsFingers
<1>5. CASE PassTouch
  BY <1>5, PassKeepsFingers
<1>6. CASE EndCull
  BY <1>6, EndCullKeepsFingers
<1>7. CASE AddPotential
  BY <1>7, AddKeepsFingers
<1>8. CASE Finish
  BY <1>8, FinishLeads, NotLooking DEF Looking
<1>9. CASE NewFrame \/ Crash \/ StartMarkers \/ AgeMarker \/ StartContours
  <2>1. pc' \in {"start", "dead", "age", "place", "search"}
    BY <1>9 DEF NewFrame, Crash, Die, StartMarkers, AgeMarker, StartContours, Running, Goto
  <2> QED
    BY <2>1, NotLooking DEF Looking
<1>10. CASE PlaceMarkers
  <2>1. Finish \/ pc' = "place"
    BY <1>10 DEF PlaceMarkers, Goto
  <2> QED
    BY <1>8, <2>1, NotLooking DEF Looking
<1>11. CASE SearchRegion
  <2>1. Finish \/ pc' = "dead" \/ pc' = "search"
    BY <1>11 DEF SearchRegion, Running, Die
  <2> QED
    BY <1>8, <2>1, NotLooking DEF Looking
<1> QED
  BY <1>1, <1>2, <1>3, <1>4, <1>5, <1>6, <1>7, <1>8, <1>9, <1>10, <1>11
  DEF TNext, DetectMarkers, SearchPicture, EndContours, EndTouches

LEMMA LookedAtIsTracked == LoopTypes /\ MapTypes /\ FingersOK => FingersAreTracked
<1> SUFFICES ASSUME LoopTypes, MapTypes, FingersOK, pc = "key",
                    NEW k \in DOMAIN contours, contours[k] # Null,
                    \A n \in DOMAIN todo : todo[n] # k,
                    NEW n \in DOMAIN contours[k], Lone(contours[k], contours[k][n])
             PROVE  \E m \in DOMAIN touches[k] : touches[k][m].bounds = contours[k][n]
  BY DEF FingersAreTracked
<1>1. k \notin ToSet(todo)
  BY ListMember DEF LoopTypes
<1>2. Found(k) = contours[k]
  BY KeysAre DEF MapTypes, Found
<1>3. contours[k] \in Seq(Places)
  BY DEF MapTypes
<1>4. contours[k][n] \in LoneOnes(k)
  BY <1>2, <1>3, ListMember DEF LoneOnes
<1> QED
  BY <1>1, <1>4 DEF FingersOK, FingersLookedAt, Looking, Covered
-----------------------------------------------------------------------------
(* The order of the processors *)

LEMMA QueueInit == TInit => Queue
<1> SUFFICES ASSUME TInit PROVE Queue
  OBVIOUS
<1>1. PICK inst \in Installations : processors = inst.processors
  BY DEF TInit
<1>2. inst.processors \in Seq(STRING) \ {<<>>}
  BY InstallationsAssumption
<1>3. \A m, n \in DOMAIN inst.processors : inst.processors[m] = inst.processors[n] => m = n
  BY InstallationsAssumption
<1>4. \A n \in DOMAIN inst.processors :
        /\ inst.processors[n] = "Contour" =>
             \E m \in DOMAIN inst.processors : m > n /\ inst.processors[m] = "ContourCompute"
        /\ inst.processors[n] = "ContourCompute" =>
             \E m \in DOMAIN inst.processors : m < n /\ inst.processors[m] = "Contour"
  BY InstallationsAssumption
<1> QED
  BY <1>1, <1>2, <1>3, <1>4 DEF Queue

(* The end of one processor is the start of the next or of none. *)
LEMMA FinishMoves ==
  ASSUME Queue, at \in DOMAIN processors, Finish
  PROVE  /\ Queue' /\ UNCHANGED processors /\ todo' = <<>>
         /\ \/ pc' = "idle" /\ at = Len(processors)
            \/ pc' = "start" /\ at' = at + 1 /\ at' \in DOMAIN processors
         /\ ToSearch' <=> \E n \in DOMAIN processors : processors[n] = "Contour" /\ n > at
         /\ ToLook' <=> \E n \in DOMAIN processors : processors[n] = "ContourCompute" /\ n > at
<1>1. PICK len : len = Len(processors)
  OBVIOUS
<1>2. len \in Nat /\ DOMAIN processors = 1 .. len /\ at \in 1 .. len
  BY <1>1 DEF Queue
<1>3. /\ processors' = processors /\ todo' = <<>>
      /\ IF at = len THEN at' = 0 /\ pc' = "idle" ELSE at' = at + 1 /\ pc' = "start"
  BY <1>1 DEF Finish
<1>4. Queue'
  BY <1>3 DEF Queue
<1>5. \A n \in DOMAIN processors : (at' # 0 /\ (n > at' \/ (n = at' /\ pc' = "start"))) <=> n > at
  BY <1>2, <1>3
<1>6. pc' # "search"
  BY <1>3
<1>7. ToSearch' <=> \E n \in DOMAIN processors : processors[n] = "Contour" /\ n > at
  BY <1>3, <1>5, <1>6 DEF ToSearch, Ahead
<1>8. ToLook' <=> \E n \in DOMAIN processors : processors[n] = "ContourCompute" /\ n > at
  BY <1>3, <1>5 DEF ToLook, Ahead
<1> QED
  BY <1>1, <1>2, <1>3, <1>4, <1>7, <1>8

(* What is ahead while a processor runs that is not one of the two. *)
LEMMA AheadOfOthers ==
  ASSUME Queue, at \in DOMAIN processors, processors[at] \notin {"Contour", "ContourCompute"}
  PROVE  /\ ToSearch <=> \E n \in DOMAIN processors : processors[n] = "Contour" /\ n > at
         /\ ToLook <=> \E n \in DOMAIN processors : processors[n] = "ContourCompute" /\ n > at
<1>1. at # 0
  BY DEF Queue
<1> QED
  BY <1>1 DEF ToSearch, ToLook, Ahead

LEMMA AheadOfSearch ==
  ASSUME Queue, at \in DOMAIN processors, processors[at] = "Contour"
  PROVE  /\ ~\E n \in DOMAIN processors : processors[n] = "Contour" /\ n > at
         /\ \E n \in DOMAIN processors : processors[n] = "ContourCompute" /\ n > at
         /\ pc = "start" => ToSearch
<1>1. at \in Nat /\ at # 0
  BY DEF Queue
<1>2. ASSUME NEW n \in DOMAIN processors, processors[n] = "Contour", n > at
      PROVE  FALSE
  <2>1. n = at
    BY <1>2 DEF Queue
  <2> QED
    BY <1>1, <1>2, <2>1
<1>3. \E n \in DOMAIN processors : processors[n] = "ContourCompute" /\ n > at
  BY DEF Queue
<1>4. pc = "start" => ToSearch
  BY <1>1 DEF ToSearch, Ahead
<1> QED
  BY <1>2, <1>3, <1>4

LEMMA AheadOfLook ==
  ASSUME Queue, at \in DOMAIN processors, processors[at] = "ContourCompute"
  PROVE  /\ ~\E n \in DOMAIN processors : processors[n] = "Contour" /\ n > at
         /\ ~\E n \in DOMAIN processors : processors[n] = "ContourCompute" /\ n > at
         /\ pc = "start" => ToLook /\ ~ToSearch
<1>1. at \in Nat /\ at # 0 /\ DOMAIN processors \subseteq Nat
  BY DEF Queue
<1>2. PICK m \in DOMAIN processors : m < at /\ processors[m] = "Contour"
  BY DEF Queue
<1>3. \A n \in DOMAIN processors : processors[n] = "Contour" => n = m
  BY <1>2 DEF Queue
<1>4. \A n \in DOMAIN processors : processors[n] = "ContourCompute" => n = at
  BY DEF Queue
<1>5. ~(m > at) /\ m # at
  BY <1>1, <1>2
<1>6. pc = "start" => ToLook
  BY <1>1 DEF ToLook, Ahead
<1>7. ~ToSearch
  BY <1>3, <1>5 DEF ToSearch, Ahead
<1> QED
  BY <1>1, <1>3, <1>4, <1>5, <1>6, <1>7
-----------------------------------------------------------------------------
(* Counters *)

LEMMA LimitIs == Limit \in Nat /\ Limit = SkippableFrames + 1 /\ SkippableFrames \in Nat
  BY SkippableFramesAssumption DEF Limit

LEMMA StillTimed ==
  ASSUME UNCHANGED <<touches, missing, scanned>>
  PROVE  \A k \in Keys : /\ AllBefore(k)' <=> AllBefore(k)
                         /\ AllDue(k)' <=> AllDue(k)
                         /\ AllDone(k)' <=> AllDone(k)
<1> TAKE k \in Keys
<1>1. \A t : Before(k, t)' <=> Before(k, t)
  BY DEF Before
<1>2. \A t : Due(k, t)' <=> Due(k, t)
  BY DEF Due
<1>3. \A t : Done(k, t)' <=> Done(k, t)
  BY DEF Done
<1> QED
  BY <1>1, <1>2, <1>3 DEF AllBefore, AllDue, AllDone

(* A touch that nobody looked at, nor its cursor. *)
LEMMA SameTime ==
  ASSUME NEW k, NEW t, scanned'[k] = scanned[k], missing'[t.tCur] = missing[t.tCur]
  PROVE  Before(k, t)' = Before(k, t) /\ Due(k, t)' = Due(k, t) /\ Done(k, t)' = Done(k, t)
  BY DEF Before, Due, Done

LEMMA SameTouches ==
  ASSUME NEW k \in Keys, touches'[k] = touches[k], scanned'[k] = scanned[k],
         \A n \in DOMAIN touches[k] : missing'[touches[k][n].tCur] = missing[touches[k][n].tCur]
  PROVE  /\ AllBefore(k) => AllBefore(k)'
         /\ AllDue(k) => AllDue(k)'
         /\ AllDone(k) => AllDone(k)'
<1>1. ASSUME NEW n \in DOMAIN touches[k]
      PROVE  /\ Before(k, touches[k][n])' = Before(k, touches[k][n])
             /\ Due(k, touches[k][n])' = Due(k, touches[k][n])
             /\ Done(k, touches[k][n])' = Done(k, touches[k][n])
  BY DEF Before, Due, Done
<1> QED
  BY <1>1 DEF AllBefore, AllDue, AllDone

(* What is known of a touch and its cursor. *)
LEMMA TouchFacts ==
  ASSUME LoopTypes, Paired, Histories, NEW k \in Keys, NEW n \in DOMAIN touches[k]
  PROVE  /\ touches[k][n] \in TouchSet
         /\ touches[k][n].tCur \in DOMAIN missing
         /\ missing[touches[k][n].tCur] \in 0 .. Limit + 1
         /\ scanned[k] \in 0 .. Limit + 1
<1>1. touches[k] \in Seq(TouchSet)
  BY DEF LoopTypes, TouchSet
<1>2. touches[k][n].tCur \in DOMAIN missing
  BY DEF Paired, Histories
<1> QED
  BY <1>1, <1>2, ListMember DEF Histories

(* A picture passes. *)
LEMMA PicturePasses ==
  ASSUME NEW k, NEW t \in TouchSet, Done(k, t), scanned[k] \in 0 .. Limit + 1,
         missing[t.tCur] \in 0 .. Limit + 1,
         scanned'[k] = scanned[k], missing'[t.tCur] = Capped(missing[t.tCur] + 1)
  PROVE  Before(k, t)'
<1>1. PICK d, m, s \in Int : d = t.deathCounter /\ m = missing[t.tCur] /\ s = scanned[k]
  BY LimitIs DEF TouchSet
<1>2. PICK m2 : m2 = missing'[t.tCur]
  OBVIOUS
<1>3. d \in 0 .. SkippableFrames /\ d <= m /\ (m <= d \/ s <= d)
  BY <1>1 DEF Done
<1>4. m2 = IF m + 1 > Limit THEN Limit + 1 ELSE m + 1
  BY <1>1, <1>2 DEF Capped
<1>5. d \in 0 .. SkippableFrames /\ d < m2 /\ (m2 <= d + 1 \/ s <= d)
  BY <1>1, <1>3, <1>4, LimitIs
<1> QED
  BY <1>1, <1>2, <1>5 DEF Before

(* A region was searched, or it was not in this picture. *)
LEMMA SearchPasses ==
  ASSUME NEW k, NEW t \in TouchSet, Before(k, t), scanned[k] \in 0 .. Limit + 1,
         missing[t.tCur] \in 0 .. Limit + 1,
         scanned'[k] = 0 \/ scanned'[k] = Capped(scanned[k] + 1), missing' = missing
  PROVE  t.deathCounter # -1 /\ Due(k, t)'
<1>1. PICK d, m, s \in Int : d = t.deathCounter /\ m = missing[t.tCur] /\ s = scanned[k]
  BY LimitIs DEF TouchSet
<1>2. PICK s2 : s2 = scanned'[k]
  OBVIOUS
<1>3. d \in 0 .. SkippableFrames /\ d < m /\ (m <= d + 1 \/ s <= d)
  BY <1>1 DEF Before
<1>4. s2 = 0 \/ s2 = IF s + 1 > Limit THEN Limit + 1 ELSE s + 1
  BY <1>1, <1>2 DEF Capped
<1>5. d \in -1 .. SkippableFrames /\ d # -1 /\ d < m /\ (m <= d + 1 \/ s2 <= d + 1)
  BY <1>1, <1>3, <1>4, LimitIs
<1> QED
  BY <1>1, <1>2, <1>5 DEF Due

(* A region is not looked at that was not searched. *)
LEMMA NotLookedAtIsDone ==
  ASSUME NEW k, NEW t \in TouchSet, Due(k, t), t.deathCounter # -1, scanned[k] = 0,
         missing[t.tCur] \in 0 .. Limit + 1
  PROVE  Done(k, t)
<1>1. PICK d, m \in Int : d = t.deathCounter /\ m = missing[t.tCur]
  BY LimitIs DEF TouchSet
<1>2. d \in -1 .. SkippableFrames /\ d < m /\ d # -1
  BY <1>1 DEF Due
<1>3. d \in 0 .. SkippableFrames /\ d <= m /\ 0 <= d
  BY <1>1, <1>2, LimitIs
<1> QED
  BY <1>1, <1>3 DEF Done

(* A touch that has no finger and stays is a picture older. *)
LEMMA OlderIsDone ==
  ASSUME NEW k, NEW t \in TouchSet, NEW u, Due(k, t), t.deathCounter + 1 < Limit,
         u = [bounds |-> t.bounds, deathCounter |-> t.deathCounter + 1, tCur |-> t.tCur],
         scanned[k] \in 0 .. Limit + 1, missing[t.tCur] \in 0 .. Limit + 1
  PROVE  Done(k, u)
<1>1. PICK d, m, s \in Int : d = t.deathCounter /\ m = missing[t.tCur] /\ s = scanned[k]
  BY LimitIs DEF TouchSet
<1>2. d \in -1 .. SkippableFrames /\ d < m /\ (m <= d + 1 \/ s <= d + 1) /\ d + 1 < Limit
  BY <1>1 DEF Due
<1>3. u.deathCounter = d + 1 /\ u.tCur = t.tCur
  BY <1>1
<1>4. d + 1 \in 0 .. SkippableFrames /\ d + 1 <= m /\ (m <= d + 1 \/ s <= d + 1)
  BY <1>1, <1>2, LimitIs
<1> QED
  BY <1>1, <1>3, <1>4 DEF Done

(* One that goes has none for as many pictures as it may. *)
LEMMA ExpiresLate ==
  ASSUME NEW k, NEW t \in TouchSet, Due(k, t), t.deathCounter + 1 >= Limit,
         missing[t.tCur] \in 0 .. Limit + 1
  PROVE  missing[t.tCur] >= Limit
<1>1. PICK d, m \in Int : d = t.deathCounter /\ m = missing[t.tCur]
  BY LimitIs DEF TouchSet
<1>2. d \in -1 .. SkippableFrames /\ d < m /\ d + 1 >= Limit
  BY <1>1 DEF Due
<1>3. m >= Limit
  BY <1>1, <1>2, LimitIs
<1> QED
  BY <1>1, <1>3
-----------------------------------------------------------------------------
(* Positions, histories *)

LEMMA TimeTypesInit == TInit => TimeTypes
<1> SUFFICES ASSUME TInit PROVE TimeTypes
  OBVIOUS
<1>1. Queue
  BY QueueInit
<1>2. pc = "idle" /\ todo = <<>> /\ touches = [k \in Keys |-> <<>>]
  BY DEF TInit
<1>3. Position /\ Distinct(todo) /\ TouchesNeedLooks
  BY <1>2 DEF Position, Distinct, TouchesNeedLooks
<1>4. Histories
  <2>1. cursors.live = {} /\ missing = EmptyMap /\ scanned = [k \in Keys |-> 0]
    BY DEF TInit, MInit, EmptyPool
  <2>2. DOMAIN missing = {} /\ Sids(cursors.live) = {}
    BY <2>1 DEF EmptyMap, Sids
  <2>3. scanned \in [Keys -> 0 .. Limit + 1]
    BY <2>1, LimitIs
  <2> QED
    BY <2>2, <2>3 DEF Histories
<1> QED
  BY <1>1, <1>3, <1>4 DEF TimeTypes

LEMMA QueueStays == [TNext]_tvars => UNCHANGED processors
  BY DEF TNext, tvars, shared, control, NewFrame, Crash, DetectMarkers, StartMarkers, AgeMarker,
     PlaceMarkers, StartContours, SearchPicture, SearchRegion, EndContours, StartTouches, NextKey,
     MatchTouch, PassTouch, EndCull, AddPotential, EndTouches, Finish, Die, Goto

LEMMA PositionNext == Queue /\ Position /\ [TNext]_tvars => Position'
<1> SUFFICES ASSUME Queue, Position, [TNext]_tvars PROVE Position'
  OBVIOUS
<1>0. processors' = processors
  BY QueueStays
<1>1. CASE UNCHANGED <<pc, at>>
  BY <1>0, <1>1 DEF Position
<1>2. CASE NewFrame
  <2>1. at' = 1 /\ pc' = "start"
    BY <1>2 DEF NewFrame
  <2>2. 1 \in DOMAIN processors
    BY DEF Queue
  <2> QED
    BY <1>0, <2>1, <2>2 DEF Position
<1>3. CASE Die
  BY <1>3 DEF Die, Position
<1>4. CASE Finish /\ pc \in {"start", "place", "search", "key"}
  <2>1. at \in DOMAIN processors
    BY <1>4 DEF Position
  <2> QED
    BY <1>0, <1>4, <2>1, FinishMoves DEF Position
<1>5. CASE /\ pc \in {"start", "age", "place", "search", "key", "cull", "add"}
           /\ pc' \in {"age", "place", "search", "key", "cull", "add"}
           /\ at' = at
  BY <1>0, <1>5 DEF Position
<1>6. CASE DetectMarkers \/ SearchPicture \/ EndContours \/ EndTouches
  BY <1>4, <1>6 DEF DetectMarkers, SearchPicture, EndContours, EndTouches, Running
<1>7. CASE StartMarkers \/ AgeMarker \/ PlaceMarkers
  BY <1>4, <1>5, <1>7 DEF StartMarkers, AgeMarker, PlaceMarkers, Running, Goto
<1>8. CASE StartContours \/ SearchRegion
  BY <1>1, <1>3, <1>4, <1>5, <1>8 DEF StartContours, SearchRegion, Running
<1>9. CASE StartTouches \/ NextKey \/ EndCull
  BY <1>3, <1>5, <1>9 DEF StartTouches, NextKey, EndCull, Running, Goto
<1>10. CASE MatchTouch \/ PassTouch \/ AddPotential
  BY <1>1, <1>5, <1>10 DEF MatchTouch, PassTouch, AddPotential, Running, Goto
<1>11. CASE Crash
  BY <1>3, <1>11 DEF Crash
<1> QED
  BY <1>1, <1>2, <1>6, <1>7, <1>8, <1>9, <1>10, <1>11 DEF TNext, tvars, control

LEMMA TodoStaysDistinct ==
  LoopTypes /\ Distinct(todo) /\ [TNext]_tvars => Distinct(todo)'
<1> SUFFICES ASSUME LoopTypes, Distinct(todo), [TNext]_tvars PROVE Distinct(todo')
  OBVIOUS
<1>1. CASE todo' = todo
  BY <1>1
<1>2. CASE Finish
  BY <1>2 DEF Finish, Distinct
<1>3. CASE todo # <<>> /\ todo' = Tail(todo)
  BY <1>3, TailFacts DEF LoopTypes
<1>4. CASE StartContours \/ StartTouches
  <2>1. todo' = todo \/ todo' = InOrder(regions) \/ todo' = InOrder(contours) \/ todo' = <<Global>>
    BY <1>4 DEF StartContours, StartTouches
  <2>2. Distinct(<<Global>>)
    BY DEF Distinct
  <2> QED
    BY <1>1, <2>1, <2>2, NamesInOrder
<1>5. CASE AddPotential
  <2>1. todo # <<>>
    BY <1>5 DEF AddPotential, Running, LoopTypes
  <2> QED
    BY <1>1, <1>3, <1>5, <2>1 DEF AddPotential
<1>6. CASE SearchRegion
  BY <1>1, <1>2, <1>3, <1>6 DEF SearchRegion, Die
<1>7. CASE DetectMarkers \/ SearchPicture \/ EndContours \/ EndTouches \/ PlaceMarkers
  BY <1>1, <1>2, <1>7 DEF DetectMarkers, SearchPicture, EndContours, EndTouches, PlaceMarkers
<1> QED
  BY <1>1, <1>4, <1>5, <1>6, <1>7 DEF TNext, tvars, control, NewFrame, Crash, Die, StartMarkers,
     AgeMarker, NextKey, MatchTouch, PassTouch, EndCull, Goto

LEMMA NeedLooksNext ==
  Queue /\ Position /\ TouchesNeedLooks /\ [TNext]_tvars => TouchesNeedLooks'
<1> SUFFICES ASSUME Queue, Position, TouchesNeedLooks, [TNext]_tvars PROVE TouchesNeedLooks'
  OBVIOUS
<1>0. processors' = processors
  BY QueueStays
<1>1. CASE touches' = touches
  BY <1>0, <1>1 DEF TouchesNeedLooks
<1>2. CASE MatchTouch \/ PassTouch \/ AddPotential
  <2>1. pc \in {"cull", "add"} /\ processors[at] = "ContourCompute"
    BY <1>2 DEF MatchTouch, PassTouch, AddPotential, Running
  <2>2. at \in DOMAIN processors
    BY <2>1 DEF Position
  <2> QED
    BY <1>0, <2>1, <2>2 DEF TouchesNeedLooks
<1> QED
  BY <1>1, <1>2 DEF TNext, tvars, shared, NewFrame, Crash, DetectMarkers, StartMarkers, AgeMarker,
     PlaceMarkers, StartContours, SearchPicture, SearchRegion, EndContours, StartTouches, NextKey,
     EndCull, EndTouches

LEMMA CappedIs ==
  ASSUME NEW n \in 0 .. Limit + 1
  PROVE  Capped(n + 1) \in 0 .. Limit + 1
  BY LimitIs DEF Capped

(* Steps that leave the fingers alone. *)
LEMMA CursorsStay ==
  ASSUME [TNext]_tvars, ~PassTouch, ~AddPotential
  PROVE  cursors' = cursors
<1>1. CASE UNCHANGED mvars \/ InitFrame
  BY <1>1, StillSteps DEF Still
<1>2. CASE MatchTouch
  <2>1. UNCHANGED mvars \/ \E e : Update("cursor", e)
    BY <1>2 DEF MatchTouch
  <2> QED
    BY <2>1, StillSteps DEF Still
<1>3. CASE AgeMarker \/ PlaceMarkers
  BY <1>3 DEF AgeMarker, PlaceMarkers, PlaceMarker, Expire, Beyond, AddObject, Take, TakeOff,
     Update, mvars
<1> QED
  BY <1>1, <1>2, <1>3 DEF TNext, tvars, NewFrame, Crash, DetectMarkers, StartMarkers, StartContours,
     SearchPicture, SearchRegion, EndContours, StartTouches, NextKey, EndCull, EndTouches

LEMMA ScannedNext ==
  ASSUME Histories, LoopTypes, [TNext]_tvars
  PROVE  scanned' \in [Keys -> 0 .. Limit + 1]
<1>0. scanned \in [Keys -> 0 .. Limit + 1] /\ 0 \in 0 .. Limit + 1
  BY LimitIs DEF Histories
<1>1. CASE scanned' = scanned
  BY <1>0, <1>1
<1>2. CASE SearchPicture
  <2>1. scanned' = [k \in Keys |-> IF k = Global THEN Capped(scanned[k] + 1) ELSE 0]
    BY <1>2 DEF SearchPicture
  <2>2. \A k \in Keys : Capped(scanned[k] + 1) \in 0 .. Limit + 1
    BY <1>0, CappedIs
  <2> QED
    BY <1>0, <2>1, <2>2
<1>3. ASSUME NEW rest, Unsearched(rest)
      PROVE  scanned' \in [Keys -> 0 .. Limit + 1]
  BY <1>0, <1>3 DEF Unsearched
<1>4. CASE SearchRegion
  <2>1. CASE Unsearched(todo)
    BY <1>3, <2>1
  <2>2. CASE Searched(Head(todo))
    <3>1. PICK k : k = Head(todo)
      OBVIOUS
    <3>2. k \in Keys
      BY <1>4, <3>1, TailFacts DEF SearchRegion, LoopTypes
    <3>3. Capped(scanned[k] + 1) \in 0 .. Limit + 1
      BY <1>0, <3>2, CappedIs
    <3>4. scanned' = [scanned EXCEPT ![k] = Capped(scanned[k] + 1)]
      BY <2>2, <3>1 DEF Searched
    <3> QED
      BY <1>0, <3>3, <3>4
  <2> QED
    BY <1>1, <1>4, <2>1, <2>2 DEF SearchRegion
<1>5. CASE EndContours
  BY <1>3, <1>5 DEF EndContours
<1> QED
  BY <1>1, <1>2, <1>4, <1>5 DEF TNext, tvars, history, NewFrame, Crash, DetectMarkers, StartMarkers,
     AgeMarker, PlaceMarkers, StartContours, StartTouches, NextKey, MatchTouch, PassTouch, EndCull,
     AddPotential, EndTouches

(* What happens to the pictures without a finger. *)
LEMMA MissingIs ==
  ASSUME [TNext]_tvars, ~NewFrame, ~MatchTouch, ~PassTouch, ~AddPotential
  PROVE  missing' = missing
  BY DEF TNext, tvars, history, Crash, DetectMarkers, StartMarkers, AgeMarker, PlaceMarkers,
     StartContours, SearchPicture, SearchRegion, EndContours, StartTouches, NextKey, EndCull, EndTouches

LEMMA HistoriesNext ==
  MapTypes /\ LoopTypes /\ RegistryIs /\ Paired /\ Histories /\ [TNext]_tvars => Histories'
<1> SUFFICES ASSUME MapTypes, LoopTypes, RegistryIs, Paired, Histories, [TNext]_tvars
             PROVE  Histories'
  OBVIOUS
<1>1. scanned' \in [Keys -> 0 .. Limit + 1]
  BY ScannedNext
<1>2. /\ DOMAIN missing = Sids(cursors.live) /\ 0 \in 0 .. Limit + 1
      /\ \A s \in DOMAIN missing : missing[s] \in 0 .. Limit + 1
  BY LimitIs DEF Histories
<1>3. CASE NewFrame
  <2>1. /\ missing' = [s \in Sids(cursors.live) |-> Capped(missing[s] + 1)]
        /\ cursors' = cursors
    BY <1>3, StillSteps DEF NewFrame, Still
  <2>2. \A s \in DOMAIN missing : Capped(missing[s] + 1) \in 0 .. Limit + 1
    BY <1>2, CappedIs
  <2> QED
    BY <1>1, <1>2, <2>1, <2>2 DEF Histories
<1>4. CASE MatchTouch
  <2>0. pc = "cull"
    BY <1>4 DEF MatchTouch, Running
  <2>1. PICK k \in Keys, n \in 1 .. Len(potentials), t \in TouchSet :
          /\ t = touches[k][i] /\ i \in DOMAIN touches[k]
          /\ missing' = IF scanned[k] = 0 THEN missing ELSE Put(missing, t.tCur, 0)
          /\ UNCHANGED mvars \/ (\E e : Update("cursor", e))
    BY <1>4, MatchIs
  <2>2. cursors' = cursors
    BY <2>1, StillSteps DEF Still
  <2>3. t.tCur \in DOMAIN missing
    BY <2>1, TouchFacts
  <2>4. PICK s : s = t.tCur
    OBVIOUS
  <2>5. missing' = missing \/ missing' = [x \in DOMAIN missing \cup {s} |-> IF x = s THEN 0 ELSE missing[x]]
    BY <2>1, <2>4 DEF Put
  <2>6. /\ DOMAIN missing' = DOMAIN missing
        /\ \A x \in DOMAIN missing' : missing'[x] \in 0 .. Limit + 1
    BY <1>2, <2>3, <2>4, <2>5
  <2> QED
    BY <1>1, <1>2, <2>2, <2>6 DEF Histories
<1>5. CASE PassTouch
  <2>1. PICK k \in Keys, t \in TouchSet :
          \/ missing' = missing /\ UNCHANGED mvars
          \/ /\ missing' = Erase(missing, t.tCur)
             /\ \E e \in cursors.live : e.sid = t.tCur /\ Take("cursor", e)
    BY <1>5, PassIs
  <2>2. CASE missing' = missing /\ UNCHANGED mvars
    BY <1>1, <1>2, <2>2, StillSteps DEF Histories, Still
  <2>3. CASE /\ missing' = Erase(missing, t.tCur)
             /\ \E e \in cursors.live : e.sid = t.tCur /\ Take("cursor", e)
    <3>1. PICK e \in cursors.live : e.sid = t.tCur /\ Take("cursor", e)
      BY <2>3
    <3>2. Sids(cursors'.live) = Sids(cursors.live) \ {t.tCur}
      <4>1. cursors'.live = cursors.live \ {e}
        BY <3>1, CursorTaken
      <4> QED
        BY <3>1, <4>1, SidsWithout
    <3>3. /\ DOMAIN missing' = DOMAIN missing \ {t.tCur}
          /\ \A s \in DOMAIN missing' : missing'[s] = missing[s]
      BY <2>3 DEF Erase
    <3> QED
      BY <1>1, <1>2, <3>2, <3>3 DEF Histories
  <2> QED
    BY <2>1, <2>2, <2>3
<1>6. CASE AddPotential
  <2>1. CASE i > Len(potentials)
    <3>1. UNCHANGED <<mvars, missing>>
      BY <1>6, <2>1 DEF AddPotential
    <3> QED
      BY <1>1, <1>2, <3>1, StillSteps DEF Histories, Still
  <2>2. CASE ~(i > Len(potentials))
    <3>1. missing' = Put(missing, sessionID + 1, 0) /\ AddCursor
      BY <1>6, <2>2, AddIs
    <3>2. PICK new : new = sessionID + 1
      OBVIOUS
    <3>3. Sids(cursors'.live) = Sids(cursors.live) \cup {new}
      <4>1. PICK e : e.sid = sessionID + 1 /\ cursors'.live = cursors.live \cup {e}
        BY <3>1, CursorAdded
      <4> QED
        BY <3>2, <4>1 DEF Sids
    <3>4. missing' = [x \in DOMAIN missing \cup {new} |-> IF x = new THEN 0 ELSE missing[x]]
      BY <3>1, <3>2 DEF Put
    <3>5. /\ DOMAIN missing' = DOMAIN missing \cup {new}
          /\ \A x \in DOMAIN missing' : missing'[x] \in 0 .. Limit + 1
      BY <1>2, <3>4
    <3> QED
      BY <1>1, <1>2, <3>3, <3>5 DEF Histories
  <2> QED
    BY <2>1, <2>2
<1>7. CASE ~NewFrame /\ ~MatchTouch /\ ~PassTouch /\ ~AddPotential
  <2>1. missing' = missing /\ cursors' = cursors
    BY <1>7, MissingIs, CursorsStay
  <2> QED
    BY <1>1, <1>2, <2>1 DEF Histories
<1> QED
  BY <1>3, <1>4, <1>5, <1>6, <1>7

LEMMA TimeTypesNext ==
  TouchesOK /\ RegistryIs /\ TimeTypes /\ [TNext]_tvars => TimeTypes'
<1> SUFFICES ASSUME TouchesOK, RegistryIs, TimeTypes, [TNext]_tvars PROVE TimeTypes'
  OBVIOUS
<1>1. Queue'
  BY QueueStays DEF TimeTypes, Queue
<1>2. Position' /\ Distinct(todo)' /\ TouchesNeedLooks' /\ Histories'
  BY PositionNext, TodoStaysDistinct, NeedLooksNext, HistoriesNext DEF TimeTypes, TouchesOK
<1> QED
  BY <1>1, <1>2 DEF TimeTypes
-----------------------------------------------------------------------------
(* Fingers and counters *)

LEMMA TimesInit == TInit => TimesOK
<1> SUFFICES ASSUME TInit PROVE TimesOK
  OBVIOUS
<1>1. pc = "idle" /\ touches = [k \in Keys |-> <<>>]
  BY DEF TInit
<1>2. \A k \in Keys : AllDone(k)
  BY <1>1 DEF AllDone
<1> QED
  BY <1>1, <1>2 DEF TimesOK, PassingTimes, SearchTimes, LookTimes, TurnTimes, Passing, Looking

(* What is left to say when the processor is none of the two. *)
LEMMA OnlyPassing ==
  ASSUME pc' \in {"idle", "start", "age", "place"}, PassingTimes'
  PROVE  TimesOK'
  BY DEF TimesOK, SearchTimes, LookTimes, TurnTimes, Looking

LEMMA DeadIsTimed ==
  ASSUME pc' = "dead"
  PROVE  TimesOK'
  BY DEF TimesOK, PassingTimes, SearchTimes, LookTimes, TurnTimes, Looking, Passing

LEMMA FrameKeepsTimes ==
  ASSUME TouchesOK, TimeTypes, TimesOK, NewFrame
  PROVE  TimesOK'
<1>1. /\ pc = "idle" /\ pc' = "start" /\ at' = 1 /\ UNCHANGED <<processors, touches, scanned>>
      /\ missing' = [s \in Sids(cursors.live) |-> Capped(missing[s] + 1)]
  BY DEF NewFrame
<1>2. LoopTypes /\ Paired /\ Histories /\ Queue /\ TouchesNeedLooks
  BY DEF TouchesOK, TimeTypes
<1>3. CASE \E n \in DOMAIN processors : processors[n] = "Contour"
  <2>1. ToSearch'
    <3>1. PICK n \in DOMAIN processors : processors[n] = "Contour"
      BY <1>3
    <3>2. n > 1 \/ n = 1
      BY <1>2 DEF Queue
    <3> QED
      BY <1>1, <3>1, <3>2 DEF ToSearch, Ahead
  <2>2. ASSUME NEW k \in Keys PROVE AllBefore(k)'
    <3>1. ASSUME NEW n \in DOMAIN touches[k] PROVE Before(k, touches[k][n])'
      <4>1. PICK t : t = touches[k][n]
        OBVIOUS
      <4>2. /\ t \in TouchSet /\ t.tCur \in DOMAIN missing
            /\ missing[t.tCur] \in 0 .. Limit + 1 /\ scanned[k] \in 0 .. Limit + 1
        BY <1>2, <4>1, TouchFacts
      <4>3. Done(k, t)
        BY <1>1, <4>1 DEF TimesOK, PassingTimes, AllDone
      <4>4. missing'[t.tCur] = Capped(missing[t.tCur] + 1)
        BY <1>1, <1>2, <4>2 DEF Histories
      <4>5. Before(k, t)'
        BY <1>1, <4>2, <4>3, <4>4, PicturePasses
      <4> QED
        BY <1>1, <4>1, <4>5
    <3> QED
      BY <1>1, <3>1 DEF AllBefore
  <2> QED
    BY <1>1, <2>1, <2>2, OnlyPassing DEF PassingTimes
<1>4. CASE ~\E n \in DOMAIN processors : processors[n] = "Contour"
  <2>1. ~\E n \in DOMAIN processors : processors[n] = "ContourCompute"
    BY <1>2, <1>4 DEF Queue
  <2>2. ~ToLook'
    BY <1>1, <2>1 DEF ToLook, Ahead
  <2>3. ~ToSearch'
    BY <1>1, <1>4 DEF ToSearch, Ahead
  <2>4. \A k \in Keys : DOMAIN touches'[k] = {}
    BY <1>1, <1>2, <2>1 DEF TouchesNeedLooks
  <2>5. \A k \in Keys : AllDone(k)'
    BY <2>4 DEF AllDone
  <2> QED
    BY <1>1, <2>2, <2>3, <2>5, OnlyPassing DEF PassingTimes
<1> QED
  BY <1>3, <1>4

(* A processor that is none of the two goes on or ends. *)
LEMMA OthersKeepTimes ==
  ASSUME TimeTypes, TimesOK, Passing, processors[at] \notin {"Contour", "ContourCompute"},
         UNCHANGED <<touches, missing, scanned, contours>>,
         \/ pc' \in {"age", "place"} /\ UNCHANGED <<processors, at>>
         \/ Finish
  PROVE  TimesOK'
<1>1. Queue /\ at \in DOMAIN processors
  BY DEF TimeTypes, Position, Passing
<1>2. \A k \in Keys : /\ AllBefore(k)' <=> AllBefore(k)
                      /\ AllDue(k)' <=> AllDue(k)
                      /\ AllDone(k)' <=> AllDone(k)
  BY StillTimed
<1>3. Looked' = Looked /\ scanned' = scanned
  BY DEF Looked
<1>4. /\ ToSearch <=> \E n \in DOMAIN processors : processors[n] = "Contour" /\ n > at
      /\ ToLook <=> \E n \in DOMAIN processors : processors[n] = "ContourCompute" /\ n > at
  BY <1>1, AheadOfOthers
<1>5. CASE pc' \in {"age", "place"} /\ UNCHANGED <<processors, at>>
  <2>1. (ToSearch' <=> ToSearch) /\ (ToLook' <=> ToLook)
    BY <1>4, <1>5 DEF ToSearch, ToLook, Ahead
  <2>2. PassingTimes'
    BY <1>2, <1>3, <1>5, <2>1 DEF TimesOK, PassingTimes, Passing
  <2> QED
    BY <1>5, <2>2, OnlyPassing
<1>6. CASE Finish
  <2>1. /\ \/ pc' = "idle" /\ at = Len(processors)
           \/ pc' = "start"
        /\ (ToSearch' <=> ToSearch) /\ (ToLook' <=> ToLook)
    BY <1>1, <1>4, <1>6, FinishMoves
  <2>2. CASE pc' = "start"
    <3>1. PassingTimes'
      BY <1>2, <1>3, <2>1, <2>2 DEF TimesOK, PassingTimes, Passing
    <3> QED
      BY <2>2, <3>1, OnlyPassing
  <2>3. CASE pc' = "idle" /\ at = Len(processors)
    <3>1. \A n \in DOMAIN processors : ~(n > at)
      BY <1>1, <2>3 DEF Queue
    <3>2. ~ToSearch /\ ~ToLook
      BY <1>4, <3>1
    <3>3. PassingTimes'
      BY <1>2, <2>3, <3>2 DEF TimesOK, PassingTimes, Passing
    <3> QED
      BY <2>3, <3>3, OnlyPassing
  <2> QED
    BY <2>1, <2>2, <2>3
<1> QED
  BY <1>5, <1>6

LEMMA CommandsKeepTimes ==
  ASSUME TouchesOK, TimeTypes, TimesOK, StartContours
  PROVE  TimesOK'
<1>1. /\ pc = "start" /\ processors[at] = "Contour" /\ Passing
      /\ UNCHANGED <<touches, missing, scanned, processors, at>>
  BY DEF StartContours, Running, history, Passing
<1>2. Queue /\ at \in DOMAIN processors
  BY <1>1 DEF TimeTypes, Position
<1>3. ToSearch
  BY <1>1, <1>2, AheadOfSearch
<1>4. \A k \in Keys : AllBefore(k) /\ AllBefore(k)'
  BY <1>1, <1>3, StillTimed DEF TimesOK, PassingTimes
<1>5. CASE regionMessages = <<>>
  <2>1. pc' = "search" /\ todo' = InOrder(regions) /\ regions' = regions
    BY <1>5 DEF StartContours
  <2>2. ToSet(todo') = DOMAIN regions
    BY <2>1, NamesInOrder DEF TouchesOK, MapTypes
  <2>3. DOMAIN regions \subseteq Keys
    BY KeysAre DEF TouchesOK, MapTypes
  <2>4. SearchTimes'
    BY <1>4, <2>1, <2>2, <2>3 DEF SearchTimes
  <2> QED
    BY <2>1, <2>4 DEF TimesOK, PassingTimes, LookTimes, TurnTimes, Looking, Passing
<1>6. CASE regionMessages # <<>>
  <2>1. pc' = pc
    BY <1>6 DEF StartContours
  <2>2. ToSearch'
    BY <1>1, <1>3, <2>1 DEF ToSearch, Ahead
  <2>3. PassingTimes'
    BY <1>1, <1>4, <2>1, <2>2 DEF PassingTimes
  <2> QED
    BY <1>1, <2>1, <2>3, OnlyPassing
<1> QED
  BY <1>5, <1>6

(* Every touch is due that is on the table when the search is over. *)
LEMMA SearchedIsDue ==
  ASSUME LoopTypes, Paired, Histories, NEW k \in Keys, AllBefore(k),
         scanned'[k] = 0 \/ scanned'[k] = Capped(scanned[k] + 1),
         UNCHANGED <<touches, missing>>
  PROVE  AllDue(k)'
<1>1. ASSUME NEW n \in DOMAIN touches[k]
      PROVE  touches[k][n].deathCounter # -1 /\ Due(k, touches[k][n])'
  <2>1. PICK t : t = touches[k][n]
    OBVIOUS
  <2>2. /\ t \in TouchSet /\ missing[t.tCur] \in 0 .. Limit + 1 /\ scanned[k] \in 0 .. Limit + 1
    BY <2>1, TouchFacts
  <2>3. Before(k, t)
    BY <2>1 DEF AllBefore
  <2>4. t.deathCounter # -1 /\ Due(k, t)'
    BY <2>2, <2>3, SearchPasses
  <2> QED
    BY <2>1, <2>4
<1> QED
  BY <1>1 DEF AllDue

LEMMA SearchEnds ==
  ASSUME Queue, Position, pc = "search", processors[at] = "Contour", Finish,
         \A k \in Keys : AllDue(k)' /\ (scanned'[k] # 0 => k \in Looked')
  PROVE  TimesOK'
<1>1. at \in DOMAIN processors
  BY DEF Position
<1>2. /\ ~\E n \in DOMAIN processors : processors[n] = "Contour" /\ n > at
      /\ \E n \in DOMAIN processors : processors[n] = "ContourCompute" /\ n > at
  BY <1>1, AheadOfSearch
<1>3. at # Len(processors)
  BY <1>2 DEF Queue
<1>4. pc' = "start" /\ ~ToSearch' /\ ToLook'
  BY <1>1, <1>2, <1>3, FinishMoves
<1>5. PassingTimes'
  BY <1>4 DEF PassingTimes
<1> QED
  BY <1>4, <1>5, OnlyPassing

LEMMA PictureKeepsTimes ==
  ASSUME TouchesOK, TimeTypes, TimesOK, SearchPicture
  PROVE  TimesOK'
<1>1. /\ pc = "search" /\ processors[at] = "Contour" /\ DOMAIN regions = {} /\ Finish
      /\ UNCHANGED <<touches, missing, contours>>
      /\ scanned' = [k \in Keys |-> IF k = Global THEN Capped(scanned[k] + 1) ELSE 0]
  BY DEF SearchPicture, Running
<1>2. LoopTypes /\ Paired /\ Histories /\ Queue /\ Position
  BY DEF TouchesOK, TimeTypes
<1>3. DOMAIN contours = {}
  BY <1>1 DEF TouchesOK, MapTypes
<1>4. Looked' = {Global}
  BY <1>1, <1>3 DEF Looked
<1>5. ASSUME NEW k \in Keys PROVE AllDue(k)' /\ (scanned'[k] # 0 => k \in Looked')
  <2>1. AllBefore(k)
    BY <1>1 DEF TimesOK, SearchTimes
  <2>2. scanned'[k] = 0 \/ scanned'[k] = Capped(scanned[k] + 1)
    BY <1>1
  <2>3. AllDue(k)'
    BY <1>1, <1>2, <2>1, <2>2, SearchedIsDue
  <2>4. scanned'[k] # 0 => k \in Looked'
    BY <1>1, <1>4
  <2> QED
    BY <2>3, <2>4
<1> QED
  BY <1>1, <1>2, <1>5, SearchEnds

(* The search of the regions ends, with some of them left or none. *)
LEMMA RegionsEnd ==
  ASSUME TouchesOK, TimeTypes, TimesOK, pc = "search", processors[at] = "Contour", Finish,
         Unsearched(todo), DOMAIN contours \subseteq DOMAIN contours', UNCHANGED <<touches, missing>>
  PROVE  TimesOK'
<1>1. LoopTypes /\ Paired /\ Histories /\ Queue /\ Position
  BY DEF TouchesOK, TimeTypes
<1>2. ASSUME NEW k \in Keys PROVE AllDue(k)' /\ (scanned'[k] # 0 => k \in Looked')
  <2>1. (\E n \in DOMAIN todo : todo[n] = k) <=> k \in ToSet(todo)
    BY <1>1, ListMember DEF LoopTypes
  <2>2. scanned'[k] = IF k = Global \/ k \notin DOMAIN regions \/ k \in ToSet(todo)
                      THEN 0 ELSE scanned[k]
    BY <2>1 DEF Unsearched
  <2>3. CASE k \in DOMAIN regions \ ToSet(todo)
    <3>1. AllDue(k) /\ Allocated(k)
      BY <2>3 DEF TimesOK, SearchTimes
    <3>2. k # Global
      BY <2>3, KeysAre DEF TouchesOK, MapTypes
    <3>3. scanned'[k] = scanned[k]
      BY <2>2, <2>3, <3>2
    <3>4. AllDue(k)'
      BY <3>1, <3>3, SameTouches
    <3>5. k \in Looked'
      BY <3>1 DEF Allocated, Looked
    <3> QED
      BY <3>4, <3>5
  <2>4. CASE k \notin DOMAIN regions \/ k \in ToSet(todo)
    <3>1. AllBefore(k) /\ scanned'[k] = 0
      BY <2>2, <2>4 DEF TimesOK, SearchTimes
    <3>2. AllDue(k)'
      BY <1>1, <3>1, SearchedIsDue
    <3> QED
      BY <3>1, <3>2
  <2> QED
    BY <2>3, <2>4
<1> QED
  BY <1>1, <1>2, SearchEnds

LEMMA RegionKeepsTimes ==
  ASSUME TouchesOK, TimeTypes, TimesOK, SearchRegion
  PROVE  TimesOK'
<1>1. /\ pc = "search" /\ processors[at] = "Contour" /\ todo # <<>>
      /\ UNCHANGED <<touches, missing, regions>>
  BY DEF SearchRegion, Running
<1>2. PICK k : k = Head(todo)
  OBVIOUS
<1>3. \/ Finish /\ Unsearched(todo) /\ (contours' = contours \/ contours' = Put(contours, k, Null))
      \/ Die
      \/ /\ Allocated(k) /\ \E view \in Views : contours' = [contours EXCEPT ![k] = view]
         /\ Searched(k)
         /\ todo' = Tail(todo) /\ pc' = pc
  BY <1>2 DEF SearchRegion
<1>4. CASE Die
  BY <1>4, DeadIsTimed DEF Die
<1>5. CASE Finish /\ Unsearched(todo) /\ (contours' = contours \/ contours' = Put(contours, k, Null))
  <2>1. DOMAIN contours \subseteq DOMAIN contours'
    BY <1>5 DEF Put
  <2> QED
    BY <1>1, <1>5, <2>1, RegionsEnd
<1>6. CASE /\ Allocated(k) /\ \E view \in Views : contours' = [contours EXCEPT ![k] = view]
           /\ Searched(k)
           /\ todo' = Tail(todo) /\ pc' = pc
  <2>1. PICK view \in Views : contours' = [contours EXCEPT ![k] = view]
    BY <1>6
  <2>2. LoopTypes /\ Paired /\ Histories /\ MapTypes /\ Distinct(todo)
    BY DEF TouchesOK, TimeTypes
  <2>3. /\ k \in Keys /\ ToSet(todo) = {k} \cup ToSet(Tail(todo)) /\ k \notin ToSet(Tail(todo))
        /\ ToSet(todo) \subseteq DOMAIN regions
    BY <1>1, <1>2, <2>2, TailFacts DEF LoopTypes
  <2>4. view # Null
    <3>1. view \in Seq(Nat \cup {Speck})
      BY RegionsAssumption
    <3>2. Len(Null) = 1 /\ Null[1] = -2 /\ -2 \notin Nat \cup {Speck}
      BY DEF Null, Speck
    <3> QED
      BY <3>1, <3>2
  <2>5. k \in DOMAIN contours
    BY <1>6 DEF Allocated
  <2>6. Allocated(k)' /\ \A l : l # k /\ Allocated(l) => Allocated(l)'
    BY <2>1, <2>4, <2>5 DEF Allocated
  <2>7. /\ scanned'[k] = Capped(scanned[k] + 1)
        /\ \A l \in Keys : l # k => scanned'[l] = scanned[l]
    BY <1>6, <2>2, <2>3 DEF Searched, Histories
  <2>8. \A l \in DOMAIN regions \ ToSet(todo) : AllDue(l) /\ Allocated(l)
    BY <1>1 DEF TimesOK, SearchTimes
  <2>9. \A l \in ToSet(todo) \cup (Keys \ DOMAIN regions) : AllBefore(l)
    BY <1>1 DEF TimesOK, SearchTimes
  <2>10. DOMAIN regions \subseteq Keys
    BY <2>2, KeysAre DEF MapTypes
  <2>11. AllDue(k)'
    BY <1>1, <2>2, <2>3, <2>7, <2>9, SearchedIsDue
  <2>12. \A l \in Keys : l # k => (AllDue(l) => AllDue(l)') /\ (AllBefore(l) => AllBefore(l)')
    BY <1>1, <2>7, SameTouches
  <2>13. ASSUME NEW l \in DOMAIN regions \ ToSet(Tail(todo)) PROVE AllDue(l)' /\ Allocated(l)'
    BY <2>3, <2>6, <2>8, <2>10, <2>11, <2>12
  <2>14. ASSUME NEW l \in ToSet(Tail(todo)) \cup (Keys \ DOMAIN regions) PROVE AllBefore(l)'
    <3>1. l \in Keys /\ l # k /\ l \in ToSet(todo) \cup (Keys \ DOMAIN regions)
      BY <2>3, <2>10
    <3> QED
      BY <2>9, <2>12, <3>1
  <2>15. SearchTimes'
    BY <1>1, <1>6, <2>13, <2>14 DEF SearchTimes
  <2> QED
    BY <1>1, <1>6, <2>15 DEF TimesOK, PassingTimes, LookTimes, TurnTimes, Looking, Passing
<1> QED
  BY <1>3, <1>4, <1>5, <1>6

LEMMA EndKeepsTimes ==
  ASSUME TouchesOK, TimeTypes, TimesOK, EndContours
  PROVE  TimesOK'
<1>1. /\ pc = "search" /\ processors[at] = "Contour" /\ todo = <<>> /\ Finish /\ Unsearched(<<>>)
      /\ UNCHANGED <<contours, touches, missing>>
  BY DEF EndContours, Running, shared
<1> QED
  BY <1>1, RegionsEnd

LEMMA StartTouchesKeepsTimes ==
  ASSUME TouchesOK, TimeTypes, TimesOK, StartTouches
  PROVE  TimesOK'
<1>1. /\ pc = "start" /\ processors[at] = "ContourCompute" /\ Passing
      /\ pc' = "key" /\ UNCHANGED <<touches, missing, scanned, contours>>
      /\ todo' = IF DOMAIN contours = {} THEN <<Global>> ELSE InOrder(contours)
  BY DEF StartTouches, Running, history, shared, Passing
<1>2. Queue /\ at \in DOMAIN processors /\ LoopTypes /\ Paired /\ Histories /\ MapTypes
  BY <1>1 DEF TimeTypes, Position, TouchesOK
<1>3. ToLook /\ ~ToSearch
  BY <1>1, <1>2, AheadOfLook
<1>4. \A k \in Keys : AllDue(k) /\ (scanned[k] # 0 => k \in Looked)
  BY <1>1, <1>3 DEF TimesOK, PassingTimes
<1>5. ToSet(todo') = Looked /\ Looked \subseteq Keys /\ todo' \in Seq(Keys)
  <2>1. <<Global>> \in Seq(Keys) /\ ToSet(<<Global>>) = {Global}
    BY KeysAre DEF ToSet
  <2>2. DOMAIN contours \subseteq Named
    BY <1>2 DEF MapTypes
  <2> QED
    BY <1>1, <2>1, <2>2, NamesInOrder, KeysAre DEF Looked
<1>6. \A k \in Keys : AllDue(k)'
  BY <1>1, <1>4, StillTimed
<1>7. ASSUME NEW k \in Keys \ Looked PROVE AllDone(k)'
  <2>1. scanned[k] = 0 /\ AllDue(k)
    BY <1>4
  <2>2. ASSUME NEW n \in DOMAIN touches[k] PROVE Done(k, touches[k][n])
    <3>1. PICK t : t = touches[k][n]
      OBVIOUS
    <3>2. t \in TouchSet /\ missing[t.tCur] \in 0 .. Limit + 1
      BY <1>2, <3>1, TouchFacts
    <3>3. Due(k, t) /\ t.deathCounter # -1
      BY <2>1, <3>1 DEF AllDue
    <3> QED
      BY <2>1, <3>1, <3>2, <3>3, NotLookedAtIsDone
  <2>3. AllDone(k)
    BY <2>2 DEF AllDone
  <2> QED
    BY <1>1, <2>3, StillTimed
<1>8. \A k \in ToSet(todo') : k \in Keys
  BY <1>5
<1>9. todo' # <<>> => Head(todo') \in Keys /\ ToSet(Tail(todo')) \subseteq Keys
  BY <1>5, TailFacts
<1>10. LookTimes'
  BY <1>5, <1>6, <1>7, <1>9 DEF LookTimes
<1>11. TurnTimes'
  BY <1>1, <1>6, <1>9 DEF TurnTimes
<1> QED
  BY <1>1, <1>10, <1>11 DEF TimesOK, PassingTimes, SearchTimes, Passing

LEMMA NextKeepsTimes ==
  ASSUME TouchesOK, TimeTypes, TimesOK, NextKey
  PROVE  TimesOK'
<1>1. /\ pc = "key" /\ todo # <<>> /\ Looking
      /\ UNCHANGED <<touches, missing, scanned>>
  BY DEF NextKey, Running, history, shared, Looking
<1>2. \/ Die
      \/ pc' = "cull" /\ i' = 1 /\ todo' = todo
  BY DEF NextKey, Goto
<1>3. CASE Die
  BY <1>3, DeadIsTimed DEF Die
<1>4. CASE pc' = "cull" /\ i' = 1 /\ todo' = todo
  <2>1. PICK k : k = Head(todo)
    OBVIOUS
  <2>2. /\ todo \in Seq(Keys) /\ k \in Keys /\ ToSet(Tail(todo)) \subseteq Keys
    <3>1. todo \in Seq(Keys)
      BY DEF TouchesOK, LoopTypes
    <3>2. k \in Keys /\ Tail(todo) \in Seq(Keys)
      BY <1>1, <2>1, <3>1, TailFacts
    <3> QED
      BY <3>1, <3>2, ListMember
  <2>3. \A l \in Keys : (AllDue(l)' <=> AllDue(l)) /\ (AllDone(l)' <=> AllDone(l))
    BY <1>1, StillTimed
  <2>4. /\ \A l \in Keys \ ToSet(todo) : AllDone(l)
        /\ \A l \in ToSet(Tail(todo)) : AllDue(l)
    BY <1>1 DEF TimesOK, LookTimes
  <2>5. LookTimes'
    BY <1>4, <2>2, <2>3, <2>4 DEF LookTimes
  <2>6. AllDue(k)'
    BY <1>1, <2>1, <2>2, <2>3 DEF TimesOK, TurnTimes
  <2>7. touches[k] \in Seq(TouchSet)
    BY <2>2 DEF TouchesOK, LoopTypes, TouchSet
  <2>8. DOMAIN touches'[k] \subseteq Nat \ {0}
    BY <1>1, <2>7
  <2>9. CullTimes(k)'
    BY <1>4, <2>6, <2>8 DEF CullTimes, AllDue
  <2>10. TurnTimes'
    BY <1>4, <2>1, <2>9 DEF TurnTimes
  <2> QED
    BY <1>4, <2>5, <2>10 DEF TimesOK, PassingTimes, SearchTimes, Passing
<1> QED
  BY <1>2, <1>3, <1>4

(* The touches of the other regions, when only those of k and their        *)
(* cursors change.                                                         *)
LEMMA OthersKeepLookTimes ==
  ASSUME TouchesOK, TimeTypes, TimesOK, pc \in {"cull", "add"}, NEW k, k = Head(todo),
         \A l \in Keys : l # k => touches'[l] = touches[l],
         \A l \in Keys : l # k =>
           \A n \in DOMAIN touches[l] : missing'[touches[l][n].tCur] = missing[touches[l][n].tCur],
         UNCHANGED <<todo, scanned>>
  PROVE  LookTimes'
<1>1. LoopTypes /\ Distinct(todo) /\ MapTypes
  BY DEF TouchesOK, TimeTypes
<1>2. todo # <<>> /\ todo \in Seq(Keys)
  BY <1>1 DEF LoopTypes
<1>3. k \in Keys /\ ToSet(todo) = {k} \cup ToSet(Tail(todo)) /\ k \notin ToSet(Tail(todo))
      /\ Tail(todo) \in Seq(Keys)
  BY <1>1, <1>2, TailFacts
<1>4. ToSet(Tail(todo)) \subseteq Keys
  BY <1>3, ListMember
<1>5. /\ \A l \in Keys \ ToSet(todo) : AllDone(l)
      /\ \A l \in ToSet(Tail(todo)) : AllDue(l)
  BY <1>2 DEF TimesOK, LookTimes, Looking
<1>6. \A l \in Keys : l # k => (AllDue(l) => AllDue(l)') /\ (AllDone(l) => AllDone(l)')
  BY SameTouches
<1> QED
  BY <1>3, <1>4, <1>5, <1>6 DEF LookTimes

LEMMA MatchKeepsTimes ==
  ASSUME TouchesOK, TimeTypes, TimesOK, MatchTouch
  PROVE  TimesOK'
<1>0. pc = "cull"
  BY DEF MatchTouch, Running
<1>1. LoopTypes /\ Paired /\ Histories /\ MapTypes
  BY DEF TouchesOK, TimeTypes
<1>2. PICK k \in Keys, n \in 1 .. Len(potentials), t \in TouchSet :
        /\ k = Head(todo) /\ t = touches[k][i] /\ i \in DOMAIN touches[k]
        /\ touches' = [touches EXCEPT ![k][i] =
                         [bounds |-> potentials[n], deathCounter |-> -1, tCur |-> t.tCur]]
        /\ missing' = IF scanned[k] = 0 THEN missing ELSE Put(missing, t.tCur, 0)
        /\ UNCHANGED <<pc, i, todo, scanned>>
  BY <1>1, MatchIs
<1>3. /\ touches \in [Keys -> Seq(TouchSet)] /\ i \in Nat
  BY <1>0, <1>1, LoopFacts
<1>4. PICK u, s : u = [bounds |-> potentials[n], deathCounter |-> -1, tCur |-> t.tCur] /\ s = t.tCur
  OBVIOUS
<1>5. /\ touches' = [touches EXCEPT ![k] = [touches[k] EXCEPT ![i] = u]]
      /\ u.deathCounter = -1 /\ u.tCur = s /\ i \in DOMAIN touches[k] /\ touches[k][i].tCur = s
  BY <1>2, <1>4
<1>6. /\ DOMAIN touches'[k] = DOMAIN touches[k] /\ touches'[k][i] = u
      /\ \A m \in DOMAIN touches[k] : m # i => touches'[k][m] = touches[k][m]
      /\ \A l \in Keys : l # k => touches'[l] = touches[l]
  BY <1>3, <1>5
<1>7. /\ s \in DOMAIN missing /\ missing[s] \in 0 .. Limit + 1
      /\ scanned[k] \in 0 .. Limit + 1
  BY <1>1, <1>2, <1>4, TouchFacts
<1>8. missing' = IF scanned[k] = 0 THEN missing
                 ELSE [x \in DOMAIN missing \cup {s} |-> IF x = s THEN 0 ELSE missing[x]]
  BY <1>2, <1>4 DEF Put
<1>9. /\ missing'[s] \in 0 .. Limit + 1 /\ (missing'[s] = 0 \/ scanned[k] = 0)
      /\ \A x \in DOMAIN missing : x # s => missing'[x] = missing[x]
  BY <1>7, <1>8, LimitIs
<1>10. \A l \in Keys : \A m \in DOMAIN touches[l] :
         /\ touches[l][m].tCur \in DOMAIN missing
         /\ touches[l][m].tCur = s => l = k /\ m = i
  BY <1>1, <1>5 DEF Paired, Histories
<1>11. LookTimes'
  BY <1>0, <1>2, <1>6, <1>9, <1>10, OthersKeepLookTimes
<1>12. Due(k, u)'
  <2>1. PICK m2, s2 \in Int : m2 = missing'[s] /\ s2 = scanned'[k]
    BY <1>2, <1>7, <1>9, LimitIs
  <2>2. m2 >= 0 /\ (m2 = 0 \/ s2 = 0)
    BY <1>2, <1>9, <2>1
  <2>3. -1 \in -1 .. SkippableFrames /\ -1 < m2 /\ (m2 <= -1 + 1 \/ s2 <= -1 + 1)
    BY <2>1, <2>2, LimitIs
  <2> QED
    BY <1>5, <2>1, <2>3 DEF Due
<1>13. CullTimes(k)'
  <2>1. CullTimes(k)
    BY <1>0, <1>2 DEF TimesOK, TurnTimes
  <2>2. ASSUME NEW m \in DOMAIN touches[k], m # i
        PROVE  /\ m < i => Done(k, touches[k][m])'
               /\ m >= i => Due(k, touches[k][m])'
               /\ m > i => touches'[k][m].deathCounter # -1
    <3>1. PICK v : v = touches[k][m]
      OBVIOUS
    <3>2. missing'[v.tCur] = missing[v.tCur] /\ scanned'[k] = scanned[k]
      BY <1>2, <1>9, <1>10, <2>2, <3>1
    <3>3. Due(k, v)' = Due(k, v) /\ Done(k, v)' = Done(k, v)
      BY <3>2, SameTime
    <3>4. touches'[k][m] = v
      BY <1>6, <2>2, <3>1
    <3>5. /\ m < i => Done(k, v)
          /\ m >= i => Due(k, v)
          /\ m > i => v.deathCounter # -1
      BY <2>1, <3>1 DEF CullTimes
    <3> QED
      BY <3>3, <3>4, <3>5
  <2>3. /\ ~(i < i) /\ ~(i > i)
        /\ Due(k, touches[k][i])'
    <3>1. (touches[k][i])' = u
      BY <1>2, <1>6
    <3> QED
      BY <1>3, <1>12, <3>1
  <2>4. ASSUME NEW m \in DOMAIN touches[k]
        PROVE  /\ m < i => Done(k, touches[k][m])'
               /\ m >= i => Due(k, touches[k][m])'
               /\ m > i => touches'[k][m].deathCounter # -1
    <3>1. CASE m = i
      <4>1. PICK x : x = i
        OBVIOUS
      <4>2. (touches[k][x])' = u /\ ~(x < i) /\ ~(x > i) /\ x = m
        BY <1>6, <2>3, <3>1, <4>1
      <4> QED
        BY <1>12, <4>2
    <3>2. CASE m # i
      BY <2>2, <3>2
    <3> QED
      BY <3>1, <3>2
  <2> QED
    BY <1>2, <1>6, <2>4 DEF CullTimes
<1>14. TurnTimes'
  BY <1>0, <1>2, <1>13 DEF TurnTimes
<1> QED
  BY <1>0, <1>2, <1>11, <1>14 DEF TimesOK, PassingTimes, SearchTimes, Passing

LEMMA PassStayKeepsTimes ==
  ASSUME TouchesOK, TimeTypes, TimesOK, pc = "cull", pc' = "cull",
         NEW k \in Keys, NEW t \in TouchSet,
         k = Head(todo), t = touches[k][i], i \in DOMAIN touches[k],
         UNCHANGED <<todo, scanned, missing>>,
         t.deathCounter + 1 < Limit,
         touches' = [touches EXCEPT ![k][i] =
                       [bounds |-> t.bounds, deathCounter |-> t.deathCounter + 1, tCur |-> t.tCur]],
         i' = i + 1
  PROVE  TimesOK'
<1>1. LoopTypes /\ Paired /\ Histories /\ MapTypes
  BY DEF TouchesOK, TimeTypes
<1>2. touches \in [Keys -> Seq(TouchSet)] /\ i \in Nat
  BY <1>1, LoopFacts
<1>3. PICK x \in Nat : x = i
  BY <1>2
<1>4. PICK u : u = [bounds |-> t.bounds, deathCounter |-> t.deathCounter + 1, tCur |-> t.tCur]
  OBVIOUS
<1>5. touches' = [touches EXCEPT ![k] = [touches[k] EXCEPT ![x] = u]] /\ x \in DOMAIN touches[k]
  BY <1>3, <1>4
<1>6. /\ DOMAIN touches'[k] = DOMAIN touches[k] /\ touches'[k][x] = u
      /\ \A m \in DOMAIN touches[k] : m # x => touches'[k][m] = touches[k][m]
      /\ \A l \in Keys : l # k => touches'[l] = touches[l]
  BY <1>2, <1>5
<1>7. LookTimes'
  BY <1>6, OthersKeepLookTimes
<1>8. CullTimes(k)
  BY DEF TimesOK, TurnTimes
<1>9. Done(k, u)'
  <2>1. scanned[k] \in 0 .. Limit + 1 /\ missing[t.tCur] \in 0 .. Limit + 1
    BY <1>1, TouchFacts
  <2>2. Due(k, t)
    BY <1>2, <1>8 DEF CullTimes
  <2>3. Done(k, u)
    BY <1>4, <2>1, <2>2, OlderIsDone
  <2>4. scanned'[k] = scanned[k] /\ missing'[u.tCur] = missing[u.tCur]
    OBVIOUS
  <2> QED
    BY <2>3, <2>4, SameTime
<1>10. ASSUME NEW m \in DOMAIN touches[k]
       PROVE  /\ m < x + 1 => Done(k, touches[k][m])'
              /\ m >= x + 1 => Due(k, touches[k][m])'
              /\ m > x + 1 => touches'[k][m].deathCounter # -1
  <2>0. m \in Nat
    BY <1>2
  <2>1. CASE m = x
    <3>1. (touches[k][m])' = u /\ ~(m >= x + 1) /\ ~(m > x + 1)
      BY <1>3, <1>6, <2>1
    <3> QED
      BY <1>9, <3>1
  <2>2. CASE m # x
    <3>1. PICK v : v = touches[k][m]
      OBVIOUS
    <3>2. Due(k, v)' = Due(k, v) /\ Done(k, v)' = Done(k, v)
      BY SameTime
    <3>3. (touches[k][m])' = v
      BY <1>6, <2>2, <3>1
    <3>4. /\ m < x => Done(k, v)
          /\ m >= x => Due(k, v)
          /\ m > x => v.deathCounter # -1
      BY <1>3, <1>8, <3>1 DEF CullTimes
    <3>5. (m < x + 1 => m < x) /\ (m >= x + 1 => m >= x) /\ (m > x + 1 => m > x)
      BY <1>3, <2>0, <2>2
    <3> QED
      BY <3>2, <3>3, <3>4, <3>5
  <2> QED
    BY <2>1, <2>2
<1>11. CullTimes(k)'
  BY <1>3, <1>6, <1>10 DEF CullTimes
<1>12. TurnTimes'
  BY <1>11 DEF TurnTimes
<1> QED
  BY <1>7, <1>12 DEF TimesOK, PassingTimes, SearchTimes, Passing

LEMMA PassGoneKeepsTimes ==
  ASSUME TouchesOK, TimeTypes, TimesOK, pc = "cull", pc' = "cull",
         NEW k \in Keys, NEW t \in TouchSet,
         k = Head(todo), t = touches[k][i], i \in DOMAIN touches[k],
         UNCHANGED <<todo, scanned>>,
         touches' = [touches EXCEPT ![k] = RemoveAt(touches[k], i)],
         missing' = Erase(missing, t.tCur), i' = i
  PROVE  TimesOK'
<1>1. LoopTypes /\ Paired /\ Histories /\ MapTypes
  BY DEF TouchesOK, TimeTypes
<1>2. touches \in [Keys -> Seq(TouchSet)] /\ i \in Nat
  BY <1>1, LoopFacts
<1>3. PICK x \in Nat : x = i
  BY <1>2
<1>4. PICK q, old, len : old = touches[k] /\ q = RemoveAt(old, x) /\ len = Len(old)
  OBVIOUS
<1>5. /\ len \in Nat /\ x \in 1 .. len /\ DOMAIN touches[k] = 1 .. len
      /\ old \in Seq(TouchSet)
  BY <1>2, <1>3, <1>4
<1>6. /\ q \in Seq(TouchSet) /\ DOMAIN q = 1 .. len - 1
      /\ \A n \in 1 .. len - 1 : q[n] = IF n < x THEN touches[k][n] ELSE touches[k][n + 1]
  <2>1. /\ q \in Seq(TouchSet) /\ Len(q) = len - 1
        /\ \A n \in 1 .. len - 1 : q[n] = IF n < x THEN old[n] ELSE old[n + 1]
    BY <1>4, <1>5, RemoveAtFacts
  <2> QED
    BY <1>4, <2>1
<1>7. touches'[k] = q /\ \A l \in Keys : l # k => touches'[l] = touches[l]
  BY <1>2, <1>3, <1>4
<1>8. \A s \in DOMAIN missing : s # t.tCur => missing'[s] = missing[s]
  BY DEF Erase
<1>9. \A l \in Keys : \A m \in DOMAIN touches[l] :
        /\ touches[l][m].tCur \in DOMAIN missing
        /\ touches[l][m].tCur = t.tCur => l = k /\ m = x
  BY <1>1, <1>3 DEF Paired, Histories
<1>10. LookTimes'
  BY <1>7, <1>8, <1>9, OthersKeepLookTimes
<1>11. CullTimes(k)
  BY DEF TimesOK, TurnTimes
<1>12. ASSUME NEW n \in DOMAIN q
       PROVE  /\ n < x => Done(k, touches[k][n])'
              /\ n >= x => Due(k, touches[k][n])'
              /\ n > x => touches'[k][n].deathCounter # -1
  <2>1. PICK m : m = IF n < x THEN n ELSE n + 1
    OBVIOUS
  <2>2. /\ m \in DOMAIN touches[k] /\ m # x /\ q[n] = touches[k][m]
        /\ n < x => m < x
        /\ n >= x => m >= x /\ m > x
        /\ n > x => m > x
    <3>1. CASE n < x
      BY <1>5, <1>6, <2>1, <3>1
    <3>2. CASE ~(n < x)
      BY <1>5, <1>6, <2>1, <3>2
    <3> QED
      BY <3>1, <3>2
  <2>3. PICK v : v = touches[k][m]
    OBVIOUS
  <2>4. /\ m < x => Done(k, v)
        /\ m >= x => Due(k, v)
        /\ m > x => v.deathCounter # -1
    BY <1>3, <1>11, <2>2, <2>3 DEF CullTimes
  <2>5. missing'[v.tCur] = missing[v.tCur] /\ scanned'[k] = scanned[k]
    BY <1>8, <1>9, <2>2, <2>3
  <2>6. Due(k, v)' = Due(k, v) /\ Done(k, v)' = Done(k, v)
    BY <2>5, SameTime
  <2>7. (touches[k][n])' = v
    BY <1>7, <2>2, <2>3
  <2> QED
    BY <2>2, <2>4, <2>6, <2>7
<1>13. CullTimes(k)'
  BY <1>3, <1>7, <1>12 DEF CullTimes
<1>14. TurnTimes'
  BY <1>13 DEF TurnTimes
<1> QED
  BY <1>10, <1>14 DEF TimesOK, PassingTimes, SearchTimes, Passing

LEMMA PassKeepsTimes ==
  ASSUME TouchesOK, TimeTypes, TimesOK, PassTouch
  PROVE  TimesOK'
<1>0. pc = "cull"
  BY DEF PassTouch, Running
<1>1. PICK k \in Keys, t \in TouchSet :
        /\ k = Head(todo) /\ t = touches[k][i] /\ i \in DOMAIN touches[k]
        /\ pc' = "cull" /\ UNCHANGED <<todo, scanned>>
        /\ \/ /\ t.deathCounter + 1 < Limit
              /\ touches' = [touches EXCEPT ![k][i] =
                               [bounds |-> t.bounds, deathCounter |-> t.deathCounter + 1,
                                tCur |-> t.tCur]]
              /\ i' = i + 1 /\ missing' = missing
           \/ /\ touches' = [touches EXCEPT ![k] = RemoveAt(touches[k], i)]
              /\ i' = i /\ missing' = Erase(missing, t.tCur)
  BY PassIs DEF TouchesOK
<1> QED
  BY <1>0, <1>1, PassStayKeepsTimes, PassGoneKeepsTimes

LEMMA CullEndKeepsTimes ==
  ASSUME TouchesOK, TimeTypes, TimesOK, EndCull
  PROVE  TimesOK'
<1>1. /\ pc = "cull" /\ pc' = "add" /\ i > Len(Here) /\ Looking
      /\ UNCHANGED <<touches, missing, scanned, todo>>
  BY DEF EndCull, Running, Goto, shared, history, Looking
<1>2. PICK k : k = Head(todo)
  OBVIOUS
<1>3. /\ k \in Keys /\ todo \in Seq(Keys) /\ todo # <<>>
      /\ touches[k] \in Seq(TouchSet) /\ Here = touches[k] /\ i \in Nat
  BY <1>1, <1>2, LoopFacts DEF TouchesOK
<1>4. AllDone(k)
  <2>1. CullTimes(k)
    BY <1>1, <1>2 DEF TimesOK, TurnTimes
  <2>2. \A n \in DOMAIN touches[k] : n < i
    BY <1>1, <1>3
  <2> QED
    BY <2>1, <2>2 DEF AllDone, CullTimes
<1>5. \A l \in Keys : (AllDue(l)' <=> AllDue(l)) /\ (AllDone(l)' <=> AllDone(l))
  BY <1>1, StillTimed
<1>6. ToSet(Tail(todo)) \subseteq Keys
  <2>1. Tail(todo) \in Seq(Keys)
    BY <1>3, TailFacts
  <2> QED
    BY <2>1, ListMember
<1>7. LookTimes'
  BY <1>1, <1>5, <1>6 DEF TimesOK, LookTimes
<1>8. TurnTimes'
  BY <1>1, <1>2, <1>3, <1>4, <1>5 DEF TurnTimes
<1> QED
  BY <1>1, <1>7, <1>8 DEF TimesOK, PassingTimes, SearchTimes, Passing

LEMMA AddKeepsTimes ==
  ASSUME TouchesOK, RegistryIs, TimeTypes, TimesOK, AddPotential
  PROVE  TimesOK'
<1>0. pc = "add" /\ Looking
  BY DEF AddPotential, Running, Looking
<1>1. LoopTypes /\ Paired /\ Histories /\ MapTypes
  BY DEF TouchesOK, TimeTypes
<1>2. PICK k : k = Head(todo)
  OBVIOUS
<1>3. /\ k \in Keys /\ todo \in Seq(Keys) /\ todo # <<>>
      /\ touches \in [Keys -> Seq(TouchSet)]
  BY <1>0, <1>1, <1>2, LoopFacts
<1>4. /\ ToSet(todo) = {k} \cup ToSet(Tail(todo))
      /\ Tail(todo) \in Seq(Keys)
  BY <1>2, <1>3, TailFacts
<1>5. AllDone(k)
  BY <1>0, <1>2 DEF TimesOK, TurnTimes
<1>6. CASE i > Len(potentials)
  <2>1. /\ pc' = "key" /\ todo' = Tail(todo) /\ UNCHANGED <<touches, missing, scanned>>
    BY <1>6 DEF AddPotential, Goto
  <2>2. \A l \in Keys : (AllDue(l)' <=> AllDue(l)) /\ (AllDone(l)' <=> AllDone(l))
    BY <2>1, StillTimed
  <2>3. /\ \A l \in Keys \ ToSet(todo) : AllDone(l)
        /\ \A l \in ToSet(todo') : AllDue(l)
    BY <1>0, <1>3, <2>1 DEF TimesOK, LookTimes
  <2>4. \A l \in Keys \ ToSet(todo') : AllDone(l)'
    BY <1>4, <1>5, <2>1, <2>2, <2>3
  <2>5. ASSUME todo' # <<>>
        PROVE  /\ Head(todo') \in ToSet(todo') /\ Head(todo') \in Keys
               /\ \A l \in ToSet(Tail(todo')) : l \in ToSet(todo') /\ l \in Keys
    <3>1. PICK r : r = todo'
      OBVIOUS
    <3>2. r \in Seq(Keys) /\ r # <<>>
      BY <1>4, <2>1, <2>5, <3>1
    <3>3. Head(r) \in ToSet(r) /\ ToSet(r) = {Head(r)} \cup ToSet(Tail(r))
      BY <3>2, TailFacts
    <3>4. \A l \in ToSet(r) : l \in Keys
      BY <3>2, ListMember
    <3> QED
      BY <3>1, <3>3, <3>4
  <2>6. LookTimes'
    BY <2>2, <2>3, <2>4, <2>5 DEF LookTimes
  <2>7. TurnTimes'
    BY <2>1, <2>2, <2>3, <2>5 DEF TurnTimes
  <2> QED
    BY <2>1, <2>6, <2>7 DEF TimesOK, PassingTimes, SearchTimes, Passing
<1>7. CASE ~(i > Len(potentials))
  <2>1. PICK h \in Keys, t \in TouchSet :
          /\ h = Head(todo)
          /\ t = [bounds |-> potentials[i], deathCounter |-> 0, tCur |-> sessionID + 1]
          /\ touches' = [touches EXCEPT ![h] = Append(touches[h], t)]
          /\ missing' = Put(missing, sessionID + 1, 0)
          /\ pc' = "add" /\ UNCHANGED <<todo, scanned>>
    BY <1>1, <1>7, AddIs
  <2>2. h = k /\ t.deathCounter = 0 /\ t.tCur = sessionID + 1
    BY <1>2, <2>1
  <2>3. PICK new, len : new = sessionID + 1 /\ len = Len(touches[k])
    OBVIOUS
  <2>4. missing' = [y \in DOMAIN missing \cup {new} |-> IF y = new THEN 0 ELSE missing[y]]
    BY <2>1, <2>3 DEF Put
  <2>5. new \notin Sids(cursors.live)
    BY <2>3 DEF RegistryIs, Sids
  <2>6. missing'[new] = 0 /\ \A y \in DOMAIN missing : missing'[y] = missing[y]
    BY <1>1, <2>4, <2>5 DEF Histories
  <2>7. /\ len \in Nat /\ DOMAIN touches[k] = 1 .. len
        /\ DOMAIN touches'[k] = 1 .. len + 1
        /\ touches'[k][len + 1] = t
        /\ \A n \in 1 .. len : touches'[k][n] = touches[k][n]
        /\ \A l \in Keys : l # k => touches'[l] = touches[l]
    <3>1. len \in Nat /\ touches[k] \in Seq(TouchSet) /\ DOMAIN touches[k] = 1 .. len
      BY <1>3, <2>3
    <3>2. touches'[k] = Append(touches[k], t) /\ \A l \in Keys : l # k => touches'[l] = touches[l]
      BY <1>3, <2>1, <2>2
    <3> QED
      BY <2>3, <3>1, <3>2
  <2>8. \A l \in Keys : \A n \in DOMAIN touches[l] : touches[l][n].tCur \in DOMAIN missing
    BY <1>1 DEF Paired, Histories
  <2>9. LookTimes'
    BY <1>0, <1>2, <2>1, <2>6, <2>7, <2>8, OthersKeepLookTimes
  <2>10. Done(k, t)'
    <3>1. 0 \in 0 .. SkippableFrames
      BY LimitIs
    <3>2. missing'[t.tCur] = 0
      BY <2>2, <2>3, <2>6
    <3> QED
      BY <2>2, <3>1, <3>2 DEF Done
  <2>11. ASSUME NEW n \in 1 .. len + 1 PROVE Done(k, touches[k][n])'
    <3>1. CASE n = len + 1
      BY <2>7, <2>10, <3>1
    <3>2. CASE n # len + 1
      <4>1. n \in DOMAIN touches[k]
        BY <2>7, <3>2
      <4>2. PICK v : v = touches[k][n]
        OBVIOUS
      <4>3. missing'[v.tCur] = missing[v.tCur] /\ scanned'[k] = scanned[k] /\ (touches[k][n])' = v
        BY <2>1, <2>6, <2>7, <2>8, <1>3, <4>1, <4>2
      <4>4. Done(k, v)
        BY <1>5, <4>1, <4>2 DEF AllDone
      <4>5. Done(k, v)'
        BY <4>3, <4>4, SameTime
      <4> QED
        BY <4>3, <4>5
    <3> QED
      BY <3>1, <3>2
  <2>12. AllDone(k)'
    BY <2>7, <2>11 DEF AllDone
  <2>13. TurnTimes'
    BY <1>2, <2>1, <2>12 DEF TurnTimes
  <2> QED
    BY <2>1, <2>9, <2>13 DEF TimesOK, PassingTimes, SearchTimes, Passing
<1> QED
  BY <1>6, <1>7

LEMMA LookEndKeepsTimes ==
  ASSUME TouchesOK, TimeTypes, TimesOK, EndTouches
  PROVE  TimesOK'
<1>1. /\ pc = "key" /\ processors[at] = "ContourCompute" /\ todo = <<>> /\ Finish /\ Looking
      /\ UNCHANGED <<touches, missing, scanned>>
  BY DEF EndTouches, Running, shared, history, Looking
<1>2. Queue /\ at \in DOMAIN processors
  BY <1>1 DEF TimeTypes, Position
<1>3. /\ ~\E n \in DOMAIN processors : processors[n] = "Contour" /\ n > at
      /\ ~\E n \in DOMAIN processors : processors[n] = "ContourCompute" /\ n > at
  BY <1>1, <1>2, AheadOfLook
<1>4. pc' \in {"idle", "start"} /\ ~ToSearch' /\ ~ToLook'
  BY <1>1, <1>2, <1>3, FinishMoves
<1>5. ToSet(todo) = {}
  BY <1>1 DEF ToSet
<1>6. \A k \in Keys : AllDone(k)'
  BY <1>1, <1>5, StillTimed DEF TimesOK, LookTimes
<1>7. PassingTimes'
  BY <1>4, <1>6 DEF PassingTimes
<1> QED
  BY <1>4, <1>7, OnlyPassing

LEMMA TimesNext ==
  RegistryIs /\ TouchesOK /\ TimeTypes /\ TimesOK /\ [TNext]_tvars => TimesOK'
<1> SUFFICES ASSUME RegistryIs, TouchesOK, TimeTypes, TimesOK, [TNext]_tvars
             PROVE  TimesOK'
  OBVIOUS
<1>1. CASE UNCHANGED tvars
  <2>1. UNCHANGED <<pc, at, i, todo, processors, touches, missing, scanned, contours, regions>>
    BY <1>1 DEF tvars, shared, control, history
  <2>2. \A k : /\ AllBefore(k)' <=> AllBefore(k)
               /\ AllDue(k)' <=> AllDue(k)
               /\ AllDone(k)' <=> AllDone(k)
               /\ CullTimes(k)' <=> CullTimes(k)
    BY <2>1 DEF AllBefore, AllDue, AllDone, CullTimes, Before, Due, Done
  <2>3. (ToSearch' <=> ToSearch) /\ (ToLook' <=> ToLook) /\ Looked' = Looked
        /\ \A k : Allocated(k)' <=> Allocated(k)
    BY <2>1 DEF ToSearch, ToLook, Ahead, Looked, Allocated
  <2>4. PassingTimes'
    BY <2>1, <2>2, <2>3 DEF TimesOK, PassingTimes, Passing
  <2>5. SearchTimes'
    BY <2>1, <2>2, <2>3 DEF TimesOK, SearchTimes
  <2>6. LookTimes' /\ TurnTimes'
    BY <2>1, <2>2 DEF TimesOK, LookTimes, TurnTimes, Looking
  <2> QED
    BY <2>4, <2>5, <2>6 DEF TimesOK
<1>2. CASE NewFrame
  BY <1>2, FrameKeepsTimes
<1>3. CASE Crash
  BY <1>3, DeadIsTimed DEF Crash, Die
<1>4. CASE DetectMarkers
  <2>1. /\ Passing /\ processors[at] = "Aruco" /\ Finish
        /\ UNCHANGED <<touches, missing, scanned, contours>>
    BY <1>4 DEF DetectMarkers, Running, history, Passing
  <2> QED
    BY <2>1, OthersKeepTimes
<1>5. CASE StartMarkers
  <2>1. /\ Passing /\ processors[at] = "ArucoCompute"
        /\ pc' = "age" /\ UNCHANGED <<processors, at>>
        /\ UNCHANGED <<touches, missing, scanned, contours>>
    BY <1>5 DEF StartMarkers, Running, history, shared, Goto, Passing
  <2> QED
    BY <2>1, OthersKeepTimes
<1>6. CASE AgeMarker
  <2>1. /\ Passing /\ processors[at] = "ArucoCompute"
        /\ pc' \in {"age", "place"} /\ UNCHANGED <<processors, at>>
        /\ UNCHANGED <<touches, missing, scanned, contours>>
    BY <1>6 DEF AgeMarker, Running, history, Goto, Passing
  <2> QED
    BY <2>1, OthersKeepTimes
<1>7. CASE PlaceMarkers
  <2>1. /\ Passing /\ processors[at] = "ArucoCompute"
        /\ (pc' = "place" /\ UNCHANGED <<processors, at>>) \/ Finish
        /\ UNCHANGED <<touches, missing, scanned, contours>>
    BY <1>7 DEF PlaceMarkers, Running, history, Goto, Passing
  <2> QED
    BY <2>1, OthersKeepTimes
<1>8. CASE StartContours
  BY <1>8, CommandsKeepTimes
<1>9. CASE SearchPicture
  BY <1>9, PictureKeepsTimes
<1>10. CASE SearchRegion
  BY <1>10, RegionKeepsTimes
<1>11. CASE EndContours
  BY <1>11, EndKeepsTimes
<1>12. CASE StartTouches
  BY <1>12, StartTouchesKeepsTimes
<1>13. CASE NextKey
  BY <1>13, NextKeepsTimes
<1>14. CASE MatchTouch
  BY <1>14, MatchKeepsTimes
<1>15. CASE PassTouch
  BY <1>15, PassKeepsTimes
<1>16. CASE EndCull
  BY <1>16, CullEndKeepsTimes
<1>17. CASE AddPotential
  BY <1>17, AddKeepsTimes
<1>18. CASE EndTouches
  BY <1>18, LookEndKeepsTimes
<1> QED
  BY <1>1, <1>2, <1>3, <1>4, <1>5, <1>6, <1>7, <1>8, <1>9, <1>10, <1>11, <1>12, <1>13, <1>14,
     <1>15, <1>16, <1>17, <1>18 DEF TNext
-----------------------------------------------------------------------------
(* The cursors *)

CursorsOK == TouchesOK /\ FingersOK /\ TimeTypes /\ TimesOK

LEMMA CursorsInit == TInit => CursorsOK
  BY TouchesInit, FingersInit, TimeTypesInit, TimesInit DEF CursorsOK

LEMMA CursorsNext == ObjectsOK /\ CursorsOK /\ [TNext]_tvars => CursorsOK'
<1> SUFFICES ASSUME RegistryIs, CursorsOK, [TNext]_tvars PROVE CursorsOK'
  BY DEF ObjectsOK
<1>1. MapTypes /\ LoopTypes /\ Paired /\ TouchesOK /\ FingersOK /\ TimeTypes /\ TimesOK
  BY DEF CursorsOK, TouchesOK
<1>2. TouchesOK'
  BY <1>1, MapsNext, LoopNext, PairsNext DEF TouchesOK
<1>3. FingersOK'
  BY <1>1, FingersNext
<1>4. TimeTypes' /\ TimesOK'
  BY <1>1, TimeTypesNext, TimesNext
<1> QED
  BY <1>2, <1>3, <1>4 DEF CursorsOK

LEMMA DoneIsNoGhost == CursorsOK => NoGhosts
<1> SUFFICES ASSUME CursorsOK, pc = "idle", NEW a \in AllTouches, scanned[a[1]] >= Limit
             PROVE  missing[Touch(a).tCur] < Limit
  BY DEF NoGhosts
<1>1. PICK k, n : k \in Keys /\ n \in DOMAIN touches[k] /\ a = <<k, n>>
  BY DEF AllTouches
<1>2. PICK t : t = touches[k][n]
  OBVIOUS
<1>3. /\ t \in TouchSet /\ missing[t.tCur] \in 0 .. Limit + 1 /\ scanned[k] \in 0 .. Limit + 1
  BY <1>1, <1>2, TouchFacts DEF CursorsOK, TouchesOK, TimeTypes
<1>4. Done(k, t)
  BY <1>1, <1>2 DEF CursorsOK, TimesOK, PassingTimes, AllDone
<1>5. Touch(a) = t /\ a[1] = k
  BY <1>1, <1>2 DEF Touch
<1>6. PICK d, m, s \in Int : d = t.deathCounter /\ m = missing[t.tCur] /\ s = scanned[k]
  BY <1>3, LimitIs DEF TouchSet
<1>7. d \in 0 .. SkippableFrames /\ (m <= d \/ s <= d) /\ s >= Limit
  BY <1>4, <1>5, <1>6 DEF Done
<1>8. m < Limit
  BY <1>6, <1>7, LimitIs
<1> QED
  BY <1>5, <1>6, <1>8

LEMMA OnlyAbsentLeave ==
  ASSUME ObjectsOK, CursorsOK, [TNext]_tvars, NEW e \in cursors.live \ cursors'.live
  PROVE  e.sid \in DOMAIN missing /\ missing[e.sid] >= Limit
<1>0. RegistryIs /\ MapTypes /\ LoopTypes /\ Paired /\ Histories
  BY DEF ObjectsOK, CursorsOK, TouchesOK, TimeTypes
<1>1. CASE PassTouch
  <2>0. pc = "cull"
    BY <1>1 DEF PassTouch, Running
  <2>1. PICK k \in Keys, t \in TouchSet :
          /\ k = Head(todo) /\ t = touches[k][i] /\ i \in DOMAIN touches[k]
          /\ \/ UNCHANGED mvars
             \/ /\ t.deathCounter + 1 >= Limit
                /\ \E f \in cursors.live : f.sid = t.tCur /\ Take("cursor", f)
    BY <1>0, <1>1, PassIs
  <2>2. CASE UNCHANGED mvars
    BY <2>2, StillSteps DEF Still
  <2>3. CASE /\ t.deathCounter + 1 >= Limit
             /\ \E f \in cursors.live : f.sid = t.tCur /\ Take("cursor", f)
    <3>1. PICK f \in cursors.live : f.sid = t.tCur /\ Take("cursor", f)
      BY <2>3
    <3>2. cursors'.live = cursors.live \ {f}
      BY <1>0, <3>1, CursorTaken
    <3>3. e.sid = t.tCur
      BY <3>1, <3>2
    <3>4. Due(k, t)
      <4>1. CullTimes(k)
        BY <2>0, <2>1 DEF CursorsOK, TimesOK, TurnTimes
      <4>2. i \in Nat
        BY <1>0, <2>0, LoopFacts
      <4> QED
        BY <2>1, <4>1, <4>2 DEF CullTimes
    <3>5. t.tCur \in DOMAIN missing /\ missing[t.tCur] \in 0 .. Limit + 1
      BY <1>0, <2>1, TouchFacts
    <3>6. missing[t.tCur] >= Limit
      BY <2>3, <3>4, <3>5, ExpiresLate
    <3> QED
      BY <3>3, <3>5, <3>6
  <2> QED
    BY <2>1, <2>2, <2>3
<1>2. CASE AddPotential
  <2>1. UNCHANGED mvars \/ AddCursor
    BY <1>2 DEF AddPotential
  <2>2. CASE UNCHANGED mvars
    BY <2>2, StillSteps DEF Still
  <2>3. CASE AddCursor
    <3>1. \E f : cursors'.live = cursors.live \cup {f}
      BY <1>0, <2>3, CursorAdded
    <3> QED
      BY <3>1
  <2> QED
    BY <2>1, <2>2, <2>3
<1>3. CASE ~PassTouch /\ ~AddPotential
  BY <1>3, CursorsStay
<1> QED
  BY <1>1, <1>2, <1>3

(* Cursors and touches are the same one for one, every finger that has no  *)
(* neighbour is under a touch after a look at its region, and no cursor    *)
(* outlives its finger while its region is searched:                       *)
(* ContourCompute.hpp:43-118.                                              *)
THEOREM CursorsAreFollowed == TSpec => []CursorsFollowFingers
<1>1. TInit => ObjectsOK /\ CursorsOK
  BY ObjectsInit, CursorsInit
<1>2. (ObjectsOK /\ CursorsOK) /\ [TNext]_tvars => (ObjectsOK /\ CursorsOK)'
  BY ObjectsNext, CursorsNext
<1>3. CursorsOK => CursorsFollowFingers
  BY PairsAreTouches, LookedAtIsTracked, DoneIsNoGhost DEF CursorsOK, TouchesOK, CursorsFollowFingers
<1> QED
  BY <1>1, <1>2, <1>3, PTL DEF TSpec

(* A cursor is taken off the table only when its finger was not seen in    *)
(* skippableFrames pictures and one more: ContourCompute.hpp:72-77.        *)
THEOREM CursorsLeaveAfterAbsence == TSpec => LeavesAfterAbsence
<1>1. TInit => ObjectsOK /\ CursorsOK
  BY ObjectsInit, CursorsInit
<1>2. (ObjectsOK /\ CursorsOK) /\ [TNext]_tvars => (ObjectsOK /\ CursorsOK)'
  BY ObjectsNext, CursorsNext
<1>3. (ObjectsOK /\ CursorsOK) /\ [TNext]_tvars =>
        [\A e \in cursors.live \ cursors'.live :
            e.sid \in DOMAIN missing /\ missing[e.sid] >= Limit]_tvars
  BY OnlyAbsentLeave
<1> QED
  BY <1>1, <1>2, <1>3, PTL DEF TSpec, LeavesAfterAbsence
=============================================================================
