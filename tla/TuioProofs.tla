------------------------------ MODULE TuioProofs ------------------------------
(***************************************************************************)
(* The TUIO side of the table.  The server: the numbers of a pool, the     *)
(* registry of TuioManager, and what the receivers of a TuioServer know    *)
(* between two frames, for every number of sessions and every choice of    *)
(* profiles and modes.  The transports under it: the buffer a packet is    *)
(* written into, the clients it is sent to, and what they read in it.      *)
(***************************************************************************)
EXTENDS TuioServer, Transports, ListLemmas,
        FiniteSetTheorems, FunctionTheorems, WellFoundedInduction, TLAPS

(***************************************************************************)
(* The numbers of a pool stay dense and distinct: an add finds the gap it  *)
(* looks for, and a removal leaves no number above the highest in use.     *)
(***************************************************************************)

(* A non-empty set of numbers up to m has a greatest element. *)
LEMMA MaxExists ==
  ASSUME NEW m \in Nat, NEW S, S \subseteq 0 .. m, S # {}
  PROVE  Max(S) \in S /\ \A n \in S : n <= Max(S)
<1> DEFINE T == {m - n : n \in S}
<1>1. T \subseteq Nat /\ T # {}
  <2>1. PICK x \in S : TRUE
    OBVIOUS
  <2>2. m - x \in T
    BY <2>1
  <2>3. \A n \in S : m - n \in Nat
    OBVIOUS
  <2> QED
    BY <2>2, <2>3
<1>2. PICK t \in T : \A u \in T : ~ (<<u, t>> \in OpToRel(<, Nat))
  BY ONLY <1>1, NatLessThanWellFounded, WFMin, Zenon
<1>3. \A u \in T : t <= u
  <2> SUFFICES ASSUME NEW u \in T PROVE t <= u
    OBVIOUS
  <2>1. t \in Nat /\ u \in Nat
    BY <1>1
  <2>2. u < t => <<u, t>> \in OpToRel(<, Nat)
    BY <2>1 DEF OpToRel
  <2>3. ~ (u < t)
    BY <1>2, <2>2, Zenon
  <2> QED
    BY <2>1, <2>3
<1>4. PICK x \in S : t = m - x
  BY <1>2
<1>5. \A n \in S : m - n \in T
  OBVIOUS
<1>6. \A n \in S : x >= n
  BY <1>3, <1>4, <1>5
<1>7. Max(S) \in S /\ \A n \in S : Max(S) >= n
  BY <1>6 DEF Max
<1> QED
  BY <1>7

(* Highest is what its comment says, for entries numbered up to m. *)
LEMMA HighestIsMax ==
  ASSUME NEW m \in Int, m >= -1, NEW S, Ids(S) \subseteq 0 .. m
  PROVE  /\ Highest(S) \in Int /\ Highest(S) >= -1 /\ Highest(S) <= m
         /\ \A n \in Ids(S) : n <= Highest(S)
         /\ Highest(S) >= 0 => Highest(S) \in Ids(S)
<1>1. CASE S = {}
  <2>1. Ids(S) = {}
    BY <1>1 DEF Ids
  <2> QED
    BY <1>1, <2>1 DEF Highest
<1>2. CASE S # {}
  <2>1. Ids(S) # {}
    BY <1>2 DEF Ids
  <2>2. m \in Nat
    BY <2>1
  <2>3. Max(Ids(S)) \in Ids(S) /\ \A n \in Ids(S) : n <= Max(Ids(S))
    BY <2>1, <2>2, MaxExists
  <2> QED
    BY <1>2, <2>3 DEF Highest
<1> QED
  BY <1>1, <1>2

(* As many numbers as entries, when they are distinct. *)
LEMMA DistinctIdCount ==
  ASSUME NEW S, IsFiniteSet(S), DistinctIds(S)
  PROVE  IsFiniteSet(Ids(S)) /\ Cardinality(Ids(S)) = Cardinality(S)
<1> DEFINE f == [e \in S |-> e.id]
<1>1. f \in Bijection(S, Ids(S))
  BY DEF Bijection, Injection, Surjection, DistinctIds, Ids, IsInjective
<1>2. ExistsBijection(S, Ids(S))
  BY <1>1 DEF ExistsBijection
<1> QED
  BY <1>2, FS_Bijection

(* The cursors on the table and the gaps are together max + 1. *)
LEMMA PoolCount ==
  ASSUME NEW p, PoolOK(p)
  PROVE  /\ Cardinality(p.live) \in Nat /\ Cardinality(p.free) \in Nat
         /\ Cardinality(p.live) + Cardinality(p.free) = p.max + 1
<1>1. IsFiniteSet(p.live) /\ IsFiniteSet(p.free) /\ p.live \cap p.free = {}
  BY DEF PoolOK
<1>2. /\ IsFiniteSet(p.live \cup p.free)
      /\ Cardinality(p.live \cup p.free) =
           Cardinality(p.live) + Cardinality(p.free) - Cardinality(p.live \cap p.free)
  BY <1>1, FS_Union
<1>3. Cardinality(p.live \cup p.free) = Cardinality(0 .. p.max)
  BY <1>2, DistinctIdCount DEF PoolOK
<1>4. p.max \in Int /\ p.max >= -1
  BY DEF PoolOK, PoolType
<1>5. Cardinality(0 .. p.max) = p.max + 1
  BY <1>4, FS_Interval
<1>6. Cardinality(p.live) \in Nat /\ Cardinality(p.free) \in Nat
  BY <1>1, FS_CardinalityType
<1>7. Cardinality(p.live \cap p.free) = 0
  BY <1>1, FS_EmptySet
<1> QED
  BY <1>2, <1>3, <1>5, <1>6, <1>7

(* When addTuioCursor dereferences freeCursorList.begin(), there is one.   *)
LEMMA GapExists ==
  ASSUME NEW p, PoolOK(p), TakesFree(p)
  PROVE  p.free # {}
<1>1. p.max \in Int
  BY DEF PoolOK, PoolType
<1>2. Cardinality(p.free) # 0
  BY <1>1, PoolCount DEF TakesFree
<1> QED
  BY <1>2, FS_EmptySet

(* When it does not, there is none, and the number it makes up is the next *)
(* one.                                                                    *)
LEMMA NextNumber ==
  ASSUME NEW p, PoolOK(p), ~TakesFree(p)
  PROVE  Cardinality(p.live) = p.max + 1 /\ p.free = {}
<1>1. p.max \in Int /\ IsFiniteSet(p.free)
  BY DEF PoolOK, PoolType
<1>2. Cardinality(p.live) = p.max + 1 /\ Cardinality(p.free) = 0
  BY <1>1, PoolCount DEF TakesFree
<1> QED
  BY <1>1, <1>2, FS_EmptySet

LEMMA EmptyPoolOK == PoolOK(EmptyPool)
<1>1. Ids({}) = 0 .. -1
  BY DEF Ids
<1> QED
  BY <1>1, FS_EmptySet DEF PoolOK, EmptyPool, PoolType, DistinctIds

(* An add gives the newcomer a number nobody has. *)
LEMMA AddKeepsPool ==
  ASSUME NEW p, PoolOK(p), NEW sid \in Nat,
         sid \notin Sids(p.live \cup p.free), NEW q \in Adds(p, sid)
  PROVE  PoolOK(q)
<1>0. /\ p \in PoolType
      /\ IsFiniteSet(p.live) /\ IsFiniteSet(p.free)
      /\ p.live \cap p.free = {}
      /\ DistinctIds(p.live \cup p.free)
      /\ Ids(p.live \cup p.free) = 0 .. p.max
      /\ p.max \in Int /\ p.max >= -1
      /\ p.max >= 0 => p.max \in Ids(p.live)
  BY DEF PoolOK, PoolType
<1>1. CASE TakesFree(p)
  <2>1. PICK f \in p.free :
          q = [p EXCEPT !.live = @ \cup {[sid |-> sid, id |-> f.id]}, !.free = @ \ {f}]
    BY <1>1 DEF Adds
  <2> DEFINE e == [sid |-> sid, id |-> f.id]
  <2>2. q = [live |-> p.live \cup {e}, free |-> p.free \ {f}, max |-> p.max]
    BY <1>0, <2>1 DEF PoolType
  <2>3. f \in Entry /\ e \in Entry /\ e.id = f.id /\ e.sid = sid
    BY <1>0, <2>1 DEF PoolType, Entry
  <2>4. e \notin p.live \cup p.free
    BY <2>3 DEF Sids
  <2>5. q \in PoolType
    BY <1>0, <2>2, <2>3 DEF PoolType
  <2>6. IsFiniteSet(q.live) /\ IsFiniteSet(q.free)
    BY <1>0, <2>2, FS_AddElement, FS_RemoveElement
  <2>7. q.live \cap q.free = {}
    BY <1>0, <2>2, <2>4
  <2>8. q.live \cup q.free = ((p.live \cup p.free) \ {f}) \cup {e}
    BY <1>0, <2>1, <2>2
  <2>9. DistinctIds(q.live \cup q.free)
    BY <1>0, <2>1, <2>3, <2>8 DEF DistinctIds
  <2>10. Ids(q.live \cup q.free) = Ids(p.live \cup p.free)
    BY <2>1, <2>3, <2>8 DEF Ids
  <2>11. Ids(p.live) \subseteq Ids(q.live)
    BY <2>2 DEF Ids
  <2> QED
    BY <1>0, <2>2, <2>5, <2>6, <2>7, <2>9, <2>10, <2>11 DEF PoolOK
<1>2. CASE ~TakesFree(p)
  <2> DEFINE n == Cardinality(p.live)
             e == [sid |-> sid, id |-> n]
  <2>1. n = p.max + 1 /\ n \in Nat /\ p.free = {}
    BY <1>0, <1>2, NextNumber
  <2>2. q = [live |-> p.live \cup {e}, free |-> p.free, max |-> n]
    BY <1>0, <1>2 DEF Adds, PoolType
  <2>3. e \in Entry /\ e.id = n /\ e.sid = sid
    BY <2>1 DEF Entry
  <2>4. q \in PoolType
    BY <1>0, <2>1, <2>2, <2>3 DEF PoolType
  <2>5. IsFiniteSet(q.live) /\ IsFiniteSet(q.free)
    BY <1>0, <2>2, FS_AddElement
  <2>6. q.live \cap q.free = {} /\ q.live \cup q.free = (p.live \cup p.free) \cup {e}
    BY <2>1, <2>2
  <2>7. \A f \in p.live \cup p.free : f.id \in 0 .. p.max
    BY <1>0 DEF Ids
  <2>8. n \notin 0 .. p.max
    BY <1>0, <2>1
  <2>9. DistinctIds(q.live \cup q.free)
    <3> HIDE DEF n
    <3> QED
      BY <1>0, <2>3, <2>6, <2>7, <2>8 DEF DistinctIds
  <2>10. Ids(q.live \cup q.free) = Ids(p.live \cup p.free) \cup {n}
    BY <2>3, <2>6 DEF Ids
  <2>11. Ids(q.live \cup q.free) = 0 .. n
    <3>1. (0 .. p.max) \cup {n} = 0 .. n
      <4> HIDE DEF n
      <4> QED
        BY <1>0, <2>1
    <3> QED
      BY <1>0, <2>10, <3>1
  <2>12. n \in Ids(q.live)
    BY <2>2, <2>3 DEF Ids
  <2>13. q.max = n
    BY <2>2
  <2> QED
    BY <2>1, <2>4, <2>5, <2>6, <2>9, <2>11, <2>12, <2>13 DEF PoolOK
<1> QED
  BY <1>1, <1>2

(* Whichever way, the highest number in use is what Removes calls top. *)
LEMMA RemoveTop ==
  ASSUME NEW p, PoolOK(p), NEW S \in SUBSET p.live
  PROVE  Removes(p, S) = [live |-> p.live \ S,
                         free |-> {f \in p.free \cup S : f.id <= Highest(p.live \ S)},
                         max  |-> Highest(p.live \ S)]
<1> DEFINE rest == p.live \ S
<1>0. p.max \in Int /\ p.max >= -1
  BY DEF PoolOK, PoolType
<1>1. Ids(rest) \subseteq 0 .. p.max
  BY DEF PoolOK, Ids
<1>2. CASE p.max \in Ids(S)
  BY <1>2 DEF Removes
<1>3. CASE p.max \notin Ids(S)
  <2>1. p.max >= 0 => p.max \in Ids(rest)
    BY <1>3 DEF PoolOK, Ids
  <2>2. Highest(rest) = p.max
    BY <1>0, <1>1, <2>1, HighestIsMax
  <2> QED
    BY <1>3, <2>2 DEF Removes
<1> QED
  BY <1>2, <1>3

(* Removals leave the numbers dense and distinct. *)
LEMMA RemoveKeepsPool ==
  ASSUME NEW p, PoolOK(p), NEW S \in SUBSET p.live
  PROVE  PoolOK(Removes(p, S))
<1> DEFINE rest == p.live \ S
           h == Highest(rest)
           q == Removes(p, S)
<1>0. /\ p \in PoolType
      /\ IsFiniteSet(p.live) /\ IsFiniteSet(p.free)
      /\ p.live \cap p.free = {}
      /\ DistinctIds(p.live \cup p.free)
      /\ Ids(p.live \cup p.free) = 0 .. p.max
      /\ p.max \in Int /\ p.max >= -1
  BY DEF PoolOK, PoolType
<1>1. Ids(rest) \subseteq 0 .. p.max
  BY <1>0 DEF Ids
<1>2. /\ h \in Int /\ h >= -1 /\ h <= p.max
      /\ \A n \in Ids(rest) : n <= h
      /\ h >= 0 => h \in Ids(rest)
  BY <1>0, <1>1, HighestIsMax
<1>3. /\ q.live = rest
      /\ q.free = {f \in p.free \cup S : f.id <= h}
      /\ q.max = h
  BY RemoveTop
<1> HIDE DEF h
<1>4. q \in PoolType
  BY <1>0, <1>2, RemoveTop DEF PoolType, h
<1> HIDE DEF q
<1>5. IsFiniteSet(q.live) /\ IsFiniteSet(q.free)
  <2>1. IsFiniteSet(p.live \cup p.free)
    BY <1>0, FS_Union
  <2>2. q.live \subseteq p.live \cup p.free /\ q.free \subseteq p.live \cup p.free
    BY <1>3
  <2> QED
    BY <2>1, <2>2, FS_Subset
<1>6. q.live \cap q.free = {}
  BY <1>0, <1>3
<1>7. DistinctIds(q.live \cup q.free)
  BY <1>0, <1>3 DEF DistinctIds
<1>8. Ids(q.live \cup q.free) = 0 .. h
  <2>1. ASSUME NEW n \in 0 .. h
        PROVE  n \in Ids(q.live \cup q.free)
    <3>1. n \in 0 .. p.max
      BY <1>0, <1>2
    <3>2. PICK e \in p.live \cup p.free : n = e.id
      BY <1>0, <3>1 DEF Ids
    <3>3. e \in q.live \cup q.free
      BY <1>3, <3>2
    <3> QED
      BY <3>2, <3>3 DEF Ids
  <2>2. ASSUME NEW e \in q.live \cup q.free
        PROVE  e.id \in 0 .. h
    <3>1. e.id \in 0 .. p.max
      BY <1>0, <1>3 DEF Ids
    <3>2. e.id <= h
      BY <1>2, <1>3 DEF Ids
    <3> QED
      BY <1>2, <3>1, <3>2
  <2> QED
    BY <2>1, <2>2 DEF Ids
<1>9. PoolOK(q)
  BY <1>2, <1>3, <1>4, <1>5, <1>6, <1>7, <1>8 DEF PoolOK
<1> QED
  BY <1>9 DEF q

(* removeTuioCursor is Removes of one. *)
LEMMA OneIsRemove ==
  ASSUME NEW p, PoolOK(p), NEW e \in p.live
  PROVE  RemoveOne(p, e) = Removes(p, {e})
<1>0. /\ p = [live |-> p.live, free |-> p.free, max |-> p.max]
      /\ p.max \in Int
      /\ \A f \in p.live \cup p.free : f.id \in 0 .. p.max
  BY DEF PoolOK, PoolType, Ids
<1>1. Ids({e}) = {e.id}
  BY DEF Ids
<1>2. CASE e.id = p.max
  <2> DEFINE h == Highest(p.live \ {e})
  <2>1. ~ (e.id <= h)
    <3>1. Ids(p.live \ {e}) \subseteq 0 .. (p.max - 1)
      <4>1. \A f \in p.live \ {e} : f.id # p.max
        BY <1>2 DEF PoolOK, DistinctIds
      <4> QED
        BY <1>0, <4>1 DEF Ids
    <3>2. p.max - 1 \in Int /\ p.max - 1 >= -1
      BY <1>0, <1>2
    <3>3. h \in Int /\ h <= p.max - 1
      BY <3>1, <3>2, HighestIsMax
    <3> HIDE DEF h
    <3> QED
      BY <1>0, <1>2, <3>3
  <2>2. {f \in p.free : f.id <= h} = {f \in p.free \cup {e} : f.id <= h}
    BY <2>1
  <2> QED
    BY <1>1, <1>2, <2>2 DEF RemoveOne, Removes
<1>3. CASE e.id # p.max
  <2>1. e.id < p.max
    BY <1>0, <1>3
  <2>2. {f \in p.free \cup {e} : f.id <= p.max} = p.free \cup {e}
    BY <1>0, <2>1
  <2>3. RemoveOne(p, e) = [live |-> p.live \ {e}, free |-> p.free \cup {e}, max |-> p.max]
    BY <1>0, <1>3, <2>1 DEF RemoveOne
  <2>4. Removes(p, {e}) = [live |-> p.live \ {e}, free |-> p.free \cup {e}, max |-> p.max]
    BY <1>1, <1>3, <2>2 DEF Removes
  <2> QED
    BY <2>3, <2>4
<1> QED
  BY <1>2, <1>3

(* The order of several removals does not matter. *)
LEMMA RemovalsCommute ==
  ASSUME NEW p, PoolOK(p), NEW S \in SUBSET p.live, NEW e \in S
  PROVE  Removes(p, S) = Removes(RemoveOne(p, e), S \ {e})
<1> DEFINE q == Removes(p, {e})
           h == Highest(p.live \ S)
<1>1. RemoveOne(p, e) = q /\ PoolOK(q)
  BY OneIsRemove, RemoveKeepsPool
<1>0. {e} \in SUBSET p.live
  OBVIOUS
<1>2. q = [live |-> p.live \ {e},
           free |-> {f \in p.free \cup {e} : f.id <= Highest(p.live \ {e})},
           max  |-> Highest(p.live \ {e})]
  BY <1>0, RemoveTop
<1>3. S \ {e} \in SUBSET q.live /\ q.live \ (S \ {e}) = p.live \ S
  <2> HIDE DEF q
  <2>1. q.live = p.live \ {e}
    BY <1>2
  <2> QED
    BY <2>1
<1>4. Removes(q, S \ {e}) = [live |-> p.live \ S,
                            free |-> {f \in q.free \cup (S \ {e}) : f.id <= h},
                            max  |-> h]
  <2>1. Removes(q, S \ {e}) =
          [live |-> q.live \ (S \ {e}),
           free |-> {f \in q.free \cup (S \ {e}) : f.id <= Highest(q.live \ (S \ {e}))},
           max  |-> Highest(q.live \ (S \ {e}))]
    <3> HIDE DEF q
    <3> QED
      BY <1>1, <1>3, RemoveTop
  <2> QED
    BY <1>3, <2>1
<1>5. h <= Highest(p.live \ {e})
  <2>1. Ids(p.live \ {e}) \subseteq 0 .. p.max /\ p.max \in Int /\ p.max >= -1
    BY DEF PoolOK, PoolType, Ids
  <2>2. Ids(p.live \ S) \subseteq Ids(p.live \ {e})
    BY DEF Ids
  <2>3. /\ h \in Int /\ h >= -1
        /\ h >= 0 => h \in Ids(p.live \ S)
    BY <2>1, <2>2, HighestIsMax
  <2>4. /\ Highest(p.live \ {e}) \in Int /\ Highest(p.live \ {e}) >= -1
        /\ \A n \in Ids(p.live \ {e}) : n <= Highest(p.live \ {e})
    BY <2>1, HighestIsMax
  <2> HIDE DEF h
  <2> QED
    BY <2>2, <2>3, <2>4
<1>6. \A f \in p.free \cup S : f.id \in Int
  BY DEF PoolOK, PoolType, Entry
<1>7. h \in Int /\ Highest(p.live \ {e}) \in Int
  <2>1. /\ Ids(p.live \ {e}) \subseteq 0 .. p.max
        /\ Ids(p.live \ S) \subseteq 0 .. p.max
        /\ p.max \in Int /\ p.max >= -1
    BY DEF PoolOK, PoolType, Ids
  <2> QED
    BY <2>1, HighestIsMax
<1>8. {f \in q.free \cup (S \ {e}) : f.id <= h} = {f \in p.free \cup S : f.id <= h}
  <2> HIDE DEF h, q
  <2> QED
    BY <1>2, <1>5, <1>6, <1>7
<1>9. Removes(p, S) = [live |-> p.live \ S,
                      free |-> {f \in p.free \cup S : f.id <= h},
                      max  |-> h]
  BY RemoveTop
<1> QED
  BY <1>1, <1>4, <1>8, <1>9
-----------------------------------------------------------------------------
(***************************************************************************)
(* The registry of TuioManager is sound for every number of sessions: the  *)
(* numbers of cursors and blobs are dense and distinct, session numbers    *)
(* are never shared.  SessionsOK makes NumbersOK inductive, since a new    *)
(* cursor is told from the ones it joins by its session number.            *)
(***************************************************************************)

RegistryOK == MTypeOK /\ NumbersOK /\ SessionsOK

LEMMA RegistryInit == MInit => RegistryOK
<1> SUFFICES ASSUME MInit PROVE RegistryOK
  OBVIOUS
<1>1. NumbersOK
  BY EmptyPoolOK DEF MInit, NumbersOK, Pools
<1>2. objects = {} /\ cursors.live = {} /\ cursors.free = {} /\ blobs.live = {} /\ blobs.free = {}
  BY DEF MInit, EmptyPool
<1>3. SessionsOK
  BY <1>2 DEF SessionsOK, Everybody, OnTable, Kinds
<1>4. MTypeOK
  BY DEF MInit, MTypeOK, EmptyPool, PoolType
<1> QED
  BY <1>1, <1>3, <1>4 DEF RegistryOK

(* Those of each kind, before and after a step. *)
LEMMA TableIs ==
  /\ OnTable("object") = objects
  /\ OnTable("cursor") = cursors.live
  /\ OnTable("blob") = blobs.live
  /\ Present = Sids(objects) \cup Sids(cursors.live) \cup Sids(blobs.live)
  /\ OnTable("object")' = objects'
  /\ OnTable("cursor")' = cursors'.live
  /\ OnTable("blob")' = blobs'.live
  /\ Present' = Sids(objects') \cup Sids(cursors'.live) \cup Sids(blobs'.live)
<1>1. /\ OnTable("object") = objects
      /\ OnTable("cursor") = cursors.live
      /\ OnTable("blob") = blobs.live
  BY DEF OnTable
<1>2. /\ OnTable("object")' = objects'
      /\ OnTable("cursor")' = cursors'.live
      /\ OnTable("blob")' = blobs'.live
  BY DEF OnTable
<1>3. Present = Sids(objects) \cup Sids(cursors.live) \cup Sids(blobs.live)
  BY <1>1 DEF Present, Kinds
<1>4. Present' = Sids(objects') \cup Sids(cursors'.live) \cup Sids(blobs'.live)
  BY <1>2 DEF Present, Kinds
<1> QED
  BY <1>1, <1>2, <1>3, <1>4

(* Pools and sessions, kind by kind: what RegistryOK says without CASE. *)
LEMMA RegistryFacts ==
  ASSUME RegistryOK
  PROVE  /\ objects \subseteq Entry
         /\ PoolOK(cursors) /\ PoolOK(blobs)
         /\ cursors.live \subseteq Entry /\ cursors.free \subseteq Entry
         /\ blobs.live \subseteq Entry /\ blobs.free \subseteq Entry
         /\ sessionID \in Int /\ sessionID >= -1
         /\ touched \cup added \cup moving \subseteq Present
         /\ changed \subseteq Kinds
         /\ \A e \in Everybody : e.sid <= sessionID
         /\ \A e, f \in Everybody : e.sid = f.sid => e = f
         /\ objects \cap cursors.live = {}
         /\ objects \cap blobs.live = {}
         /\ cursors.live \cap blobs.live = {}
<1>1. PoolOK(cursors) /\ PoolOK(blobs)
  BY DEF RegistryOK, NumbersOK, Pools
<1>2. /\ objects \cap cursors.live = {}
      /\ objects \cap blobs.live = {}
      /\ cursors.live \cap blobs.live = {}
  BY TableIs DEF RegistryOK, SessionsOK, Kinds
<1>3. /\ cursors.live \subseteq Entry /\ cursors.free \subseteq Entry
      /\ blobs.live \subseteq Entry /\ blobs.free \subseteq Entry
  BY <1>1 DEF PoolOK, PoolType
<1> QED
  BY <1>1, <1>2, <1>3 DEF RegistryOK, MTypeOK, SessionsOK

(* And back, for the state after a step. *)
LEMMA RegistryFromFacts ==
  ASSUME objects' \subseteq Entry,
         PoolOK(cursors') /\ PoolOK(blobs'),
         sessionID' \in Int /\ sessionID' >= -1,
         touched' \cup added' \cup moving' \subseteq Present',
         changed' \subseteq Kinds,
         \A e \in Everybody' : e.sid <= sessionID',
         \A e, f \in Everybody' : e.sid = f.sid => e = f,
         objects' \cap cursors'.live = {},
         objects' \cap blobs'.live = {},
         cursors'.live \cap blobs'.live = {}
  PROVE  RegistryOK'
<1>1. NumbersOK'
  BY DEF NumbersOK, Pools
<1>2. SessionsOK'
  <2>1. \A sort, other \in Kinds : sort # other => (OnTable(sort) \cap OnTable(other))' = {}
    <3> SUFFICES ASSUME NEW sort \in Kinds, NEW other \in Kinds, sort # other
                 PROVE  OnTable(sort)' \cap OnTable(other)' = {}
      OBVIOUS
    <3> QED
      BY TableIs DEF Kinds
  <2> QED
    BY <2>1 DEF SessionsOK
<1>3. MTypeOK'
  BY DEF MTypeOK, PoolOK
<1> QED
  BY <1>1, <1>2, <1>3 DEF RegistryOK

(* What an add puts on the table. *)
LEMMA AddedEntry ==
  ASSUME NEW p, PoolOK(p), NEW sid \in Nat, NEW q \in Adds(p, sid)
  PROVE  \E x \in Entry : x.sid = sid /\ q.live = p.live \cup {x} /\ q.free \subseteq p.free
<1>0. p \in PoolType /\ IsFiniteSet(p.live)
  BY DEF PoolOK
<1>1. CASE TakesFree(p)
  <2>1. PICK f \in p.free :
          q = [p EXCEPT !.live = @ \cup {[sid |-> sid, id |-> f.id]}, !.free = @ \ {f}]
    BY <1>1 DEF Adds
  <2>2. [sid |-> sid, id |-> f.id] \in Entry
    BY <1>0, <2>1 DEF PoolType, Entry
  <2>3. q.live = p.live \cup {[sid |-> sid, id |-> f.id]} /\ q.free = p.free \ {f}
    BY <1>0, <2>1 DEF PoolType
  <2> QED
    BY <2>2, <2>3
<1>2. CASE ~TakesFree(p)
  <2>1. Cardinality(p.live) \in Nat
    BY <1>0, FS_CardinalityType
  <2>2. [sid |-> sid, id |-> Cardinality(p.live)] \in Entry
    BY <2>1 DEF Entry
  <2>3. q.live = p.live \cup {[sid |-> sid, id |-> Cardinality(p.live)]} /\ q.free = p.free
    BY <1>0, <1>2 DEF Adds, PoolType
  <2> QED
    BY <2>2, <2>3
<1> QED
  BY <1>1, <1>2

(* A newcomer with the next session number, wherever it is put. *)
LEMMA NewcomerIsNew ==
  ASSUME RegistryOK, NEW x \in Entry, x.sid = sessionID + 1
  PROVE  x \notin Everybody /\ sessionID + 1 \in Nat
<1>1. sessionID \in Int /\ sessionID >= -1
  BY RegistryFacts
<1> QED
  BY <1>1, RegistryFacts

LEMMA AddCursorStep == RegistryOK /\ AddCursor => RegistryOK'
<1> SUFFICES ASSUME RegistryOK, AddCursor PROVE RegistryOK'
  OBVIOUS
<1>1. /\ NewSession("cursor") /\ cursors' \in Adds(cursors, sessionID + 1)
      /\ objects' = objects /\ blobs' = blobs
  BY DEF AddCursor
<1>2. sessionID \in Int /\ sessionID >= -1 /\ sessionID + 1 \in Nat /\ sessionID' = sessionID + 1
  BY <1>1, RegistryFacts DEF NewSession
<1>3. PICK x \in Entry : /\ x.sid = sessionID + 1
                         /\ cursors'.live = cursors.live \cup {x}
                         /\ cursors'.free \subseteq cursors.free
  BY <1>1, <1>2, AddedEntry, RegistryFacts
<1>4. x \notin Everybody /\ Everybody' \subseteq Everybody \cup {x}
  BY <1>1, <1>3, NewcomerIsNew DEF Everybody
<1>5. sessionID + 1 \notin Sids(cursors.live \cup cursors.free)
  BY <1>2, RegistryFacts DEF Sids, Everybody
<1>6. PoolOK(cursors')
  BY <1>1, <1>2, <1>5, AddKeepsPool, RegistryFacts
<1>7. Present' = Present \cup {sessionID + 1}
  BY <1>1, <1>3, TableIs DEF Sids
<1>8. touched' \cup added' \cup moving' \subseteq Present' /\ changed' \subseteq Kinds
  BY <1>1, <1>7, RegistryFacts DEF NewSession, Changed, Kinds
<1>9. \A e \in Everybody' : e.sid <= sessionID'
  BY <1>2, <1>3, <1>4, RegistryFacts DEF Everybody, Entry
<1>10. \A e, f \in Everybody' : e.sid = f.sid => e = f
  BY <1>2, <1>3, <1>4, RegistryFacts
<1>11. /\ objects' \cap cursors'.live = {}
       /\ objects' \cap blobs'.live = {}
       /\ cursors'.live \cap blobs'.live = {}
  BY <1>1, <1>3, <1>4, RegistryFacts DEF Everybody
<1> QED
  BY <1>1, <1>2, <1>6, <1>8, <1>9, <1>10, <1>11, RegistryFacts, RegistryFromFacts

LEMMA AddBlobStep == RegistryOK /\ AddBlob => RegistryOK'
<1> SUFFICES ASSUME RegistryOK, AddBlob PROVE RegistryOK'
  OBVIOUS
<1>1. /\ NewSession("blob") /\ blobs' \in Adds(blobs, sessionID + 1)
      /\ objects' = objects /\ cursors' = cursors
  BY DEF AddBlob
<1>2. sessionID \in Int /\ sessionID >= -1 /\ sessionID + 1 \in Nat /\ sessionID' = sessionID + 1
  BY <1>1, RegistryFacts DEF NewSession
<1>3. PICK x \in Entry : /\ x.sid = sessionID + 1
                         /\ blobs'.live = blobs.live \cup {x}
                         /\ blobs'.free \subseteq blobs.free
  BY <1>1, <1>2, AddedEntry, RegistryFacts
<1>4. x \notin Everybody /\ Everybody' \subseteq Everybody \cup {x}
  BY <1>1, <1>3, NewcomerIsNew DEF Everybody
<1>5. sessionID + 1 \notin Sids(blobs.live \cup blobs.free)
  BY <1>2, RegistryFacts DEF Sids, Everybody
<1>6. PoolOK(blobs')
  BY <1>1, <1>2, <1>5, AddKeepsPool, RegistryFacts
<1>7. Present' = Present \cup {sessionID + 1}
  BY <1>1, <1>3, TableIs DEF Sids
<1>8. touched' \cup added' \cup moving' \subseteq Present' /\ changed' \subseteq Kinds
  BY <1>1, <1>7, RegistryFacts DEF NewSession, Changed, Kinds
<1>9. \A e \in Everybody' : e.sid <= sessionID'
  BY <1>2, <1>3, <1>4, RegistryFacts DEF Everybody, Entry
<1>10. \A e, f \in Everybody' : e.sid = f.sid => e = f
  BY <1>2, <1>3, <1>4, RegistryFacts
<1>11. /\ objects' \cap cursors'.live = {}
       /\ objects' \cap blobs'.live = {}
       /\ cursors'.live \cap blobs'.live = {}
  BY <1>1, <1>3, <1>4, RegistryFacts DEF Everybody
<1> QED
  BY <1>1, <1>2, <1>6, <1>8, <1>9, <1>10, <1>11, RegistryFacts, RegistryFromFacts

LEMMA AddObjectStep == ASSUME NEW symbol \in Symbols
                       PROVE  RegistryOK /\ AddObject(symbol) => RegistryOK'
<1> SUFFICES ASSUME RegistryOK, AddObject(symbol) PROVE RegistryOK'
  OBVIOUS
<1> DEFINE x == [sid |-> sessionID + 1, id |-> symbol]
<1>1. /\ NewSession("object") /\ objects' = objects \cup {x}
      /\ cursors' = cursors /\ blobs' = blobs
  BY DEF AddObject
<1>2. sessionID \in Int /\ sessionID >= -1 /\ sessionID + 1 \in Nat /\ sessionID' = sessionID + 1
  BY <1>1, RegistryFacts DEF NewSession
<1>3. x \in Entry /\ x.sid = sessionID + 1
  BY <1>2, SymbolsAssumption DEF Entry
<1> HIDE DEF x
<1>4. x \notin Everybody /\ Everybody' = Everybody \cup {x}
  BY <1>1, <1>3, NewcomerIsNew DEF Everybody
<1>5. Present' = Present \cup {sessionID + 1}
  BY <1>1, <1>3, TableIs DEF Sids
<1>6. touched' \cup added' \cup moving' \subseteq Present' /\ changed' \subseteq Kinds
  BY <1>1, <1>5, RegistryFacts DEF NewSession, Changed, Kinds
<1>7. \A e \in Everybody' : e.sid <= sessionID'
  BY <1>2, <1>3, <1>4, RegistryFacts DEF Everybody, Entry
<1>8. \A e, f \in Everybody' : e.sid = f.sid => e = f
  BY <1>2, <1>3, <1>4, RegistryFacts
<1>9. /\ objects' \cap cursors'.live = {}
      /\ objects' \cap blobs'.live = {}
      /\ cursors'.live \cap blobs'.live = {}
  BY <1>1, <1>4, RegistryFacts DEF Everybody
<1> QED
  BY <1>1, <1>2, <1>3, <1>6, <1>7, <1>8, <1>9, RegistryFacts, RegistryFromFacts

(* Steps that take nobody off and put nobody on. *)
LEMMA SameTableStep ==
  ASSUME RegistryOK, UNCHANGED <<objects, cursors, blobs, sessionID>>,
         touched' \cup added' \cup moving' \subseteq Present, changed' \subseteq Kinds
  PROVE  RegistryOK'
<1>1. Everybody' = Everybody /\ Present' = Present
  BY TableIs DEF Everybody
<1> QED
  BY <1>1, RegistryFacts, RegistryFromFacts

LEMMA OnTablePresent ==
  ASSUME NEW sort \in Kinds
  PROVE  Sids(OnTable(sort)) \subseteq Present
BY DEF Present

LEMMA UpdateStep ==
  ASSUME NEW sort \in Kinds, NEW e \in OnTable(sort)
  PROVE  RegistryOK /\ Update(sort, e) => RegistryOK'
<1> SUFFICES ASSUME RegistryOK, Update(sort, e) PROVE RegistryOK'
  OBVIOUS
<1>1. e.sid \in Present
  BY OnTablePresent DEF Sids
<1>2. touched' \cup added' \cup moving' \subseteq Present /\ changed' \subseteq Kinds
  BY <1>1, RegistryFacts DEF Update, Changed
<1> QED
  BY <1>2, SameTableStep DEF Update

LEMMA StopStep == ASSUME NEW sort \in Kinds
                  PROVE  RegistryOK /\ StopUntouchedMoving(sort) => RegistryOK'
<1> SUFFICES ASSUME RegistryOK, StopUntouchedMoving(sort) PROVE RegistryOK'
  OBVIOUS
<1> DEFINE stopped == Sids({e \in Untouched(sort) : e.sid \in moving})
<1>1. stopped \subseteq Present
  BY OnTablePresent DEF Sids, Untouched
<1>2. /\ touched' \in {touched, touched \cup stopped}
      /\ moving' \subseteq moving \cup stopped /\ added' = added
      /\ changed' \subseteq changed \cup {sort}
  BY DEF StopUntouchedMoving
<1> HIDE DEF stopped
<1>3. touched' \cup added' \cup moving' \subseteq Present /\ changed' \subseteq Kinds
  BY <1>1, <1>2, RegistryFacts
<1> QED
  BY <1>3, SameTableStep DEF StopUntouchedMoving

LEMMA InitFrameStep == RegistryOK /\ InitFrame => RegistryOK'
<1> SUFFICES ASSUME RegistryOK, InitFrame PROVE RegistryOK'
  OBVIOUS
<1>1. touched' \cup added' \cup moving' \subseteq Present /\ changed' \subseteq Kinds
  BY RegistryFacts DEF InitFrame
<1> QED
  BY <1>1, SameTableStep DEF InitFrame

(* What is left of a pool, and that nobody new gets in. *)
LEMMA RemovedEntries ==
  ASSUME NEW p, PoolOK(p), NEW S \in SUBSET p.live
  PROVE  /\ PoolOK(Removes(p, S))
         /\ Removes(p, S).live = p.live \ S
         /\ Removes(p, S).free \subseteq p.free \cup S
<1>1. PoolOK(Removes(p, S))
  BY RemoveKeepsPool
<1>2. Removes(p, S).live = p.live \ S
  BY DEF Removes
<1>3. Removes(p, S).free \subseteq p.free \cup S
  BY DEF Removes
<1> QED
  BY <1>1, <1>2, <1>3

(* The lists after some of one kind are taken off, in the terms of         *)
(* RegistryFromFacts.                                                      *)
LEMMA TakenOff ==
  ASSUME RegistryOK, NEW sort \in Kinds, NEW S \in SUBSET OnTable(sort), TakeOff(sort, S)
  PROVE  /\ PoolOK(cursors') /\ PoolOK(blobs')
         /\ objects' \subseteq objects
         /\ cursors'.live \subseteq cursors.live
         /\ blobs'.live \subseteq blobs.live
         /\ Everybody' \subseteq Everybody
         /\ Present \subseteq Present' \cup Sids(S)
<1>1. CASE sort = "object"
  <2>1. objects' = objects \ S /\ cursors' = cursors /\ blobs' = blobs
    BY <1>1 DEF TakeOff
  <2> QED
    BY <2>1, RegistryFacts, TableIs DEF Everybody, Sids
<1>2. CASE sort = "cursor"
  <2>1. objects' = objects /\ cursors' = Removes(cursors, S) /\ blobs' = blobs
    BY <1>2 DEF TakeOff
  <2>2. S \in SUBSET cursors.live
    BY <1>2, TableIs
  <2>3. /\ PoolOK(cursors')
        /\ cursors'.live = cursors.live \ S
        /\ cursors'.free \subseteq cursors.free \cup S
    BY <2>1, <2>2, RemovedEntries, RegistryFacts
  <2> QED
    BY <2>1, <2>2, <2>3, RegistryFacts, TableIs DEF Everybody, Sids
<1>3. CASE sort = "blob"
  <2>1. objects' = objects /\ cursors' = cursors /\ blobs' = Removes(blobs, S)
    BY <1>3 DEF TakeOff
  <2>2. S \in SUBSET blobs.live
    BY <1>3, TableIs
  <2>3. /\ PoolOK(blobs')
        /\ blobs'.live = blobs.live \ S
        /\ blobs'.free \subseteq blobs.free \cup S
    BY <2>1, <2>2, RemovedEntries, RegistryFacts
  <2> QED
    BY <2>1, <2>2, <2>3, RegistryFacts, TableIs DEF Everybody, Sids
<1> QED
  BY <1>1, <1>2, <1>3 DEF Kinds

LEMMA TakeOffStep ==
  ASSUME NEW sort \in Kinds, NEW S \in SUBSET OnTable(sort)
  PROVE  RegistryOK /\ TakeOff(sort, S) => RegistryOK'
<1> SUFFICES ASSUME RegistryOK, TakeOff(sort, S) PROVE RegistryOK'
  OBVIOUS
<1>1. /\ PoolOK(cursors') /\ PoolOK(blobs')
      /\ objects' \subseteq objects
      /\ cursors'.live \subseteq cursors.live
      /\ blobs'.live \subseteq blobs.live
      /\ Everybody' \subseteq Everybody
      /\ Present \subseteq Present' \cup Sids(S)
  BY TakenOff
<1>2. /\ touched' = touched \ Sids(S) /\ added' = added \ Sids(S) /\ moving' = moving \ Sids(S)
      /\ changed' \subseteq changed \cup {sort} /\ sessionID' = sessionID
  BY DEF TakeOff, Forget
<1>3. touched' \cup added' \cup moving' \subseteq Present' /\ changed' \subseteq Kinds
  BY <1>1, <1>2, RegistryFacts
<1>4. \A e \in Everybody' : e.sid <= sessionID'
  BY <1>1, <1>2, RegistryFacts
<1>5. \A e, f \in Everybody' : e.sid = f.sid => e = f
  BY <1>1, RegistryFacts
<1>6. /\ objects' \cap cursors'.live = {}
      /\ objects' \cap blobs'.live = {}
      /\ cursors'.live \cap blobs'.live = {}
      /\ objects' \subseteq Entry /\ sessionID' \in Int /\ sessionID' >= -1
  BY <1>1, <1>2, RegistryFacts
<1> QED
  BY <1>1, <1>3, <1>4, <1>5, <1>6, RegistryFromFacts

(* RegistryOK is inductive: one step per action. *)
LEMMA RegistryNext == RegistryOK /\ [MNext]_mvars => RegistryOK'
<1> SUFFICES ASSUME RegistryOK, [MNext]_mvars PROVE RegistryOK'
  OBVIOUS
<1>1. ASSUME NEW symbol \in Symbols, AddObject(symbol) PROVE RegistryOK'
  BY <1>1, AddObjectStep
<1>2. CASE AddCursor
  BY <1>2, AddCursorStep
<1>3. CASE AddBlob
  BY <1>3, AddBlobStep
<1>4. ASSUME NEW sort \in Kinds, NEW e \in OnTable(sort), Update(sort, e)
      PROVE  RegistryOK'
  BY <1>4, UpdateStep
<1>5. ASSUME NEW sort \in Kinds, NEW e \in OnTable(sort), Take(sort, e)
      PROVE  RegistryOK'
  <2>1. {e} \in SUBSET OnTable(sort)
    OBVIOUS
  <2> QED
    BY <1>5, <2>1, TakeOffStep DEF Take
<1>6. ASSUME NEW sort \in Kinds, RemoveUntouchedStopped(sort)
      PROVE  RegistryOK'
  <2>1. {e \in Untouched(sort) : e.sid \notin moving} \in SUBSET OnTable(sort)
    BY DEF Untouched
  <2> QED
    BY <1>6, <2>1, TakeOffStep DEF RemoveUntouchedStopped
<1>7. ASSUME NEW sort \in Kinds, Reset(sort) PROVE RegistryOK'
  <2>1. OnTable(sort) \in SUBSET OnTable(sort)
    OBVIOUS
  <2> QED
    BY <1>7, <2>1, TakeOffStep DEF Reset
<1>8. ASSUME NEW sort \in Kinds, StopUntouchedMoving(sort) PROVE RegistryOK'
  BY <1>8, StopStep
<1>9. CASE InitFrame
  BY <1>9, InitFrameStep
<1>10. CASE UNCHANGED mvars
  <2>1. touched' \cup added' \cup moving' \subseteq Present /\ changed' \subseteq Kinds
    BY <1>10, RegistryFacts DEF mvars
  <2> QED
    BY <1>10, <2>1, SameTableStep DEF mvars
<1> QED
  BY <1>1, <1>2, <1>3, <1>4, <1>5, <1>6, <1>7, <1>8, <1>9, <1>10 DEF MNext

(* In every state, for any number of sessions: types and states, numbers   *)
(* and session numbers are as TuioManager.cpp means them to be.            *)
THEOREM RegistryCorrect == MSpec => []RegistryOK
<1> QED
  BY RegistryInit, RegistryNext, PTL DEF MSpec

(* Every session on the table is known to the model's times and states. *)
THEOREM RegistryTypes == MSpec => []MTypeOK
<1>1. RegistryOK => MTypeOK
  BY DEF RegistryOK
<1> QED
  BY <1>1, RegistryCorrect, PTL

(* addTuioCursor always finds the gap it looks for, and never gives out a  *)
(* number that is in use.                                                  *)
THEOREM NumbersAreDense == MSpec => []NumbersOK
<1>1. RegistryOK => NumbersOK
  BY DEF RegistryOK
<1> QED
  BY <1>1, RegistryCorrect, PTL

(* A session number stands for one object, cursor or blob for ever. *)
THEOREM SessionsAreUnique == MSpec => []SessionsOK
<1>1. RegistryOK => SessionsOK
  BY DEF RegistryOK
<1> QED
  BY <1>1, RegistryCorrect, PTL

(* Of a pool with dense numbers a set is removed in any order alike. *)
LEMMA NumbersMakeOrderIrrelevant == RegistryOK => OrderIrrelevant
<1> SUFFICES ASSUME RegistryOK, NEW p \in Pools, NEW S \in SUBSET p.live, NEW e \in S
             PROVE  Removes(p, S) = Removes(RemoveOne(p, e), S \ {e})
  BY DEF OrderIrrelevant
<1>1. PoolOK(p)
  BY DEF RegistryOK, NumbersOK
<1> QED
  BY <1>1, RemovalsCommute

(* The loops over cursorList and blobList leave the same pool whatever the *)
(* order of the list.                                                      *)
THEOREM LoopOrderIsIrrelevant == MSpec => []OrderIrrelevant
BY NumbersMakeOrderIrrelevant, RegistryCorrect, PTL
-----------------------------------------------------------------------------
(***************************************************************************)
(* What the receivers of a TuioServer know between two frames is right for *)
(* every number of sessions and every choice of profiles and modes.        *)
(*                                                                         *)
(* AliveInSync and DataInSync speak of the end of a frame only.  Within a  *)
(* frame a list may lag behind the table, but only that of a kind that     *)
(* changed, and data may be unsent, but only that of those with the        *)
(* frame's time: this is what WireOK adds.  Sessions must be unique for    *)
(* it, or the change of one kind could touch a member of another.          *)
(***************************************************************************)

(* Only the list of a kind that changed in this frame is out of date. *)
AliveLags == \A sort \in Kinds :
               alive[sort] = Sids(Listed(sort)) \/ (frame = "open" /\ sort \in changed)

(* Only data that this frame's bundle will have is unsent. *)
DataLags == \A sort \in Kinds : \A e \in Listed(sort) :
              e.sid \in unsent => frame = "open" /\ sort \in changed /\ e.sid \in touched

WireOK == RegistryOK /\ AliveLags /\ DataLags

LEMMA WireInit == SInit => WireOK
<1> SUFFICES ASSUME SInit PROVE WireOK
  OBVIOUS
<1>1. RegistryOK
  BY RegistryInit DEF SInit
<1>2. \A sort \in Kinds : OnTable(sort) = {}
  BY TableIs DEF SInit, MInit, EmptyPool, Kinds
<1>3. \A sort \in Kinds : Listed(sort) = {}
  BY <1>2 DEF Listed
<1>4. AliveLags
  BY <1>3 DEF AliveLags, SInit, Sids
<1>5. DataLags
  BY <1>3 DEF DataLags
<1> QED
  BY <1>1, <1>4, <1>5 DEF WireOK

(* A change within a frame concerns the sessions in A: the others stay as  *)
(* they are, those of A that are on the table have the frame's time, and   *)
(* whoever comes, goes or is written asks for a bundle of its kind.        *)
Concerns(A) ==
  /\ unsent' \subseteq unsent \cup A
  /\ changed \subseteq changed'
  /\ \A sort \in Kinds : \A e \in OnTable(sort)' :
       \/ e.sid \in A /\ sort \in changed' /\ e.sid \in touched'
       \/ /\ e.sid \notin A
          /\ e \in OnTable(sort)
          /\ e.sid \in added' <=> e.sid \in added
          /\ e.sid \in touched => e.sid \in touched'
  /\ \A sort \in Kinds : sort \notin changed' =>
       \A e \in OnTable(sort) : e \in OnTable(sort)' /\ e.sid \notin A

LEMMA ChangeKeepsLags ==
  ASSUME AliveLags, DataLags, frame = "open", UNCHANGED <<frame, alive>>, NEW A, Concerns(A)
  PROVE  AliveLags' /\ DataLags'
<1>1. ASSUME NEW sort \in Kinds, sort \notin changed'
      PROVE  Listed(sort)' = Listed(sort)
  <2>1. \A e : e \in OnTable(sort)' <=> e \in OnTable(sort)
    BY <1>1 DEF Concerns
  <2>2. \A e \in OnTable(sort)' : e.sid \in added' <=> e.sid \in added
    BY <1>1 DEF Concerns
  <2> QED
    BY <2>1, <2>2 DEF Listed
<1>2. AliveLags'
  <2> SUFFICES ASSUME NEW sort \in Kinds, sort \notin changed'
               PROVE  alive[sort]' = Sids(Listed(sort))'
    BY DEF AliveLags
  <2>1. sort \notin changed
    BY DEF Concerns
  <2>2. alive[sort] = Sids(Listed(sort))
    BY <2>1 DEF AliveLags
  <2> QED
    BY <1>1, <2>2 DEF Sids
<1>3. DataLags'
  <2> SUFFICES ASSUME NEW sort \in Kinds, NEW e \in Listed(sort)', e.sid \in unsent'
               PROVE  sort \in changed' /\ e.sid \in touched'
    BY DEF DataLags
  <2>1. e \in OnTable(sort)' /\ (sort = "object" \/ e.sid \notin added')
    BY DEF Listed
  <2>2. CASE e.sid \in A
    BY <2>1, <2>2 DEF Concerns
  <2>3. CASE e.sid \notin A
    <3>1. /\ e \in OnTable(sort) /\ e.sid \in unsent
          /\ e.sid \in added' <=> e.sid \in added
          /\ e.sid \in touched => e.sid \in touched'
      BY <2>1, <2>3 DEF Concerns
    <3>2. e \in Listed(sort)
      BY <2>1, <3>1 DEF Listed
    <3> QED
      BY <3>1, <3>2 DEF DataLags, Concerns
  <2> QED
    BY <2>2, <2>3
<1> QED
  BY <1>2, <1>3

(* Sessions of one kind are not those of another. *)
LEMMA OneKindEach ==
  ASSUME RegistryOK, NEW sort \in Kinds, NEW other \in Kinds,
         NEW e \in OnTable(sort), NEW f \in OnTable(other), e.sid = f.sid
  PROVE  sort = other /\ e = f
<1>1. e \in Everybody /\ f \in Everybody
  BY TableIs DEF Everybody, Kinds
<1>2. e = f
  BY <1>1, RegistryFacts
<1> QED
  BY <1>2 DEF RegistryOK, SessionsOK
-----------------------------------------------------------------------------
(* An add concerns the newcomer alone. *)
LEMMA NewSessionConcerns ==
  ASSUME RegistryOK, NEW sort \in Kinds, NewSession(sort), Wrote({sessionID + 1}),
         NEW x, x.sid = sessionID + 1, OnTable(sort)' = OnTable(sort) \cup {x},
         \A other \in Kinds \ {sort} : OnTable(other)' = OnTable(other)
  PROVE  Concerns({sessionID + 1})
<1> DEFINE A == {sessionID + 1}
<1>1. \A other \in Kinds : \A e \in OnTable(other) : e.sid \notin A
  <2> SUFFICES ASSUME NEW other \in Kinds, NEW e \in OnTable(other)
               PROVE  e.sid # sessionID + 1
    OBVIOUS
  <2>1. e \in Everybody /\ e \in Entry
    BY TableIs, RegistryFacts DEF Everybody, Kinds
  <2> QED
    BY <2>1, RegistryFacts DEF Entry
<1>2. /\ unsent' \subseteq unsent \cup A
      /\ changed' = changed \cup {sort}
      /\ touched' = touched \cup A
      /\ added' = added \cup A
  BY DEF Wrote, NewSession, Changed
<1> HIDE DEF A
<1>3. x.sid \in A
  BY DEF A
<1>4. ASSUME NEW other \in Kinds, NEW e \in OnTable(other)'
      PROVE  \/ e.sid \in A /\ other \in changed' /\ e.sid \in touched'
             \/ /\ e.sid \notin A
                /\ e \in OnTable(other)
                /\ e.sid \in added' <=> e.sid \in added
                /\ e.sid \in touched => e.sid \in touched'
  <2>1. CASE e \in OnTable(other)
    BY <1>1, <1>2, <2>1
  <2>2. CASE e \notin OnTable(other)
    <3>1. other = sort /\ e = x
      BY <1>4, <2>2
    <3> QED
      BY <1>2, <1>3, <3>1
  <2> QED
    BY <2>1, <2>2
<1>5. ASSUME NEW other \in Kinds, other \notin changed', NEW e \in OnTable(other)
      PROVE  e \in OnTable(other)' /\ e.sid \notin A
  BY <1>1, <1>2, <1>5
<1>6. Concerns(A)
  BY <1>2, <1>4, <1>5 DEF Concerns
<1> QED
  BY <1>6 DEF A

LEMMA AddObjectConcerns ==
  ASSUME RegistryOK, NEW symbol \in Symbols, AddObject(symbol), Wrote({sessionID + 1})
  PROVE  Concerns({sessionID + 1})
<1> DEFINE x == [sid |-> sessionID + 1, id |-> symbol]
<1>1. NewSession("object") /\ x.sid = sessionID + 1
  BY DEF AddObject
<1>2. OnTable("object")' = OnTable("object") \cup {x}
  BY TableIs DEF AddObject
<1>3. \A other \in Kinds \ {"object"} : OnTable(other)' = OnTable(other)
  BY TableIs DEF AddObject, Kinds
<1>4. "object" \in Kinds
  BY DEF Kinds
<1> HIDE DEF x
<1> QED
  BY <1>1, <1>2, <1>3, <1>4, NewSessionConcerns

LEMMA AddCursorConcerns ==
  ASSUME RegistryOK, AddCursor, Wrote({sessionID + 1})
  PROVE  Concerns({sessionID + 1})
<1>1. NewSession("cursor") /\ sessionID + 1 \in Nat /\ "cursor" \in Kinds
  BY RegistryFacts DEF AddCursor, Kinds
<1>2. PICK x \in Entry : x.sid = sessionID + 1 /\ cursors'.live = cursors.live \cup {x}
  BY <1>1, AddedEntry, RegistryFacts DEF AddCursor
<1>3. OnTable("cursor")' = OnTable("cursor") \cup {x}
  BY <1>2, TableIs
<1>4. \A other \in Kinds \ {"cursor"} : OnTable(other)' = OnTable(other)
  BY TableIs DEF AddCursor, Kinds
<1> QED
  BY <1>1, <1>2, <1>3, <1>4, NewSessionConcerns

LEMMA AddBlobConcerns ==
  ASSUME RegistryOK, AddBlob, Wrote({sessionID + 1})
  PROVE  Concerns({sessionID + 1})
<1>1. NewSession("blob") /\ sessionID + 1 \in Nat /\ "blob" \in Kinds
  BY RegistryFacts DEF AddBlob, Kinds
<1>2. PICK x \in Entry : x.sid = sessionID + 1 /\ blobs'.live = blobs.live \cup {x}
  BY <1>1, AddedEntry, RegistryFacts DEF AddBlob
<1>3. OnTable("blob")' = OnTable("blob") \cup {x}
  BY <1>2, TableIs
<1>4. \A other \in Kinds \ {"blob"} : OnTable(other)' = OnTable(other)
  BY TableIs DEF AddBlob, Kinds
<1> QED
  BY <1>1, <1>2, <1>3, <1>4, NewSessionConcerns

(* The table does not change: those of a kind that asks for a bundle are   *)
(* written.                                                                *)
LEMMA WrittenConcerns ==
  ASSUME RegistryOK, UNCHANGED <<objects, cursors, blobs>>,
         NEW sort \in Kinds, NEW S \in SUBSET OnTable(sort), Wrote(Sids(S)),
         touched \cup Sids(S) \subseteq touched',
         added' \in {added, added \ Sids(S)},
         changed' = changed \cup {sort} \/ (S = {} /\ changed' = changed)
  PROVE  Concerns(Sids(S))
<1>1. \A other \in Kinds : OnTable(other)' = OnTable(other)
  BY TableIs DEF Kinds
<1>2. ASSUME NEW other \in Kinds, NEW e \in OnTable(other), e.sid \in Sids(S)
      PROVE  other = sort /\ sort \in changed' /\ e.sid \in touched'
  <2>1. PICK f \in S : f.sid = e.sid
    BY <1>2 DEF Sids
  <2> QED
    BY <1>2, <2>1, OneKindEach
<1>3. ASSUME NEW other \in Kinds, NEW e \in OnTable(other)', e.sid \notin Sids(S)
      PROVE  /\ e \in OnTable(other)
             /\ e.sid \in added' <=> e.sid \in added
             /\ e.sid \in touched => e.sid \in touched'
  BY <1>1, <1>3
<1>4. unsent' \subseteq unsent \cup Sids(S) /\ changed \subseteq changed'
  BY DEF Wrote
<1>5. \A other \in Kinds : \A e \in OnTable(other)' :
        e.sid \in Sids(S) => other \in changed' /\ e.sid \in touched'
  BY <1>1, <1>2
<1>6. \A other \in Kinds : other \notin changed' =>
        \A e \in OnTable(other) : e \in OnTable(other)' /\ e.sid \notin Sids(S)
  BY <1>1, <1>2
<1> HIDE DEF Sids
<1> QED
  BY <1>3, <1>4, <1>5, <1>6 DEF Concerns

LEMMA UpdateConcerns ==
  ASSUME RegistryOK, NEW sort \in Kinds, NEW e \in OnTable(sort), Update(sort, e),
         Wrote({e.sid})
  PROVE  Concerns({e.sid})
<1>1. Sids({e}) = {e.sid}
  BY DEF Sids
<1>2. /\ touched' = touched \cup {e.sid} /\ added' = added \ {e.sid}
      /\ changed' = changed \cup {sort} /\ UNCHANGED <<objects, cursors, blobs>>
  BY DEF Update, Changed
<1>3. {e} \in SUBSET OnTable(sort)
  OBVIOUS
<1> QED
  BY <1>1, <1>2, <1>3, WrittenConcerns

(* An object or blob that is stopped is written, a cursor is not. *)
LEMMA StopConcerns ==
  ASSUME RegistryOK, NEW sort \in Kinds, StopUntouchedMoving(sort), Wrote(touched' \ touched)
  PROVE  \E A : Concerns(A)
<1> DEFINE S == {e \in Untouched(sort) : e.sid \in moving}
<1>1. S \in SUBSET OnTable(sort) /\ {} \in SUBSET OnTable(sort)
  BY DEF Untouched
<1>2. Sids(S) \cap touched = {} /\ Sids({}) = {} /\ (Sids(S) = {} => S = {})
  BY DEF Sids, Untouched
<1>3. /\ UNCHANGED <<objects, cursors, blobs, added>>
      /\ touched' = touched \/ touched' = touched \cup Sids(S)
      /\ changed' = IF Sids(S) = {} THEN changed ELSE changed \cup {sort}
  BY DEF StopUntouchedMoving
<1> HIDE DEF S
<1>4. CASE touched' = touched
  <2>1. Wrote(Sids({}))
    BY <1>2, <1>4
  <2>2. CASE S = {}
    <3>1. changed' = changed
      BY <1>2, <1>3, <2>2
    <3> QED
      BY <1>1, <1>2, <1>3, <1>4, <2>1, <3>1, WrittenConcerns
  <2>3. CASE S # {}
    <3>1. changed' = changed \cup {sort}
      BY <1>2, <1>3, <2>3
    <3> QED
      BY <1>1, <1>2, <1>3, <1>4, <2>1, <3>1, WrittenConcerns
  <2> QED
    BY <2>2, <2>3
<1>5. CASE touched' = touched \cup Sids(S)
  <2>1. Wrote(Sids(S))
    <3>1. touched' \ touched = Sids(S)
      BY <1>2, <1>5
    <3> QED
      BY <3>1
  <2>2. changed' = changed \cup {sort} \/ (S = {} /\ changed' = changed)
    BY <1>2, <1>3
  <2> QED
    BY <1>1, <1>3, <1>5, <2>1, <2>2, WrittenConcerns
<1> QED
  BY <1>3, <1>4, <1>5

(* A removal concerns those that leave. *)
LEMMA TakeOffConcerns ==
  ASSUME RegistryOK, NEW sort \in Kinds, NEW S \in SUBSET OnTable(sort),
         TakeOff(sort, S), Wrote({})
  PROVE  Concerns(Sids(S))
<1>1. /\ touched' = touched \ Sids(S) /\ added' = added \ Sids(S)
      /\ changed' = IF S = {} THEN changed ELSE changed \cup {sort}
  BY DEF TakeOff, Forget
<1>2. unsent' \subseteq unsent
  BY DEF Wrote
<1>3. OnTable(sort)' = OnTable(sort) \ S
  <2>1. sort = "object" => objects' = objects \ S
    BY DEF TakeOff
  <2>2. sort = "cursor" => cursors'.live = cursors.live \ S
    BY DEF TakeOff, Removes
  <2>3. sort = "blob" => blobs'.live = blobs.live \ S
    BY DEF TakeOff, Removes
  <2> QED
    BY <2>1, <2>2, <2>3, TableIs DEF Kinds
<1>4. \A other \in Kinds \ {sort} : OnTable(other)' = OnTable(other)
  BY TableIs DEF TakeOff, Kinds
<1>5. ASSUME NEW other \in Kinds, NEW e \in OnTable(other), e.sid \in Sids(S)
      PROVE  other = sort /\ e \in S
  <2>1. PICK f \in S : f.sid = e.sid
    BY <1>5 DEF Sids
  <2> QED
    BY <2>1, OneKindEach
<1>6. ASSUME NEW other \in Kinds, NEW e \in OnTable(other)'
      PROVE  e.sid \notin Sids(S) /\ e \in OnTable(other)
  <2>1. e \in OnTable(other) /\ ~(other = sort /\ e \in S)
    BY <1>3, <1>4, <1>6
  <2> QED
    BY <1>5, <2>1
<1>7. ASSUME NEW other \in Kinds, other \notin changed', NEW e \in OnTable(other)
      PROVE  e \in OnTable(other)' /\ e.sid \notin Sids(S)
  <2>1. other # sort \/ S = {}
    BY <1>1, <1>7
  <2>2. ~(other = sort /\ e \in S)
    BY <2>1
  <2>3. e.sid \notin Sids(S)
    BY <1>5, <1>7, <2>2
  <2>4. e \in OnTable(other)'
    BY <1>3, <1>4, <1>7, <2>1
  <2> QED
    BY <2>3, <2>4
<1> HIDE DEF Sids
<1> QED
  BY <1>1, <1>2, <1>6, <1>7 DEF Concerns
-----------------------------------------------------------------------------
LEMMA CommitKeepsLags ==
  ASSUME AliveLags, DataLags, CommitFrame
  PROVE  AliveLags' /\ DataLags'
<1>1. PICK due \in SUBSET Kinds :
        /\ alive' = [sort \in Kinds |-> IF sort \in Bundles(due)
                                        THEN Sids(Listed(sort)) ELSE alive[sort]]
        /\ unsent' = unsent \ UNION {Data(sort) : sort \in Bundles(due)}
  BY DEF CommitFrame
<1>2. \A sort \in Kinds : Listed(sort)' = Listed(sort)
  BY DEF CommitFrame, Listed, OnTable
<1>3. changed \subseteq Bundles(due)
  BY DEF Bundles
<1>4. \A sort \in Kinds : alive'[sort] = Sids(Listed(sort))
  BY <1>1, <1>3 DEF AliveLags
<1>5. AliveLags'
  BY <1>2, <1>4 DEF AliveLags, Sids
<1>6. ASSUME NEW sort \in Kinds, NEW e \in Listed(sort)', e.sid \in unsent'
      PROVE  FALSE
  <2>1. e \in Listed(sort) /\ e.sid \in unsent
    BY <1>1, <1>2, <1>6
  <2>2. sort \in changed /\ e.sid \in touched
    BY <2>1 DEF DataLags
  <2>3. e.sid \in Data(sort)
    BY <2>1, <2>2 DEF Data, Sids
  <2> QED
    BY <1>1, <1>3, <1>6, <2>2, <2>3
<1>7. DataLags'
  BY <1>6 DEF DataLags
<1> QED
  BY <1>5, <1>7

(* Steps that leave the table, its states and what was sent alone, apart   *)
(* from a frame that begins.                                               *)
LEMMA QuietKeepsLags ==
  ASSUME AliveLags, DataLags,
         UNCHANGED <<objects, cursors, blobs, added, changed, alive, unsent>>,
         \/ frame = "closed" /\ frame' = "open"
         \/ UNCHANGED <<frame, touched>>
  PROVE  AliveLags' /\ DataLags'
<1>1. \A sort \in Kinds : Listed(sort)' = Listed(sort)
  BY DEF Listed, OnTable
<1>2. frame = "open" => frame' = "open" /\ touched' = touched
  OBVIOUS
<1>3. AliveLags'
  BY <1>1, <1>2 DEF AliveLags, Sids
<1>4. DataLags'
  BY <1>1, <1>2 DEF DataLags
<1> QED
  BY <1>3, <1>4

LEMMA ChangeStep == WireOK /\ Change => WireOK'
<1> SUFFICES ASSUME WireOK, Change PROVE WireOK'
  OBVIOUS
<1>1. RegistryOK /\ AliveLags /\ DataLags /\ frame = "open" /\ UNCHANGED <<frame, alive>>
  BY DEF WireOK, Change
<1> SUFFICES \E A : RegistryOK' /\ Concerns(A)
  BY <1>1, ChangeKeepsLags DEF WireOK
<1>2. ASSUME NEW symbol \in Symbols, AddObject(symbol), Wrote({sessionID + 1})
      PROVE  \E A : RegistryOK' /\ Concerns(A)
  BY <1>1, <1>2, AddObjectStep, AddObjectConcerns
<1>3. ASSUME AddCursor, Wrote({sessionID + 1})
      PROVE  \E A : RegistryOK' /\ Concerns(A)
  BY <1>1, <1>3, AddCursorStep, AddCursorConcerns
<1>4. ASSUME AddBlob, Wrote({sessionID + 1})
      PROVE  \E A : RegistryOK' /\ Concerns(A)
  BY <1>1, <1>4, AddBlobStep, AddBlobConcerns
<1>5. ASSUME NEW sort \in Kinds, NEW e \in OnTable(sort), Update(sort, e), Wrote({e.sid})
      PROVE  \E A : RegistryOK' /\ Concerns(A)
  BY <1>1, <1>5, UpdateStep, UpdateConcerns
<1>6. ASSUME NEW sort \in Kinds, NEW S \in SUBSET OnTable(sort), TakeOff(sort, S), Wrote({})
      PROVE  \E A : RegistryOK' /\ Concerns(A)
  BY <1>1, <1>6, TakeOffStep, TakeOffConcerns
<1>7. ASSUME NEW sort \in Kinds, NEW e \in OnTable(sort), Take(sort, e), Wrote({})
      PROVE  \E A : RegistryOK' /\ Concerns(A)
  <2>1. {e} \in SUBSET OnTable(sort) /\ TakeOff(sort, {e})
    BY <1>7 DEF Take
  <2> QED
    BY <1>6, <1>7, <2>1
<1>8. ASSUME NEW sort \in Kinds, RemoveUntouchedStopped(sort), Wrote({})
      PROVE  \E A : RegistryOK' /\ Concerns(A)
  <2> DEFINE S == {e \in Untouched(sort) : e.sid \notin moving}
  <2>1. S \in SUBSET OnTable(sort) /\ TakeOff(sort, S)
    BY <1>8 DEF RemoveUntouchedStopped, Untouched
  <2> HIDE DEF S
  <2> QED
    BY <1>6, <1>8, <2>1
<1>9. ASSUME NEW sort \in Kinds, Reset(sort), Wrote({})
      PROVE  \E A : RegistryOK' /\ Concerns(A)
  <2>1. OnTable(sort) \in SUBSET OnTable(sort) /\ TakeOff(sort, OnTable(sort))
    BY <1>9 DEF Reset
  <2> QED
    BY <1>6, <1>9, <2>1
<1>10. ASSUME NEW sort \in Kinds, StopUntouchedMoving(sort), Wrote(touched' \ touched)
       PROVE  \E A : RegistryOK' /\ Concerns(A)
  BY <1>1, <1>10, StopStep, StopConcerns
<1> QED
  BY <1>2, <1>3, <1>4, <1>5, <1>7, <1>8, <1>9, <1>10 DEF Change

(* WireOK is inductive: one step per action. *)
LEMMA WireNext == WireOK /\ [SNext]_<<mvars, svars>> => WireOK'
<1> SUFFICES ASSUME WireOK, [SNext]_<<mvars, svars>> PROVE WireOK'
  OBVIOUS
<1>1. RegistryOK /\ AliveLags /\ DataLags
  BY DEF WireOK
<1>2. CASE BeginFrame
  <2>1. RegistryOK'
    BY <1>1, <1>2, InitFrameStep DEF BeginFrame
  <2>2. AliveLags' /\ DataLags'
    BY <1>1, <1>2, QuietKeepsLags DEF BeginFrame, InitFrame
  <2> QED
    BY <2>1, <2>2 DEF WireOK
<1>3. CASE Change
  BY <1>3, ChangeStep
<1>4. CASE CommitFrame
  <2>1. /\ UNCHANGED <<objects, cursors, blobs, sessionID, touched, added, moving>>
        /\ changed' = {}
    BY <1>4 DEF CommitFrame
  <2>2. touched' \cup added' \cup moving' \subseteq Present /\ changed' \subseteq Kinds
    BY <1>1, <2>1, RegistryFacts
  <2>3. RegistryOK'
    BY <1>1, <2>1, <2>2, SameTableStep
  <2> QED
    BY <1>1, <1>4, <2>3, CommitKeepsLags DEF WireOK
<1>5. CASE Configure \/ UNCHANGED <<mvars, svars>>
  <2>1. UNCHANGED mvars /\ UNCHANGED <<frame, alive, unsent>>
    BY <1>5 DEF Configure, svars
  <2>2. RegistryOK'
    BY <1>1, <2>1, RegistryNext
  <2>3. AliveLags' /\ DataLags'
    BY <1>1, <2>1, QuietKeepsLags DEF mvars
  <2> QED
    BY <2>2, <2>3 DEF WireOK
<1> QED
  BY <1>2, <1>3, <1>4, <1>5 DEF SNext

(* In every state of a server, for any number of sessions, any profiles    *)
(* and any modes.                                                          *)
THEOREM WireCorrect == SSpec => []WireOK
<1> QED
  BY WireInit, WireNext, PTL DEF SSpec

(* Whatever the program does within frames, between two of them a receiver *)
(* knows who is on the table.                                              *)
THEOREM ReceiversKnowTheAlive == SSpec => []AliveInSync
<1>1. WireOK => AliveInSync
  BY DEF WireOK, AliveLags, AliveInSync
<1> QED
  BY <1>1, WireCorrect, PTL

(* And it has the latest data of all of them, although commitFrame sends   *)
(* only those with the frame's time.                                       *)
THEOREM ReceiversHaveTheData == SSpec => []DataInSync
<1>1. WireOK => DataInSync
  <2> SUFFICES ASSUME WireOK, frame = "closed", NEW sort \in Kinds, NEW sid,
                      sid \in alive[sort], sid \in unsent
               PROVE  FALSE
    BY DEF DataInSync
  <2>1. alive[sort] = Sids(Listed(sort))
    BY DEF WireOK, AliveLags
  <2>2. PICK e \in Listed(sort) : e.sid = sid
    BY <2>1 DEF Sids
  <2> QED
    BY <2>2 DEF WireOK, DataLags
<1> QED
  BY <1>1, WireCorrect, PTL

(* The server's frames leave the registry's numbers sound as well. *)
THEOREM NumbersAreDenseOnTheWire == SSpec => []NumbersOK
<1>1. WireOK => NumbersOK
  BY DEF WireOK, RegistryOK
<1> QED
  BY <1>1, WireCorrect, PTL

(* And its removal loops may take any order. *)
THEOREM LoopOrderIsIrrelevantOnTheWire == SSpec => []OrderIrrelevant
<1>1. WireOK => OrderIrrelevant
  BY NumbersMakeOrderIrrelevant DEF WireOK
<1> QED
  BY <1>1, WireCorrect, PTL

-----------------------------------------------------------------------------
(***************************************************************************)
(* A packet never outgrows its buffer: for any capacity, any strings,      *)
(* blobs and numbers, any sequence of calls, and any of them throwing.     *)
(*                                                                         *)
(* The inductive invariant is that Size, the length the packet would have  *)
(* if the message ended now, never exceeds the capacity.  It is inductive  *)
(* because ending a message inserts exactly the padded type tags that Size *)
(* counts, and ending an element only overwrites a slot; an argument put   *)
(* outside a message is dropped by the next element, which starts at       *)
(* messageCursor.                                                          *)
(***************************************************************************)
IsSeq(d) == \E W : d \in Seq(W)

BufferOK ==
    /\ IsSeq(data) /\ IsSeq(typeTags)
    /\ messageCursor \in 0 .. Len(data)
    /\ inMessage \in BOOLEAN
    /\ Size <= Capacity
-----------------------------------------------------------------------------
(* Sequences of anything. *)

LEMMA SeqLen == ASSUME NEW d, IsSeq(d) PROVE Len(d) \in Nat /\ DOMAIN d = 1 .. Len(d)
  BY DEF IsSeq

LEMMA SeqMore == ASSUME NEW V, NEW W, NEW d \in Seq(V), V \subseteq W PROVE d \in Seq(W)
  OBVIOUS

LEMMA SeqConcat ==
  ASSUME NEW d, NEW e, IsSeq(d), IsSeq(e)
  PROVE  IsSeq(d \o e) /\ Len(d \o e) = Len(d) + Len(e)
<1>1. PICK V : d \in Seq(V)
  BY DEF IsSeq
<1>2. PICK W : e \in Seq(W)
  BY DEF IsSeq
<1> DEFINE U == V \cup W
<1>3. d \in Seq(U) /\ e \in Seq(U)
  <2>1. V \subseteq U /\ W \subseteq U
    OBVIOUS
  <2> HIDE DEF U
  <2> QED
    BY <1>1, <1>2, <2>1, SeqMore
<1> HIDE DEF U
<1> QED
  BY <1>3 DEF IsSeq

LEMMA SeqPart ==
  ASSUME NEW d, IsSeq(d), NEW k \in 0 .. Len(d)
  PROVE  /\ IsSeq(SubSeq(d, 1, k)) /\ Len(SubSeq(d, 1, k)) = k
         /\ IsSeq(SubSeq(d, k + 1, Len(d))) /\ Len(SubSeq(d, k + 1, Len(d))) = Len(d) - k
<1>1. PICK V : d \in Seq(V)
  BY DEF IsSeq
<1>2. /\ SubSeq(d, 1, k) \in Seq(V) /\ Len(SubSeq(d, 1, k)) = k
      /\ SubSeq(d, k + 1, Len(d)) \in Seq(V) /\ Len(SubSeq(d, k + 1, Len(d))) = Len(d) - k
  BY <1>1
<1> QED
  BY <1>2 DEF IsSeq

LEMMA SeqMade ==
  ASSUME NEW n \in Nat, NEW W, NEW f \in [1 .. n -> W]
  PROVE  IsSeq(f) /\ Len(f) = n
<1>1. f \in Seq(W) /\ Len(f) = n
  OBVIOUS
<1> QED
  BY <1>1 DEF IsSeq

LEMMA SeqSet ==
  ASSUME NEW d, IsSeq(d), NEW x, NEW y
  PROVE  IsSeq([d EXCEPT ![x] = y]) /\ Len([d EXCEPT ![x] = y]) = Len(d)
<1>1. PICK V : d \in Seq(V)
  BY DEF IsSeq
<1> DEFINE U == V \cup {y}
<1>2. d \in Seq(U) /\ y \in U
  <2>1. V \subseteq U /\ y \in U
    OBVIOUS
  <2> HIDE DEF U
  <2> QED
    BY <1>1, <2>1, SeqMore
<1> DEFINE n == Len(d)
<1> HIDE DEF U
<1>3. n \in Nat /\ d \in [1 .. n -> U]
  BY <1>2
<1> HIDE DEF n
<1>4. [d EXCEPT ![x] = y] \in [1 .. n -> U]
  BY <1>2, <1>3
<1>5. IsSeq([d EXCEPT ![x] = y]) /\ Len([d EXCEPT ![x] = y]) = n
  BY <1>3, <1>4, SeqMade
<1> QED
  BY <1>5 DEF n

LEMMA SeqShort ==
  /\ IsSeq(<<>>) /\ Len(<<>>) = 0
  /\ \A x : IsSeq(<<x>>) /\ Len(<<x>>) = 1
  /\ \A x, y : IsSeq(<<x, y>>) /\ Len(<<x, y>>) = 2
<1>1. <<>> \in Seq({}) /\ Len(<<>>) = 0
  OBVIOUS
<1>2. \A x : <<x>> \in Seq({x}) /\ Len(<<x>>) = 1
  OBVIOUS
<1>3. \A x, y : <<x, y>> \in Seq({x, y}) /\ Len(<<x, y>>) = 2
  OBVIOUS
<1> QED
  BY <1>1, <1>2, <1>3 DEF IsSeq

-----------------------------------------------------------------------------
(* Sizes. *)

LEMMA Rounded ==
  ASSUME NEW x \in Nat
  PROVE  /\ RoundUp4(x) \in Nat /\ RoundUp4(x) >= x
         /\ RoundUp4(x) \div 4 \in Nat /\ 4 * (RoundUp4(x) \div 4) = RoundUp4(x)
<1> DEFINE q == (x + 3) \div 4
<1>1. q \in Nat /\ 4 * q >= x
  OBVIOUS
<1>2. RoundUp4(x) = q * 4
  BY DEF RoundUp4
<1> HIDE DEF q
<1>3. (q * 4) \div 4 = q
  BY <1>1
<1> QED
  BY <1>1, <1>2, <1>3

LEMMA TextIs ==
  ASSUME NEW s \in DOMAIN TextLength
  PROVE  IsSeq(TextWords(s))
<1> DEFINE n == RoundUp4(TextLength[s] + 1) \div 4
           W == {<<"text", s, k>> : k \in 1 .. n}
<1>1. n \in Nat
  BY LengthAssumption, Rounded
<1>2. TextWords(s) = [k \in 1 .. n |-> <<"text", s, k>>]
  BY DEF TextWords
<1> HIDE DEF n
<1>3. TextWords(s) \in [1 .. n -> W]
  BY <1>2
<1> HIDE DEF W
<1> QED
  BY <1>1, <1>3, SeqMade

LEMMA BlobIs ==
  ASSUME NEW b \in DOMAIN BlobLength
  PROVE  IsSeq(BlobWords(b))
<1> DEFINE n == RoundUp4(BlobLength[b]) \div 4
           W == {<<"raw", b, k>> : k \in 1 .. n}
<1>1. n \in Nat
  BY LengthAssumption, Rounded
<1>2. BlobWords(b) = [k \in 1 .. n |-> <<"raw", b, k>>]
  BY DEF BlobWords
<1> HIDE DEF n
<1>3. BlobWords(b) \in [1 .. n -> W]
  BY <1>2
<1> HIDE DEF W
<1> QED
  BY <1>1, <1>3, SeqMade

(* The padded tags are what Size counts for a message in progress. *)
LEMMA TagsTake ==
  ASSUME NEW tags, IsSeq(tags)
  PROVE  IsSeq(TagWords(tags)) /\ 4 * Len(TagWords(tags)) = RoundUp4(Len(tags) + 2)
<1> DEFINE size == RoundUp4(Len(tags) + 2)
           n == size \div 4
           bytes == <<Comma>> \o tags
           padded == [i \in 1 .. size |-> IF i <= Len(bytes) THEN bytes[i] ELSE Nul]
           word(k) == <<"tags", SubSeq(padded, 4*k - 3, 4*k)>>
           W == {word(k) : k \in 1 .. n}
<1>1. n \in Nat /\ 4 * n = size
  <2>1. Len(tags) + 2 \in Nat
    BY SeqLen
  <2> QED
    BY <2>1, Rounded
<1>2. TagWords(tags) = [k \in 1 .. n |-> word(k)]
  BY DEF TagWords
<1> HIDE DEF word, n, size
<1>3. TagWords(tags) \in [1 .. n -> W]
  BY <1>2
<1> HIDE DEF W
<1> USE DEF size
<1> QED
  BY <1>1, <1>3, SeqMade

LEMMA BundleTakes ==
  ASSUME NEW time
  PROVE  IsSeq(Bundle(time)) /\ Len(Bundle(time)) = 4
  BY SeqShort, SeqConcat DEF Bundle, FromUInt64

(* What an argument is made of. *)
LEMMA NumberIs ==
  \A v : IsSeq(FromInt32(v)) /\ IsSeq(FromUInt32(v)) /\ IsSeq(FromInt64(v)) /\ IsSeq(FromUInt64(v))
  BY SeqShort DEF FromInt32, FromUInt32, FromInt64, FromUInt64
-----------------------------------------------------------------------------
(* The steps. *)

LEMMA BufferFacts ==
  ASSUME BufferOK
  PROVE  /\ Len(data) \in Nat /\ Len(typeTags) \in Nat /\ Capacity \in Nat
         /\ messageCursor \in Nat /\ messageCursor <= Len(data)
         /\ IsSeq(SubSeq(data, 1, messageCursor))
         /\ Len(SubSeq(data, 1, messageCursor)) = messageCursor
         /\ IsSeq(SubSeq(data, messageCursor + 1, Len(data)))
         /\ Len(SubSeq(data, messageCursor + 1, Len(data))) = Len(data) - messageCursor
         /\ 4 * Len(data) <= Size
<1>1. /\ Len(data) \in Nat /\ Len(typeTags) \in Nat /\ Capacity \in Nat
      /\ messageCursor \in 0 .. Len(data) /\ IsSeq(data)
  BY SeqLen, StreamAssumption DEF BufferOK
<1>2. 4 * Len(data) <= Size
  <2>1. Len(typeTags) + 2 \in Nat
    BY <1>1
  <2>2. RoundUp4(Len(typeTags) + 2) \in Nat
    BY <2>1, Rounded
  <2> QED
    BY <1>1, <2>2 DEF Size
<1> QED
  BY <1>1, <1>2, SeqPart

(* An element starts behind the last one that is complete. *)
LEMMA ElementBegins ==
  ASSUME BufferOK, NEW words, IsSeq(words), BeginElement(words)
  PROVE  /\ IsSeq(data')
         /\ 4 * Len(data') = 4 * messageCursor + SlotBytes + 4 * Len(words)
<1> DEFINE slot == IF IsBundleInProgress THEN << <<"link", elementSize>> >> ELSE <<>>
           front == SubSeq(data, 1, messageCursor)
<1>1. IsSeq(slot) /\ 4 * Len(slot) = SlotBytes
  BY SeqShort DEF SlotBytes
<1>2. data' = front \o slot \o words
  BY DEF BeginElement
<1>3. IsSeq(front) /\ Len(front) = messageCursor /\ messageCursor \in Nat
  BY BufferFacts
<1> HIDE DEF slot, front
<1>4. IsSeq(front \o slot) /\ Len(front \o slot) = messageCursor + Len(slot)
  BY <1>1, <1>3, SeqConcat
<1>5. IsSeq(data') /\ Len(data') = Len(front \o slot) + Len(words)
  BY <1>2, <1>4, SeqConcat
<1> QED
  BY <1>1, <1>3, <1>4, <1>5, SeqLen

(* Ending an element overwrites its slot. *)
LEMMA ElementEnds ==
  ASSUME NEW words, NEW end, IsSeq(words), EndElement(words, end)
  PROVE  IsSeq(data') /\ Len(data') = Len(words)
<1>1. CASE elementSize = 0
  BY <1>1 DEF EndElement
<1>2. CASE elementSize # 0
  <2> DEFINE place == elementSize + 1
             size == <<"size", 4 * (end - elementSize) - 4>>
  <2>1. data' = [words EXCEPT ![place] = size]
    BY <1>2 DEF EndElement
  <2> HIDE DEF place, size
  <2> QED
    BY <2>1, SeqSet
<1> QED
  BY <1>1, <1>2

LEMMA UnchangedStep == BufferOK /\ UNCHANGED vars => BufferOK'
  BY DEF BufferOK, Size, IsMessageInProgress, vars

LEMMA BeginBundleStep ==
  ASSUME BufferOK, NEW time, BundleInitiator(time)
  PROVE  BufferOK'
<1>1. CASE UNCHANGED vars
  BY <1>1, UnchangedStep
<1>2. CASE ~IsMessageInProgress /\ BundleSpace
  <2>1. /\ BeginElement(Bundle(time)) /\ messageCursor' = Len(data')
        /\ UNCHANGED <<typeTags, inMessage>>
    BY <1>2 DEF BundleInitiator
  <2>2. /\ IsSeq(data') /\ 4 * Len(data') = 4 * messageCursor + SlotBytes + 16
        /\ Len(data') \in Nat
    <3> DEFINE words == Bundle(time)
    <3>1. IsSeq(words) /\ Len(words) = 4 /\ BeginElement(words)
      BY <2>1, BundleTakes
    <3> HIDE DEF words
    <3>2. IsSeq(data') /\ 4 * Len(data') = 4 * messageCursor + SlotBytes + 4 * Len(words)
      BY <3>1, ElementBegins
    <3> QED
      BY <3>1, <3>2, SeqLen
  <2>3. Size' = 4 * Len(data')
    BY <1>2, <2>1 DEF Size, IsMessageInProgress
  <2>4. Size' <= Capacity
    BY <1>2, <2>2, <2>3, BufferFacts DEF BundleSpace, SlotBytes, Size, IsMessageInProgress
  <2> QED
    BY <2>1, <2>2, <2>4, SeqLen DEF BufferOK
<1> QED
  BY <1>1, <1>2 DEF BundleInitiator, Throw

LEMMA EndBundleStep ==
  ASSUME BufferOK, BundleTerminator
  PROVE  BufferOK'
<1>1. CASE UNCHANGED vars
  BY <1>1, UnchangedStep
<1>2. CASE IsBundleInProgress /\ ~IsMessageInProgress
  <2>1. /\ EndElement(data, messageCursor)
        /\ UNCHANGED <<messageCursor, typeTags, inMessage>>
    BY <1>2 DEF BundleTerminator
  <2>2. IsSeq(data') /\ Len(data') = Len(data)
    BY <2>1, ElementEnds DEF BufferOK
  <2>4. Size' = 4 * Len(data') /\ Size = 4 * Len(data)
    BY <1>2, <2>1 DEF Size, IsMessageInProgress
  <2>5. Size' <= Capacity
    BY <2>2, <2>4, BufferFacts DEF BufferOK
  <2> QED
    BY <2>1, <2>2, <2>5, BufferFacts DEF BufferOK
<1> QED
  BY <1>1, <1>2 DEF BundleTerminator, Throw

LEMMA BeginMessageStep ==
  ASSUME BufferOK, NEW address \in DOMAIN TextLength, BeginMessage(address)
  PROVE  BufferOK'
<1>1. CASE UNCHANGED vars
  BY <1>1, UnchangedStep
<1>2. CASE ~IsMessageInProgress /\ MessageSpace(address)
  <2>1. /\ BeginElement(TextWords(address)) /\ messageCursor' = Len(data')
        /\ typeTags' = <<>> /\ inMessage' = TRUE
    BY <1>2 DEF BeginMessage
  <2>2. /\ IsSeq(data') /\ Len(data') \in Nat
        /\ 4 * Len(data') = 4 * messageCursor + SlotBytes + 4 * Len(TextWords(address))
    BY <2>1, TextIs, ElementBegins, SeqLen
  <2>3. Size' = 4 * Len(data') + 4
    BY <2>1, SeqShort DEF Size, IsMessageInProgress, RoundUp4
  <2>4. Size = 4 * Len(data)
    BY <1>2 DEF Size, IsMessageInProgress
  <2>5. Len(TextWords(address)) \in Nat /\ SlotBytes \in Nat
    BY TextIs, SeqLen DEF SlotBytes
  <2>6. Size' <= Capacity
    BY <1>2, <2>2, <2>3, <2>4, <2>5, BufferFacts DEF MessageSpace
  <2> QED
    BY <2>1, <2>2, <2>6, SeqShort DEF BufferOK
<1> QED
  BY <1>1, <1>2 DEF BeginMessage, Throw

(* What EndMessage inserts was counted already. *)
LEMMA EndMessageStep ==
  ASSUME BufferOK, MessageTerminator
  PROVE  BufferOK'
<1>1. CASE UNCHANGED vars
  BY <1>1, UnchangedStep
<1>2. CASE IsMessageInProgress
  <2> DEFINE front == SubSeq(data, 1, messageCursor)
             back == SubSeq(data, messageCursor + 1, Len(data))
             words == front \o TagWords(typeTags) \o back
  <2>1. /\ EndElement(words, Len(words)) /\ messageCursor' = Len(words)
        /\ typeTags' = <<>> /\ inMessage' = FALSE
    BY <1>2 DEF MessageTerminator
  <2>2. /\ IsSeq(front) /\ Len(front) = messageCursor
        /\ IsSeq(back) /\ Len(back) = Len(data) - messageCursor
        /\ IsSeq(TagWords(typeTags))
        /\ 4 * Len(TagWords(typeTags)) = RoundUp4(Len(typeTags) + 2)
    BY BufferFacts, TagsTake DEF BufferOK
  <2> HIDE DEF front, back
  <2>3. /\ IsSeq(front \o TagWords(typeTags))
        /\ Len(front \o TagWords(typeTags)) = messageCursor + Len(TagWords(typeTags))
    BY <2>2, SeqConcat
  <2>4. IsSeq(words) /\ Len(words) = Len(front \o TagWords(typeTags)) + Len(back)
    BY <2>2, <2>3, SeqConcat
  <2>5. Len(words) = Len(TagWords(typeTags)) + Len(data) /\ Len(TagWords(typeTags)) \in Nat
    <3> DEFINE tags == TagWords(typeTags)
    <3>1. Len(tags) \in Nat /\ messageCursor \in Nat /\ Len(data) \in Nat
      BY <2>2, BufferFacts, SeqLen
    <3>2. Len(words) = (messageCursor + Len(tags)) + (Len(data) - messageCursor)
      BY <2>2, <2>3, <2>4
    <3> HIDE DEF tags, words
    <3>3. Len(words) = Len(tags) + Len(data)
      BY <3>1, <3>2
    <3> QED
      BY <3>1, <3>3 DEF tags
  <2> HIDE DEF words
  <2>6. IsSeq(data') /\ Len(data') = Len(words)
    BY <2>1, <2>4, ElementEnds
  <2>7. Size' = 4 * Len(words) /\ Size = 4 * Len(data) + RoundUp4(Len(typeTags) + 2)
    BY <1>2, <2>1, <2>6 DEF Size, IsMessageInProgress
  <2>8. Size' <= Capacity
    BY <2>2, <2>5, <2>7, BufferFacts DEF BufferOK
  <2> QED
    <3>1. Len(words) \in Nat /\ messageCursor' \in 0 .. Len(data')
      BY <2>1, <2>4, <2>6, SeqLen
    <3> QED
      BY <2>1, <2>6, <2>8, <3>1, SeqShort DEF BufferOK
<1> QED
  BY <1>1, <1>2 DEF MessageTerminator, Throw

LEMMA PutStep ==
  ASSUME BufferOK, NEW tag, NEW value, NEW words, IsSeq(words), Put(tag, value, words)
  PROVE  BufferOK'
<1>1. CASE UNCHANGED vars
  BY <1>1, UnchangedStep
<1>2. CASE ArgumentSpace(4 * Len(words))
  <2>1. /\ typeTags' = Append(typeTags, tag) /\ data' = data \o words
        /\ UNCHANGED <<messageCursor, inMessage>>
    BY <1>2 DEF Put
  <2>2. IsSeq(data') /\ Len(data') = Len(data) + Len(words) /\ Len(words) \in Nat
    BY <2>1, SeqConcat, SeqLen DEF BufferOK
  <2>3. IsSeq(typeTags') /\ Len(typeTags') = Len(typeTags) + 1
    <3>1. Append(typeTags, tag) = typeTags \o <<tag>>
      BY DEF BufferOK, IsSeq
    <3> QED
      BY <2>1, <3>1, SeqConcat, SeqShort DEF BufferOK
  <2>4. RoundUp4(Len(typeTags) + 3) \in Nat
    <3>1. Len(typeTags) + 3 \in Nat
      BY BufferFacts
    <3> QED
      BY <3>1, Rounded
  <2>5. Size' \in Int /\ Size' <= 4 * Len(data') + RoundUp4(Len(typeTags) + 3)
    <3>1. (Len(typeTags) + 1) + 2 = Len(typeTags) + 3
      BY BufferFacts
    <3>2. Size' = 4 * Len(data') + IF inMessage THEN RoundUp4(Len(typeTags) + 3) ELSE 0
      BY <2>1, <2>3, <3>1 DEF Size, IsMessageInProgress
    <3> QED
      BY <2>2, <2>4, <3>2, BufferFacts
  <2>6. Size' <= Capacity
    <3>1. 4 * Len(data) + 4 * Len(words) + RoundUp4(Len(typeTags) + 3) <= Capacity
      BY <1>2 DEF ArgumentSpace
    <3> QED
      BY <2>2, <2>4, <2>5, <3>1, BufferFacts
  <2> QED
    BY <2>1, <2>2, <2>3, <2>6, BufferFacts DEF BufferOK
<1> QED
  BY <1>1, <1>2 DEF Put, Throw

LEMMA EmptyIsOK == Empty => BufferOK
<1> SUFFICES ASSUME Empty PROVE BufferOK
  OBVIOUS
<1>1. Len(data) = 0 /\ messageCursor = 0 /\ inMessage = FALSE /\ IsSeq(data) /\ IsSeq(typeTags)
  BY SeqShort DEF Empty
<1>2. Size = 0 /\ Size <= Capacity
  BY <1>1, StreamAssumption DEF Size, IsMessageInProgress
<1>3. messageCursor \in 0 .. Len(data)
  BY <1>1
<1>4. inMessage \in BOOLEAN
  BY <1>1, Zenon
<1> QED
  BY <1>1, <1>2, <1>3, <1>4, Zenon DEF BufferOK

LEMMA BufferNext == BufferOK /\ [Next]_vars => BufferOK'
<1> SUFFICES ASSUME BufferOK, [Next]_vars PROVE BufferOK'
  OBVIOUS
<1>1. ASSUME NEW time, BundleInitiator(time) PROVE BufferOK'
  BY <1>1, BeginBundleStep
<1>2. CASE BundleTerminator
  BY <1>2, EndBundleStep
<1>3. ASSUME NEW address \in Strings, BeginMessage(address) PROVE BufferOK'
  BY <1>3, BeginMessageStep DEF Strings
<1>4. CASE MessageTerminator
  BY <1>4, EndMessageStep
<1>5. CASE PutNumber
  BY <1>5, PutStep, NumberIs
     DEF PutNumber, PutInt32, PutFloat, PutChar, PutRgbaColor, PutMidi, PutInt64, PutTimeTag,
         PutDouble
<1>6. CASE PutFlag
  BY <1>6, PutStep, SeqShort DEF PutFlag, PutBool, PutNil, PutInfinitum
<1>7. CASE PutText
  BY <1>7, PutStep, TextIs DEF PutText, PutString, PutSymbol, Strings
<1>8. ASSUME NEW b \in DOMAIN BlobLength, PutBlob(b) PROVE BufferOK'
  <2>1. IsSeq(<< <<"size", BlobLength[b]>> >> \o BlobWords(b))
    BY BlobIs, SeqShort, SeqConcat
  <2> QED
    BY <1>8, <2>1, PutStep DEF PutBlob
<1>9. CASE Clear
  <2>1. /\ Len(data') = 0 /\ messageCursor' = 0 /\ inMessage' = FALSE
        /\ IsSeq(data') /\ IsSeq(typeTags')
    BY <1>9, SeqShort DEF Clear
  <2>2. Size' = 0 /\ Size' <= Capacity
    BY <2>1, StreamAssumption DEF Size, IsMessageInProgress
  <2>3. messageCursor' \in 0 .. Len(data')
    BY <2>1
  <2>4. inMessage' \in BOOLEAN
    BY <2>1, Zenon
  <2> QED
    BY <2>1, <2>2, <2>3, <2>4, Zenon DEF BufferOK
<1>10. CASE UNCHANGED vars
  BY <1>10, UnchangedStep
<1> QED
  BY <1>1, <1>2, <1>3, <1>4, <1>5, <1>6, <1>7, <1>8, <1>9, <1>10 DEF Next

(* The buffer's invariant in every state. *)
THEOREM BufferCorrect == Spec => []BufferOK
<1>1. Init => BufferOK
  BY EmptyIsOK DEF Init
<1> QED
  BY <1>1, BufferNext, PTL DEF Spec

(* What the buffer holds and what is still to be written fit it. *)
LEMMA BufferFits == BufferOK => FitsTheBuffer
<1> SUFFICES ASSUME BufferOK PROVE FitsTheBuffer
  OBVIOUS
<1>1. Len(typeTags) + 2 \in Nat
  BY BufferFacts
<1>2. RoundUp4(Len(typeTags) + 2) \in Nat /\ RoundUp4(Len(typeTags) + 2) >= Len(typeTags) + 2
  BY <1>1, Rounded
<1> QED
  BY <1>2, BufferFacts DEF BufferOK, FitsTheBuffer, Size, IsMessageInProgress

(* No sequence of calls makes a packet outgrow its buffer or lets the      *)
(* arguments of a message run into its type tags.                          *)
THEOREM PacketsFitTheirBuffer == Spec => []FitsTheBuffer
BY BufferFits, BufferCorrect, PTL

-----------------------------------------------------------------------------
(***************************************************************************)
(* The list of clients of a TcpSender or WebSockSender, for any number of  *)
(* connections.                                                            *)
(*                                                                         *)
(* A thread that was started for a connection finds it with back(): right  *)
(* only as long as that connection is the last of the list.  The invariant *)
(* says so, and that nobody else reads a socket, which is what keeps the   *)
(* last one on the list.  It also says who is still to lower `connected'   *)
(* when the list is empty.                                                 *)
(***************************************************************************)
Ends == Peers \cup {NoPeer}
Threads == [Peers -> [pc : {"none", "born", "recv", "count", "unmark", "spin", "ended"}, at : Ends]]

TcpTypes ==
    /\ list \in Seq(Peers)
    /\ peer \in [Peers -> {"away", "backlog", "open", "left", "reset", "shut"}]
    /\ server \in [pc : {"none", "accept", "mark", "greet", "spawn", "ended"}, at : Ends]
    /\ thread \in Threads

Early(p) == peer[p] \in {"away", "backlog"}
Holding == server.pc \in {"mark", "greet", "spawn"}

(* Until the constructor has a socket there is nothing. *)
NewIsEmpty ==
    made = "new" => /\ list = <<>> /\ server.pc = "none" /\ ~up
                    /\ \A p \in Peers : thread[p].pc = "none" /\ peer[p] = "away"

(* A connection is accepted once, and only then has a thread. *)
AcceptedOnce ==
    /\ Distinct(list)
    /\ \A q \in ToSet(list) : ~Early(q)
    /\ \A p \in Peers : Early(p) => thread[p].pc = "none"
    /\ \A p \in Peers : peer[p] # "shut"
    /\ Holding => server.at \in Peers /\ ~Early(server.at)
    /\ ~Holding => server.at = NoPeer

(* The accepting thread holds the last of the list, which has no thread    *)
(* yet; a new thread's connection is the last; and who reads is listed.    *)
Watched ==
    /\ Holding => /\ list # <<>> /\ Last(list) = server.at
                  /\ thread[server.at].pc = "none"
                  /\ \A p \in Peers : thread[p].pc # "born"
    /\ \A p \in Peers : thread[p].pc = "born" => list # <<>> /\ Last(list) = p
    /\ \A p \in Peers : thread[p].pc = "recv" => thread[p].at = p /\ p \in ToSet(list)
    /\ \A q \in ToSet(list) : q = server.at \/ thread[q].pc \in {"born", "recv"}

(* Somebody is about to lower `connected', or to raise it. *)
UpIsKept ==
    /\ up /\ list = <<>> => \E p \in Peers : thread[p].pc \in {"count", "unmark"}
    /\ list # <<>> => up \/ server.pc = "mark"
    /\ \A p \in Peers : thread[p].pc = "unmark" => list = <<>>

SenderOK == NewIsEmpty /\ AcceptedOnce /\ (~crossed => Watched /\ UpIsKept)

ListOK == TcpTypes /\ (Sends => SenderOK)

-----------------------------------------------------------------------------
LEMMA LastFacts ==
  ASSUME NEW S, NEW s \in Seq(S), NEW x \in S
  PROVE  /\ s # <<>> => Last(s) \in S /\ Last(s) \in ToSet(s) /\ Last(s) = s[Len(s)]
         /\ Append(s, x) # <<>> /\ Last(Append(s, x)) = x
         /\ <<x>> \in Seq(S) /\ <<x>> # <<>> /\ Last(<<x>>) = x
         /\ ToSet(<<x>>) = {x} /\ Distinct(<<x>>)
         /\ ToSet(<<>>) = {} /\ (ToSet(s) = {} => s = <<>>)
<1>1. s # <<>> => Last(s) \in S /\ Last(s) \in ToSet(s) /\ Last(s) = s[Len(s)]
  BY DEF Last, ToSet
<1>2. Append(s, x) # <<>> /\ Last(Append(s, x)) = x
  BY DEF Last
<1>3. <<x>> \in Seq(S) /\ <<x>> # <<>> /\ Last(<<x>>) = x /\ Len(<<x>>) = 1 /\ <<x>>[1] = x
  BY DEF Last
<1>4. ToSet(<<x>>) = {x} /\ Distinct(<<x>>)
  BY <1>3 DEF ToSet, Distinct
<1>5. ToSet(<<>>) = {} /\ (ToSet(s) = {} => s = <<>>)
  <2>1. s # <<>> => s[1] \in ToSet(s)
    BY DEF ToSet
  <2> QED
    BY <2>1 DEF ToSet
<1> QED
  BY <1>1, <1>2, <1>3, <1>4, <1>5

LEMMA ThreadTypes ==
  ASSUME TcpTypes, NEW p \in Peers
  PROVE  /\ Born(p) \in Threads
         /\ \A label \in {"count", "unmark", "spin", "ended"} :
              [thread EXCEPT ![p].pc = label] \in Threads
  BY DEF TcpTypes, Born, Ends, Threads

LEMMA TypesNext == TcpTypes /\ TcpNext => TcpTypes'
<1> SUFFICES ASSUME TcpTypes, TcpNext PROVE TcpTypes'
  OBVIOUS
<1> USE DEF setup, links, output
<1>1. ASSUME NEW p \in Peers, Opened(p), UNCHANGED server PROVE TcpTypes'
  BY <1>1, LastFacts, ThreadTypes DEF Opened, TcpTypes
<1>2. CASE ConnectDefault \/ ConnectHost \/ ReceiveFromHost
  BY <1>1, <1>2 DEF ConnectDefault, ConnectHost, ReceiveFromHost, TcpTypes
<1>3. CASE Listen \/ WebSockDerived \/ ReceiveOnPort
  BY <1>3 DEF Listen, WebSockDerived, ReceiveOnPort, TcpTypes, Ends
<1>4. CASE Connect
  <2>1. list # <<>> => Head(list) \in Peers
    BY DEF TcpTypes
  <2>2. thread' \in Threads
    <3>1. list # <<>> => Born(Head(list)) \in Threads
      BY <2>1 DEF Born, TcpTypes, Ends, Threads
    <3>2. thread' = thread \/ (list # <<>> /\ thread' = Born(Head(list)))
      BY <1>4 DEF Connect
    <3> QED
      BY <3>1, <3>2 DEF TcpTypes
  <2>3. server' = server \/ server' = [pc |-> "accept", at |-> NoPeer]
    BY <1>4 DEF Connect
  <2> QED
    BY <1>4, <2>2, <2>3 DEF Connect, TcpTypes, Ends
<1>5. CASE Disconnect
  <2>1. <<>> \in Seq(Peers)
    OBVIOUS
  <2> QED
    BY <1>5, <2>1 DEF Disconnect, TcpTypes
<1>6. ASSUME NEW p \in Peers, Dial(p) \/ SayHello(p) \/ PeerSends(p) \/ Leave(p) PROVE TcpTypes'
  BY <1>6 DEF Dial, SayHello, PeerSends, Leave, TcpTypes
<1>7. CASE ServerStep
  <2>1. CASE Accept
    <3>1. UNCHANGED thread
      BY <2>1 DEF Accept
    <3>2. ASSUME NEW p \in Peers, peer' = [peer EXCEPT ![p] = "open"], list' = Append(list, p),
                 server' = [pc |-> "mark", at |-> p]
          PROVE  TcpTypes'
      BY <3>1, <3>2, AppendFacts DEF TcpTypes, Ends
    <3> QED
      BY <2>1, <3>2 DEF Accept
  <2>2. CASE Mark \/ Greet
    BY <2>2 DEF Mark, Greet, TcpTypes
  <2>3. CASE SpawnClientThread
    <3>1. server' = [pc |-> "accept", at |-> NoPeer] /\ thread' = Born(server.at)
          /\ UNCHANGED <<peer, list>>
      BY <2>3 DEF SpawnClientThread
    <3>2. Born(server.at) \in Threads
      BY DEF Born, TcpTypes, Ends, Threads
    <3> QED
      BY <3>1, <3>2 DEF TcpTypes, Ends
  <2> QED
    BY <1>7, <2>1, <2>2, <2>3 DEF ServerStep
<1>8. ASSUME NEW p \in Peers, ClientStep(p) PROVE TcpTypes'
  <2>1. CASE TakeBack(p)
    <3>1. list # <<>> => Last(list) \in Peers
      BY LastFacts DEF TcpTypes
    <3> QED
      BY <2>1, <3>1 DEF TakeBack, TcpTypes, Ends, Threads
  <2>2. ASSUME NEW q \in Peers, Receive(p, q) PROVE TcpTypes'
    BY <2>2 DEF Receive, ReceivePackets, TcpTypes
  <2>3. ASSUME NEW q \in Peers, RemoveClient(p, q) PROVE TcpTypes'
    <3>1. list' \in Seq(Peers) /\ UNCHANGED <<peer, server>>
      BY <2>3, ChosenFacts DEF RemoveClient, TcpTypes
    <3>2. thread' = [thread EXCEPT ![p].pc = "count"] \/ thread' = [thread EXCEPT ![p].pc = "ended"]
      BY <2>3 DEF RemoveClient
    <3>3. thread' \in Threads
      BY <3>2, ThreadTypes
    <3> QED
      BY <3>1, <3>3 DEF TcpTypes
  <2>4. ASSUME NEW q \in Peers \cup {NoPeer}, Spin(p, q) PROVE TcpTypes'
    BY <2>4, ThreadTypes DEF Spin, TcpTypes
  <2>5. CASE CountClients(p)
    <3>1. thread' = [thread EXCEPT ![p].pc = "unmark"] \/ thread' = [thread EXCEPT ![p].pc = "ended"]
      BY <2>5 DEF CountClients
    <3> QED
      BY <2>5, <3>1, ThreadTypes DEF CountClients, TcpTypes
  <2>6. CASE Unmark(p)
    BY <2>6, ThreadTypes DEF Unmark, TcpTypes
  <2> QED
    BY <1>8, <2>1, <2>2, <2>3, <2>4, <2>5, <2>6 DEF ClientStep
<1>9. CASE SendStart \/ SendEnd
  BY <1>9 DEF SendStart, SendEnd, TcpTypes
<1>10. ASSUME NEW p \in Peers, SendOne(p) PROVE TcpTypes'
  <2>1. UNCHANGED <<list, server, thread>>
        /\ (peer' = peer \/ peer' = [peer EXCEPT ![p] = "reset"])
    BY <1>10 DEF SendOne
  <2> QED
    BY <2>1 DEF TcpTypes
<1>11. CASE AcceptFails
  BY <1>11 DEF AcceptFails, TcpTypes, Ends
<1> QED
  BY <1>2, <1>3, <1>4, <1>5, <1>6, <1>7, <1>8, <1>9, <1>10, <1>11 DEF TcpNext
-----------------------------------------------------------------------------
(* The list stays as it is, and nobody comes to the listening socket who   *)
(* was accepted before.                                                    *)
LEMMA LinksMove ==
  ASSUME SenderOK, UNCHANGED <<up, list, server, thread, crossed>>,
         \A p \in Peers : (Early(p)' => Early(p)) /\ peer'[p] # "shut",
         made' = "new" => made = "new" /\ peer' = peer, TcpTypes
  PROVE  SenderOK'
<1>1. NewIsEmpty'
  BY DEF SenderOK, NewIsEmpty
<1>2. AcceptedOnce'
  <2>1. ToSet(list) \subseteq Peers
    BY DEF TcpTypes, ToSet
  <2> QED
    BY <2>1 DEF SenderOK, AcceptedOnce, Holding
<1>3. ~crossed => Watched' /\ UpIsKept'
  BY DEF SenderOK, Watched, UpIsKept, Holding
<1> QED
  BY <1>1, <1>2, <1>3 DEF SenderOK

LEMMA OpenedKeeps ==
  ASSUME TcpTypes, TcpTypes', Sends, SenderOK, made = "new", NEW p \in Peers, Opened(p),
         UNCHANGED <<server, crossed>>
  PROVE  SenderOK'
<1>1. /\ list' = <<p>> /\ peer' = [peer EXCEPT ![p] = "open"] /\ up' /\ made' = "connected"
      /\ thread' = [thread EXCEPT ![p] = [pc |-> "born", at |-> NoPeer]]
  BY DEF Opened, Born
<1>2. /\ server.pc = "none" /\ \A q \in Peers : thread[q].pc = "none" /\ peer[q] = "away"
  BY DEF SenderOK, NewIsEmpty
<1>3. list' # <<>> /\ Last(list') = p /\ ToSet(list') = {p} /\ Distinct(list')
  BY <1>1, LastFacts DEF TcpTypes
<1>4. \A q \in Peers : /\ thread'[q].pc = IF q = p THEN "born" ELSE "none"
                       /\ peer'[q] = IF q = p THEN "open" ELSE "away"
  BY <1>1, <1>2 DEF TcpTypes, Threads
<1>5. ~Holding' /\ server'.at = NoPeer
  BY <1>2 DEF Holding, SenderOK, AcceptedOnce
<1>6. NewIsEmpty'
  BY <1>1 DEF NewIsEmpty
<1>7. AcceptedOnce'
  BY <1>3, <1>4, <1>5 DEF AcceptedOnce, Early
<1>8. Watched'
  BY <1>3, <1>4, <1>5 DEF Watched
<1>9. UpIsKept'
  BY <1>1, <1>3, <1>4 DEF UpIsKept
<1> QED
  BY <1>6, <1>7, <1>8, <1>9 DEF SenderOK

(* The accepting thread, where it does not touch the list. *)
LEMMA ServerMoves ==
  ASSUME TcpTypes, SenderOK, UNCHANGED <<list, peer, thread, crossed>>,
         made' # "new", server'.at = server.at, Holding' <=> Holding,
         ~crossed => \/ up' = up /\ (server.pc = "mark" => server'.pc = "mark")
                     \/ up' /\ list # <<>>
  PROVE  SenderOK'
<1>1. NewIsEmpty'
  BY DEF NewIsEmpty
<1>2. AcceptedOnce'
  BY DEF SenderOK, AcceptedOnce, Early
<1>3. ~crossed => Watched' /\ UpIsKept'
  BY DEF SenderOK, Watched, UpIsKept
<1> QED
  BY <1>1, <1>2, <1>3 DEF SenderOK

LEMMA AcceptKeeps ==
  ASSUME TcpTypes, TcpTypes', Sends, SenderOK, Accept
  PROVE  SenderOK'
<1>1. /\ server.pc = "accept" /\ ~Holding /\ server.at = NoPeer
      /\ UNCHANGED <<made, up, thread>>
  BY DEF Accept, setup, Holding, SenderOK, AcceptedOnce
<1>2. made # "new" /\ NewIsEmpty'
  BY <1>1 DEF SenderOK, NewIsEmpty
<1>3. ASSUME NEW p \in Peers, Waiting(p), peer' = [peer EXCEPT ![p] = "open"],
             list' = Append(list, p), server' = [pc |-> "mark", at |-> p],
             crossed' = (crossed \/ Passing # {})
      PROVE  SenderOK'
  <2>1. p \notin ToSet(list) /\ thread[p].pc = "none" /\ Early(p)
    BY <1>3 DEF Waiting, Early, SenderOK, AcceptedOnce
  <2>2. /\ ToSet(list') = ToSet(list) \cup {p} /\ Distinct(list')
        /\ list' # <<>> /\ Last(list') = p
    <3>1. list \in Seq(Peers) /\ Distinct(list)
      BY DEF TcpTypes, SenderOK, AcceptedOnce
    <3>2. /\ ToSet(Append(list, p)) = ToSet(list) \cup {p} /\ Distinct(Append(list, p))
          /\ Append(list, p) # <<>> /\ Last(Append(list, p)) = p
      <4>1. ToSet(Append(list, p)) = ToSet(list) \cup {p} /\ Distinct(Append(list, p))
        BY <2>1, <3>1, AppendFacts
      <4>2. Append(list, p) # <<>> /\ Last(Append(list, p)) = p
        BY <3>1, LastFacts
      <4> QED
        BY <4>1, <4>2
    <3> QED
      BY <1>3, <3>2
  <2>3. Holding' /\ server'.at = p /\ server'.pc = "mark"
    BY <1>3 DEF Holding
  <2>4. \A q \in Peers : peer'[q] = IF q = p THEN "open" ELSE peer[q]
    BY <1>3 DEF TcpTypes
  <2>5. ToSet(list) \subseteq Peers
    BY DEF TcpTypes, ToSet
  <2>6. AcceptedOnce'
    BY <1>1, <2>1, <2>2, <2>3, <2>4, <2>5 DEF AcceptedOnce, Early, SenderOK
  <2>7. ASSUME ~crossed' PROVE Watched' /\ UpIsKept'
    <3>1. ~crossed /\ \A q \in Peers : thread[q].pc \notin {"born", "count", "unmark"}
      BY <1>3, <2>7 DEF Passing
    <3>2. Watched'
      <4>1. \A q \in Peers : thread[q].pc = "recv" => thread[q].at = q /\ q \in ToSet(list)
        BY <3>1 DEF SenderOK, Watched
      <4>2. \A q \in ToSet(list) : thread[q].pc = "recv"
        BY <1>1, <2>5, <3>1, TcpAssumption DEF SenderOK, Watched
      <4> QED
        BY <1>1, <2>1, <2>2, <2>3, <3>1, <4>1, <4>2 DEF Watched
    <3>3. UpIsKept'
      BY <1>1, <2>2, <2>3, <3>1 DEF UpIsKept
    <3> QED
      BY <3>2, <3>3
  <2> QED
    BY <1>2, <2>6, <2>7 DEF SenderOK
<1> QED
  BY <1>3 DEF Accept

LEMMA AcceptFailsKeeps ==
  ASSUME TcpTypes, TcpTypes', Sends, SenderOK, AcceptFails
  PROVE  SenderOK'
<1>1. /\ server.pc = "accept" /\ ~Holding /\ server.at = NoPeer
      /\ server' = [pc |-> "ended", at |-> NoPeer]
      /\ UNCHANGED <<made, list, peer, up, thread, crossed>>
  BY DEF AcceptFails, setup, Holding, SenderOK, AcceptedOnce
<1>2. made # "new"
  BY <1>1 DEF SenderOK, NewIsEmpty
<1>3. ~Holding' /\ server'.at = server.at /\ server.pc # "mark" /\ made' # "new"
  BY <1>1, <1>2 DEF Holding
<1> QED
  BY <1>1, <1>3, ServerMoves

LEMMA SpawnKeeps ==
  ASSUME TcpTypes, TcpTypes', Sends, SenderOK, SpawnClientThread
  PROVE  SenderOK'
<1>1. /\ server.pc = "spawn" /\ server' = [pc |-> "accept", at |-> NoPeer]
      /\ thread' = [thread EXCEPT ![server.at] = [pc |-> "born", at |-> NoPeer]]
      /\ UNCHANGED <<made, peer, up, list, crossed>>
  BY DEF SpawnClientThread, Born, setup, links
<1>2. Holding /\ ~Holding' /\ server'.at = NoPeer
  BY <1>1 DEF Holding
<1>3. PICK p \in Peers : p = server.at /\ ~Early(p)
  BY <1>2 DEF SenderOK, AcceptedOnce
<1>4. \A q \in Peers : thread'[q] = IF q = p THEN [pc |-> "born", at |-> NoPeer] ELSE thread[q]
  BY <1>1, <1>3 DEF TcpTypes, Threads
<1>5. NewIsEmpty'
  BY <1>1 DEF SenderOK, NewIsEmpty
<1>6. AcceptedOnce'
  BY <1>1, <1>2, <1>3, <1>4 DEF AcceptedOnce, Early, SenderOK
<1>7. ToSet(list) \subseteq Peers
  BY DEF TcpTypes, ToSet
<1>8. ASSUME ~crossed PROVE Watched' /\ UpIsKept'
  <2>1. Watched'
    BY <1>1, <1>2, <1>3, <1>4, <1>7, <1>8 DEF SenderOK, Watched
  <2>2. UpIsKept'
    BY <1>1, <1>2, <1>3, <1>4, <1>8 DEF SenderOK, UpIsKept, Watched
  <2> QED
    BY <2>1, <2>2
<1> QED
  BY <1>1, <1>5, <1>6, <1>8 DEF SenderOK

LEMMA TakeBackKeeps ==
  ASSUME TcpTypes, TcpTypes', Sends, SenderOK, NEW p \in Peers, TakeBack(p)
  PROVE  SenderOK'
<1>1. /\ thread[p].pc = "born"
      /\ thread' = [thread EXCEPT ![p] =
                      [pc |-> "recv", at |-> IF list = <<>> THEN NoPeer ELSE Last(list)]]
      /\ UNCHANGED <<made, peer, up, list, server, crossed>>
  BY DEF TakeBack, setup, links
<1>2. \A q \in Peers : thread'[q] =
         IF q = p THEN [pc |-> "recv", at |-> IF list = <<>> THEN NoPeer ELSE Last(list)]
         ELSE thread[q]
  BY <1>1 DEF TcpTypes, Threads
<1>3. NewIsEmpty'
  BY <1>1 DEF SenderOK, NewIsEmpty
<1>4. AcceptedOnce'
  BY <1>1, <1>2 DEF AcceptedOnce, Early, SenderOK, Holding
<1>5. ToSet(list) \subseteq Peers
  BY DEF TcpTypes, ToSet
<1>6. ASSUME ~crossed PROVE Watched' /\ UpIsKept'
  <2>1. ~Holding /\ ~Holding' /\ list # <<>> /\ Last(list) = p
    BY <1>1, <1>6 DEF SenderOK, Watched, Holding
  <2>2. p \in ToSet(list)
    BY <2>1, LastFacts DEF TcpTypes
  <2>3. Watched'
    BY <1>1, <1>2, <1>5, <1>6, <2>1, <2>2 DEF SenderOK, Watched
  <2>4. UpIsKept'
    BY <1>1, <1>2, <1>6, <2>1 DEF SenderOK, UpIsKept
  <2> QED
    BY <2>3, <2>4
<1> QED
  BY <1>1, <1>3, <1>4, <1>6 DEF SenderOK

(* The thread that found its client gone takes it off the list. *)
LEMMA RemoveKeeps ==
  ASSUME TcpTypes, TcpTypes', Sends, SenderOK, NEW p \in Peers, NEW q \in Peers,
         RemoveClient(p, q)
  PROVE  SenderOK'
<1>1. /\ thread[p].pc = "recv" /\ thread[p].at = q
      /\ list' = Chosen(list, ToSet(list) \ {q})
      /\ thread' = [thread EXCEPT ![p].pc = "count"]
      /\ UNCHANGED <<made, peer, up, server, crossed>>
  BY DEF RemoveClient, Reads, setup, links
<1>2. \A r \in Peers : /\ thread'[r].pc = IF r = p THEN "count" ELSE thread[r].pc
                       /\ thread'[r].at = thread[r].at
  BY <1>1 DEF TcpTypes, Threads
<1>3. /\ list' \in Seq(Peers) /\ ToSet(list') = ToSet(list) \ {q} /\ Distinct(list')
  <2>1. list \in Seq(Peers) /\ Distinct(list)
    BY DEF TcpTypes, SenderOK, AcceptedOnce
  <2>2. \A keep : /\ Chosen(list, keep) \in Seq(Peers)
                  /\ ToSet(Chosen(list, keep)) = ToSet(list) \cap keep
                  /\ Distinct(Chosen(list, keep))
    BY <2>1, ChosenFacts, ChosenDistinct
  <2> QED
    BY <1>1, <2>2
<1>4. NewIsEmpty'
  BY <1>1 DEF SenderOK, NewIsEmpty
<1>5. AcceptedOnce'
  BY <1>1, <1>2, <1>3 DEF AcceptedOnce, Early, SenderOK, Holding
<1>6. ToSet(list) \subseteq Peers
  BY DEF TcpTypes, ToSet
<1>7. ASSUME ~crossed PROVE Watched' /\ UpIsKept'
  <2>1. q = p /\ p \in ToSet(list) /\ list # <<>>
    BY <1>1, <1>7, LastFacts DEF SenderOK, Watched, TcpTypes
  <2>2. ASSUME list # <<>>, Last(list) # p
        PROVE  list' # <<>> /\ Last(list') = Last(list)
    <3>1. list \in Seq(Peers) /\ list[Len(list)] \in ToSet(list) \ {q}
      <4>1. list \in Seq(Peers)
        BY DEF TcpTypes
      <4>2. Last(list) \in ToSet(list) /\ Last(list) = list[Len(list)]
        BY <2>2, <4>1, LastFacts
      <4> QED
        BY <2>1, <2>2, <4>1, <4>2
    <3> DEFINE keep == ToSet(list) \ {q}
    <3> HIDE DEF keep
    <3>2. Chosen(list, keep) # <<>> /\ Chosen(list, keep)[Len(Chosen(list, keep))] = list[Len(list)]
      BY <2>2, <3>1, ChosenLast DEF keep
    <3> QED
      BY <1>1, <3>2 DEF Last, keep
  <2>3. Watched'
    <3>1. Holding' => Last(list) # p
      BY <1>1, <1>7, <2>1 DEF SenderOK, Watched, Holding
    <3>2. \A r \in Peers : thread[r].pc = "born" => r # p /\ Last(list) = r
      BY <1>1, <1>7 DEF SenderOK, Watched
    <3>3. /\ Holding' => /\ list' # <<>> /\ Last(list') = server'.at
                         /\ thread'[server'.at].pc = "none"
                         /\ \A r \in Peers : thread'[r].pc # "born"
      BY <1>1, <1>2, <1>7, <2>1, <2>2, <3>1 DEF SenderOK, Watched, Holding, AcceptedOnce
    <3>4. \A r \in Peers : thread'[r].pc = "born" => list' # <<>> /\ Last(list') = r
      BY <1>2, <2>1, <2>2, <3>2
    <3>5. \A r \in Peers : thread'[r].pc = "recv" => thread'[r].at = r /\ r \in ToSet(list')
      BY <1>2, <1>3, <1>7, <2>1 DEF SenderOK, Watched
    <3>6. \A r \in ToSet(list') : r = server'.at \/ thread'[r].pc \in {"born", "recv"}
      <4>1. \A r \in ToSet(list) : r = server.at \/ thread[r].pc \in {"born", "recv"}
        BY <1>7 DEF SenderOK, Watched
      <4>2. \A r \in ToSet(list') : r \in ToSet(list) /\ r \in Peers /\ r # p
        BY <1>3, <1>6, <2>1
      <4> QED
        BY <1>1, <1>2, <4>1, <4>2
    <3> QED
      BY <3>3, <3>4, <3>5, <3>6 DEF Watched
  <2>4. UpIsKept'
    BY <1>1, <1>2, <1>7, <2>1 DEF SenderOK, UpIsKept
  <2> QED
    BY <2>3, <2>4
<1> QED
  BY <1>1, <1>4, <1>5, <1>7 DEF SenderOK

(* A thread that has left its loop, and one that will never leave it. *)
LEMMA CountKeeps ==
  ASSUME TcpTypes, TcpTypes', Sends, SenderOK, NEW p \in Peers,
         CountClients(p) \/ Unmark(p) \/ \E q \in Ends : Spin(p, q)
  PROVE  SenderOK'
<1>1. PICK label \in {"unmark", "ended", "spin"} :
        /\ thread' = [thread EXCEPT ![p].pc = label]
        /\ thread[p].pc \in {"count", "unmark", "recv"}
        /\ UNCHANGED <<made, peer, list, server, crossed>>
        /\ \/ CountClients(p) /\ up' = up /\ thread[p].pc = "count"
              /\ label = IF list = <<>> THEN "unmark" ELSE "ended"
           \/ Unmark(p) /\ up' = FALSE /\ thread[p].pc = "unmark" /\ label = "ended"
           \/ /\ \E q \in Ends : Reads(p, q) /\ (q # NoPeer => peer[q] = "shut")
              /\ up' = up /\ label = "spin"
  BY DEF CountClients, Unmark, Spin, Reads, setup, links
<1>2. \A r \in Peers : /\ thread'[r].pc = IF r = p THEN label ELSE thread[r].pc
                       /\ thread'[r].at = thread[r].at
  BY <1>1 DEF TcpTypes, Threads
<1>3. NewIsEmpty'
  BY <1>1 DEF SenderOK, NewIsEmpty
<1>4. AcceptedOnce'
  BY <1>1, <1>2 DEF AcceptedOnce, Early, SenderOK, Holding
<1>5. ToSet(list) \subseteq Peers
  BY DEF TcpTypes, ToSet
<1>6. ASSUME ~crossed PROVE Watched' /\ UpIsKept'
  <2>1. thread[p].pc # "recv" /\ ~ \E q \in Ends : Reads(p, q) /\ (q # NoPeer => peer[q] = "shut")
    <3>1. \A q \in Ends : Reads(p, q) => q = p /\ q # NoPeer
      BY <1>6, TcpAssumption DEF SenderOK, Watched, Reads
    <3>2. \A q \in Peers : peer[q] # "shut"
      BY DEF SenderOK, AcceptedOnce
    <3> QED
      BY <1>1, <3>1, <3>2 DEF CountClients, Unmark
  <2>2. p \notin ToSet(list) \/ p = server.at
    BY <1>1, <1>6, <2>1 DEF SenderOK, Watched
  <2>3. Watched'
    BY <1>1, <1>2, <1>5, <1>6, <2>1, <2>2 DEF SenderOK, Watched, Holding
  <2>4. UpIsKept'
    <3>1. CASE Unmark(p) /\ up' = FALSE /\ thread[p].pc = "unmark" /\ label = "ended"
      BY <1>1, <1>2, <1>6, <3>1 DEF SenderOK, UpIsKept
    <3>2. CASE CountClients(p) /\ up' = up /\ thread[p].pc = "count"
               /\ label = IF list = <<>> THEN "unmark" ELSE "ended"
      BY <1>1, <1>2, <1>6, <3>2 DEF SenderOK, UpIsKept
    <3> QED
      BY <1>1, <2>1, <3>1, <3>2
  <2> QED
    BY <2>3, <2>4
<1> QED
  BY <1>1, <1>3, <1>4, <1>6 DEF SenderOK
-----------------------------------------------------------------------------
LEMMA ListInit == TcpInit => ListOK
<1> SUFFICES ASSUME TcpInit PROVE ListOK
  OBVIOUS
<1> USE DEF TcpInit, Resting
<1>1. <<>> \in Seq(Peers) /\ Len(<<>>) = 0 /\ ToSet(<<>>) = {}
  BY DEF ToSet
<1>2. TcpTypes
  BY <1>1 DEF TcpTypes, Threads, Ends
<1>3. NewIsEmpty /\ AcceptedOnce
  BY <1>1 DEF NewIsEmpty, AcceptedOnce, Distinct, Early, Holding
<1>4. Watched /\ UpIsKept
  BY <1>1 DEF Watched, UpIsKept, Holding
<1> QED
  BY <1>2, <1>3, <1>4 DEF ListOK, SenderOK

LEMMA SenderNext ==
  ASSUME TcpTypes, TcpTypes', Sends, SenderOK, TcpNext
  PROVE  SenderOK'
<1>1. CASE ConnectDefault \/ ConnectHost
  <2>1. made = "new" /\ UNCHANGED <<server, crossed>>
    BY <1>1 DEF ConnectDefault, ConnectHost
  <2>2. ASSUME NEW p \in Peers, Opened(p) PROVE SenderOK'
    BY <2>1, <2>2, OpenedKeeps
  <2>3. CASE made' \in {"failed", "thrown"} /\ UNCHANGED <<list, peer, up, thread>>
    BY <2>1, <2>3, LinksMove DEF Early, SenderOK, AcceptedOnce
  <2> QED
    BY <1>1, <2>2, <2>3 DEF ConnectDefault, ConnectHost
<1>2. CASE ReceiveFromHost \/ ReceiveOnPort \/ Connect \/ Disconnect
  BY <1>2 DEF ReceiveFromHost, ReceiveOnPort, Connect, Disconnect, Sends
<1>3. CASE Listen
  <2>1. /\ made = "new" /\ made' # "new"
        /\ UNCHANGED <<list, peer, up, thread, crossed>>
        /\ server' = [pc |-> "accept", at |-> NoPeer] \/ server' = server
    BY <1>3 DEF Listen, links
  <2>2. ~Holding /\ ~Holding' /\ server.pc = "none" /\ server'.at = server.at
    BY <2>1 DEF SenderOK, NewIsEmpty, AcceptedOnce, Holding
  <2> QED
    BY <2>1, <2>2, ServerMoves
<1>4. CASE WebSockDerived \/ SendStart \/ SendEnd \/ \E p \in Peers : SayHello(p)
  <2>1. UNCHANGED <<made, list, peer, up, server, thread, crossed>>
    BY <1>4 DEF WebSockDerived, SendStart, SendEnd, SayHello, setup, links
  <2> QED
    BY <2>1, LinksMove DEF Early, SenderOK, AcceptedOnce
<1>5. ASSUME NEW p \in Peers, Dial(p) \/ Leave(p) PROVE SenderOK'
  <2>1. /\ UNCHANGED <<made, list, up, server, thread, crossed>>
        /\ \/ peer[p] = "away" /\ peer' = [peer EXCEPT ![p] = "backlog"] /\ made = "listening"
           \/ peer[p] # "away" /\ peer' = [peer EXCEPT ![p] = "left"]
    BY <1>5 DEF Dial, Leave, setup
  <2>2. \A q \in Peers : (Early(q)' => Early(q)) /\ peer'[q] # "shut"
    BY <2>1 DEF Early, TcpTypes, SenderOK, AcceptedOnce
  <2>3. made # "new"
    BY <2>1 DEF SenderOK, NewIsEmpty
  <2> QED
    BY <2>1, <2>2, <2>3, LinksMove
<1>6. ASSUME NEW p \in Peers, PeerSends(p) PROVE SenderOK'
  BY <1>6 DEF PeerSends, Sends
<1>7. CASE ServerStep
  <2>1. CASE Mark \/ Greet
    <3>1. /\ UNCHANGED <<made, list, peer, thread, crossed>>
          /\ server.pc \in {"mark", "greet"}
          /\ server'.at = server.at /\ server'.pc \in {"greet", "spawn"}
          /\ up' \/ (up' = up /\ server.pc # "mark")
      BY <2>1 DEF Mark, Greet, setup, links, TcpTypes
    <3>2. Holding /\ Holding' /\ made # "new"
      BY <3>1 DEF Holding, SenderOK, NewIsEmpty
    <3>3. ~crossed => list # <<>>
      BY <3>2 DEF SenderOK, Watched
    <3> QED
      BY <3>1, <3>2, <3>3, ServerMoves
  <2> QED
    BY <1>7, <2>1, AcceptKeeps, SpawnKeeps DEF ServerStep
<1>8. ASSUME NEW p \in Peers, ClientStep(p) PROVE SenderOK'
  <2>1. ASSUME NEW q \in Peers, Receive(p, q) PROVE SenderOK'
    BY <2>1 DEF Receive, ReceivePackets, Sends
  <2> QED
    BY <1>8, <2>1, TakeBackKeeps, RemoveKeeps, CountKeeps DEF ClientStep, Ends
<1>9. ASSUME NEW p \in Peers, SendOne(p) PROVE SenderOK'
  <2>1. /\ UNCHANGED <<made, list, up, server, thread, crossed>>
        /\ peer' = peer \/ (peer[p] = "left" /\ peer' = [peer EXCEPT ![p] = "reset"])
    BY <1>9 DEF SendOne, setup
  <2>2. \A q \in Peers : (Early(q)' => Early(q)) /\ peer'[q] # "shut"
    BY <2>1 DEF Early, TcpTypes, SenderOK, AcceptedOnce
  <2>3. made = "new" => peer' = peer
    BY <2>1 DEF SenderOK, NewIsEmpty
  <2> QED
    BY <2>1, <2>2, <2>3, LinksMove
<1> QED
  BY <1>1, <1>2, <1>3, <1>4, <1>5, <1>6, <1>7, <1>8, <1>9, AcceptFailsKeeps DEF TcpNext

LEMMA ListNext == ListOK /\ [TcpNext]_tvars => ListOK'
<1> SUFFICES ASSUME ListOK, [TcpNext]_tvars PROVE ListOK'
  OBVIOUS
<1>1. CASE TcpNext
  <2>1. TcpTypes'
    BY <1>1, TypesNext DEF ListOK
  <2>2. Sends' <=> Sends
    <3>1. kind' = kind
      BY <1>1 DEF TcpNext, ConnectDefault, ConnectHost, ReceiveFromHost, Listen, WebSockDerived,
                  ReceiveOnPort, Connect, Disconnect, Dial, SayHello, PeerSends, Leave,
                  ServerStep, Accept, AcceptFails, Mark, Greet, SpawnClientThread, ClientStep, TakeBack,
                  Receive, ReceivePackets, RemoveClient, Spin, CountClients, Unmark,
                  SendStart, SendOne, SendEnd, setup
    <3> QED
      BY <3>1 DEF Sends
  <2> QED
    BY <1>1, <2>1, <2>2, SenderNext DEF ListOK
<1>2. CASE UNCHANGED tvars
  BY <1>2 DEF tvars, setup, links, ListOK, TcpTypes, Sends, SenderOK, NewIsEmpty, AcceptedOnce,
              Early, Holding, Watched, UpIsKept
<1> QED
  BY <1>1, <1>2

THEOREM ListIsKept == TcpSpec => []ListOK
<1> QED
  BY ListInit, ListNext, PTL DEF TcpSpec

(* The listed clients have the threads that ClientListOK asks for. *)
LEMMA ListIsWatched == ListOK => ClientListOK
<1> SUFFICES ASSUME ListOK PROVE ClientListOK
  OBVIOUS
<1>1. ToSet(list) \subseteq Peers
  BY DEF ListOK, TcpTypes, ToSet
<1>2. ASSUME Sends, ~crossed, Passing = {}, server.pc # "mark" PROVE up <=> list # <<>>
  BY <1>2 DEF ListOK, SenderOK, UpIsKept, Passing
<1>3. ASSUME Sends, ~crossed, NEW q \in ToSet(list), q # server.at
      PROVE  /\ thread[q].pc = "born" \/ Reads(q, q)
             /\ \A p \in Peers \ {q} : ~Reads(p, q)
  BY <1>1, <1>3 DEF ListOK, SenderOK, Watched, Reads
<1> QED
  BY <1>2, <1>3 DEF ClientListOK, ConnectedIffClients, WatchedByItsThread

(* For any number of connections, made, lost and accepted in any order, as *)
(* long as none is accepted while a thread is between its birth and its    *)
(* loop or on its way out: the thread of each listed client, and no other, *)
(* reads its socket, and `connected' says whether there is a client.       *)
THEOREM ClientsAreWatched == TcpSpec => []ClientListOK
BY ListIsWatched, ListIsKept, PTL
-----------------------------------------------------------------------------
(* The packets.  sendOscPacket stands at one place of the list, and what   *)
(* is before it has the packet, what is behind it does not.                *)

Got(p) == {i \in DOMAIN inbox[p] : inbox[p][i] = frames}
Sent(p) == \E i \in DOMAIN inbox[p] : Got(p) = {i}
Unsent(p) == Got(p) = {}

FrameTypes ==
    /\ sending \in Peers \cup {Idle, End}
    /\ frames \in Nat
    /\ inbox \in [Peers -> Seq(Nat)]
    /\ sending # Idle => Sends /\ frames > 0 /\ made # "new"
    /\ \A p \in Peers : \A i \in 1 .. Len(inbox[p]) : inbox[p][i] <= frames

StandsAt(k) == \/ sending = End /\ k = Len(list) + 1
               \/ k \in 1 .. Len(list) /\ list[k] = sending

HalfSent ==
    sending # Idle /\ calm =>
      \E k \in 1 .. Len(list) + 1 :
         /\ StandsAt(k)
         /\ \A j \in 1 .. Len(list) : peer[list[j]] = "open" =>
               IF j < k THEN Sent(list[j]) ELSE Unsent(list[j])

FrameOK == FrameTypes /\ HalfSent

LEMMA FrameInit == TcpInit => FrameOK
<1> SUFFICES ASSUME TcpInit PROVE FrameOK
  OBVIOUS
<1>1. <<>> \in Seq(Nat) /\ Len(<<>>) = 0
  OBVIOUS
<1> QED
  BY <1>1 DEF TcpInit, FrameOK, FrameTypes, HalfSent

(* Nothing is sent, and either the list is about to be walked anew or it   *)
(* stays, and nobody on it comes back.                                     *)
LEMMA FrameStays ==
  ASSUME FrameOK, ListOK, UNCHANGED <<kind, frames, inbox, sending>>,
         made' = "new" => made = "new",
         \/ sending = Idle
         \/ calm' = FALSE
         \/ /\ UNCHANGED <<list, calm>>
            /\ \A p \in Peers : peer'[p] = "open" => peer[p] = "open"
  PROVE  FrameOK'
<1>1. FrameTypes'
  BY DEF FrameOK, FrameTypes, Sends
<1>2. HalfSent'
  <2> SUFFICES ASSUME sending # Idle, calm' PROVE HalfSent'
    BY DEF HalfSent
  <2>1. UNCHANGED <<list, calm>> /\ \A p \in Peers : peer'[p] = "open" => peer[p] = "open"
    OBVIOUS
  <2>2. PICK k \in 1 .. Len(list) + 1 :
          /\ StandsAt(k)
          /\ \A j \in 1 .. Len(list) : peer[list[j]] = "open" =>
                IF j < k THEN Sent(list[j]) ELSE Unsent(list[j])
    BY <2>1 DEF FrameOK, HalfSent
  <2>3. StandsAt(k)'
    BY <2>1, <2>2 DEF StandsAt
  <2>4. \A p : (Sent(p) => Sent(p)') /\ (Unsent(p) => Unsent(p)')
    BY DEF Sent, Unsent, Got
  <2>5. \A j \in 1 .. Len(list) : list[j] \in Peers
    BY DEF ListOK, TcpTypes
  <2> QED
    BY <2>1, <2>2, <2>3, <2>4, <2>5 DEF HalfSent
<1> QED
  BY <1>1, <1>2 DEF FrameOK

(* One more packet, or a reply, for p. *)
LEMMA InboxGrows ==
  ASSUME FrameTypes, NEW p \in Peers, NEW m \in Nat, m <= frames, frames' = frames,
         inbox' = [inbox EXCEPT ![p] = Append(@, m)]
  PROVE  /\ inbox' \in [Peers -> Seq(Nat)]
         /\ \A q \in Peers : \A i \in 1 .. Len(inbox'[q]) : inbox'[q][i] <= frames
         /\ \A q \in Peers : q # p \/ m # frames =>
               (Sent(q) => Sent(q)') /\ (Unsent(q) => Unsent(q)')
         /\ m = frames /\ Unsent(p) => Sent(p)'
<1> DEFINE s == inbox[p]
           u == Append(s, m)
<1>1. /\ s \in Seq(Nat) /\ u \in Seq(Nat) /\ Len(s) \in Nat
      /\ DOMAIN s = 1 .. Len(s) /\ DOMAIN u = 1 .. Len(s) + 1 /\ Len(u) = Len(s) + 1
      /\ u[Len(s) + 1] = m /\ \A i \in 1 .. Len(s) : u[i] = s[i]
  <2>1. s \in Seq(Nat)
    BY DEF FrameTypes
  <2> HIDE DEF s
  <2> QED
    BY <2>1
<1>2. inbox'[p] = u /\ \A q \in Peers : q # p => inbox'[q] = inbox[q]
  BY DEF FrameTypes
<1>3. inbox' \in [Peers -> Seq(Nat)]
  <2>1. inbox' = [inbox EXCEPT ![p] = u]
    OBVIOUS
  <2> HIDE DEF u
  <2> QED
    BY <1>1, <2>1 DEF FrameTypes
<1> HIDE DEF u
<1>4. \A i : i \in 1 .. Len(s) + 1 <=> i \in 1 .. Len(s) \/ i = Len(s) + 1
  BY <1>1
<1>5. \A q \in Peers : \A i \in 1 .. Len(inbox'[q]) : inbox'[q][i] <= frames
  BY <1>1, <1>2, <1>4 DEF FrameTypes
<1>6. \A q \in Peers : q # p => Got(q)' = Got(q)
  BY <1>2 DEF Got
<1>7. m # frames => Got(p)' = Got(p)
  BY <1>1, <1>2, <1>4 DEF Got
<1>8. m = frames => Got(p)' = Got(p) \cup {Len(s) + 1}
  BY <1>1, <1>2, <1>4 DEF Got
<1>9. ASSUME NEW q \in Peers, q # p \/ m # frames
      PROVE  (Sent(q) => Sent(q)') /\ (Unsent(q) => Unsent(q)')
  <2>1. Got(q)' = Got(q)
    BY <1>6, <1>7, <1>9
  <2>2. \A i : i \in Got(q)' => i \in DOMAIN inbox'[q]
    BY DEF Got
  <2> QED
    BY <2>1, <2>2 DEF Sent, Unsent
<1>10. ASSUME m = frames, Unsent(p) PROVE Sent(p)'
  <2>1. Got(p)' = {Len(s) + 1} /\ Len(s) + 1 \in DOMAIN inbox'[p]
    BY <1>1, <1>2, <1>4, <1>8, <1>10 DEF Unsent
  <2> QED
    BY <2>1 DEF Sent
<1> QED
  BY <1>3, <1>5, <1>9, <1>10

(* The answer to a handshake is no packet. *)
LEMMA GreetKeepsFrame ==
  ASSUME FrameOK, ListOK, Greet
  PROVE  FrameOK'
<1>1. UNCHANGED <<kind, made, frames, sending, list, calm, peer>>
  BY DEF Greet, setup, links
<1>2. CASE UNCHANGED inbox
  BY <1>1, <1>2, FrameStays
<1>3. CASE Sends /\ inbox' = [inbox EXCEPT ![server.at] = Append(@, Reply)]
  <2>1. PICK p \in Peers : p = server.at
    BY <1>3 DEF Greet, ListOK, SenderOK, AcceptedOnce, Holding
  <2>2. Reply \in Nat /\ Reply <= frames
    BY DEF Reply, FrameOK, FrameTypes
  <2>3. /\ inbox' \in [Peers -> Seq(Nat)]
        /\ \A q \in Peers : \A i \in 1 .. Len(inbox'[q]) : inbox'[q][i] <= frames
        /\ \A q \in Peers : q # p \/ Reply # frames =>
               (Sent(q) => Sent(q)') /\ (Unsent(q) => Unsent(q)')
    <3>1. inbox' = [inbox EXCEPT ![p] = Append(@, Reply)]
      BY <1>3, <2>1
    <3> QED
      BY <1>1, <2>2, <3>1, InboxGrows DEF FrameOK
  <2>4. FrameTypes'
    BY <1>1, <2>3 DEF FrameOK, FrameTypes, Sends
  <2>5. HalfSent'
    <3> SUFFICES ASSUME sending # Idle, calm PROVE HalfSent'
      BY <1>1 DEF HalfSent
    <3>1. PICK k \in 1 .. Len(list) + 1 :
            /\ StandsAt(k)
            /\ \A j \in 1 .. Len(list) : peer[list[j]] = "open" =>
                  IF j < k THEN Sent(list[j]) ELSE Unsent(list[j])
      BY DEF FrameOK, HalfSent
    <3>2. StandsAt(k)'
      BY <1>1, <3>1 DEF StandsAt
    <3>3. Reply # frames
      BY DEF Reply, FrameOK, FrameTypes
    <3>4. \A j \in 1 .. Len(list) : list[j] \in Peers
      BY DEF ListOK, TcpTypes
    <3> QED
      BY <1>1, <2>3, <3>1, <3>2, <3>3, <3>4 DEF HalfSent
  <2> QED
    BY <2>4, <2>5 DEF FrameOK
<1> QED
  BY <1>2, <1>3 DEF Greet, Sends

LEMMA StartKeepsFrame ==
  ASSUME FrameOK, ListOK, SendStart
  PROVE  FrameOK'
<1>1. /\ Sends /\ up /\ sending = Idle /\ frames' = frames + 1
      /\ sending' = (IF list = <<>> THEN End ELSE Head(list))
      /\ UNCHANGED <<kind, made, inbox, list, peer>>
  BY DEF SendStart, setup, links
<1>2. list \in Seq(Peers) /\ frames \in Nat
  BY DEF ListOK, TcpTypes, FrameOK, FrameTypes
<1>3. FrameTypes'
  <2>1. sending' \in Peers \cup {Idle, End}
    BY <1>1, <1>2
  <2>2. made # "new"
    BY <1>1 DEF ListOK, SenderOK, NewIsEmpty
  <2>3. \A p \in Peers : \A i \in 1 .. Len(inbox[p]) : inbox[p][i] <= frames + 1
    <3>1. \A p \in Peers : \A i \in 1 .. Len(inbox[p]) : inbox[p][i] \in Nat
      BY DEF FrameOK, FrameTypes
    <3> QED
      BY <1>2, <3>1 DEF FrameOK, FrameTypes
  <2> QED
    BY <1>1, <1>2, <2>1, <2>2, <2>3 DEF FrameOK, FrameTypes, Sends
<1>4. \A p \in Peers : Unsent(p)'
  <2> SUFFICES ASSUME NEW p \in Peers, NEW i \in DOMAIN inbox[p] PROVE inbox[p][i] # frames + 1
    BY <1>1 DEF Unsent, Got
  <2>1. inbox[p] \in Seq(Nat)
    BY DEF FrameOK, FrameTypes
  <2>2. i \in 1 .. Len(inbox[p]) /\ inbox[p][i] \in Nat
    BY <2>1
  <2> QED
    BY <1>2, <2>2 DEF FrameOK, FrameTypes
<1>5. StandsAt(1)'
  <2>1. CASE list = <<>>
    BY <1>1, <2>1 DEF StandsAt
  <2>2. CASE list # <<>>
    BY <1>1, <1>2, <2>2 DEF StandsAt
  <2> QED
    BY <2>1, <2>2
<1>6. HalfSent'
  <2>1. 1 \in 1 .. Len(list') + 1 /\ \A j \in 1 .. Len(list') : ~ (j < 1) /\ list'[j] \in Peers
    BY <1>1, <1>2
  <2> QED
    BY <1>4, <1>5, <2>1 DEF HalfSent
<1> QED
  BY <1>3, <1>6 DEF FrameOK

(* send() to one client, and the step to the next. *)
LEMMA SendOneKeepsFrame ==
  ASSUME FrameOK, ListOK, NEW p \in Peers, SendOne(p)
  PROVE  FrameOK'
<1>1. /\ sending = p /\ sending # Idle /\ sending # End
      /\ UNCHANGED <<kind, made, frames, calm, list>>
  BY PositionsAssumption DEF SendOne, setup
<1>2. /\ list \in Seq(Peers) /\ Distinct(list) /\ frames \in Nat /\ Sends
      /\ peer \in [Peers -> {"away", "backlog", "open", "left", "reset", "shut"}]
  BY <1>1 DEF ListOK, TcpTypes, SenderOK, AcceptedOnce, FrameOK, FrameTypes
<1>3. CASE p \notin ToSet(list)
  <2>1. sending' = End /\ UNCHANGED <<inbox, peer>>
    BY <1>3 DEF SendOne
  <2>2. ~ calm
    <3>1. \A k \in 1 .. Len(list) : list[k] # p
      BY <1>2, <1>3 DEF ToSet
    <3> QED
      BY <1>1, <3>1 DEF FrameOK, HalfSent, StandsAt
  <2> QED
    BY <1>1, <2>1, <2>2 DEF FrameOK, FrameTypes, HalfSent, Sends
<1>4. CASE p \in ToSet(list)
  <2>1. /\ sending' = NextClient(p)
        /\ inbox' = IF peer[p] = "open" THEN [inbox EXCEPT ![p] = Append(@, frames)] ELSE inbox
        /\ \A q \in Peers : peer'[q] = "open" => peer[q] = "open"
    BY <1>2, <1>4 DEF SendOne
  <2>2. PICK k \in 1 .. Len(list) : list[k] = p
    BY <1>2, <1>4 DEF ToSet
  <2>3. sending' = IF k = Len(list) THEN End ELSE list[k + 1]
    <3>1. (CHOOSE j \in DOMAIN list : list[j] = p) = k
      <4>1. DOMAIN list = 1 .. Len(list)
        BY <1>2
      <4>2. \A j \in DOMAIN list : list[j] = p => j = k
        BY <1>2, <2>2, <4>1 DEF Distinct
      <4> QED
        BY <2>2, <4>1, <4>2
    <3>2. NextClient(p) = LET i == CHOOSE j \in DOMAIN list : list[j] = p
                          IN  IF i = Len(list) THEN End ELSE list[i + 1]
      BY Zenon DEF NextClient
    <3>3. NextClient(p) = IF k = Len(list) THEN End ELSE list[k + 1]
      BY <3>1, <3>2
    <3> QED
      BY <2>1, <3>3
  <2>4. sending' \in Peers \cup {End} /\ StandsAt(k + 1)' /\ k + 1 \in 1 .. Len(list') + 1
    BY <1>1, <1>2, <2>2, <2>3 DEF StandsAt
  <2>5. /\ inbox' \in [Peers -> Seq(Nat)]
        /\ \A q \in Peers : \A i \in 1 .. Len(inbox'[q]) : inbox'[q][i] <= frames
        /\ \A q \in Peers : q # p \/ peer[p] # "open" =>
               (Sent(q) => Sent(q)') /\ (Unsent(q) => Unsent(q)')
        /\ peer[p] = "open" /\ Unsent(p) => Sent(p)'
    <3>1. CASE peer[p] = "open"
      <4>1. PICK m \in Nat : m = frames
        BY <1>2
      <4>2. inbox' = [inbox EXCEPT ![p] = Append(@, m)] /\ m <= frames
        BY <2>1, <3>1, <4>1
      <4> QED
        BY <1>1, <3>1, <4>1, <4>2, InboxGrows DEF FrameOK
    <3>2. CASE peer[p] # "open"
      <4>1. inbox' = inbox
        BY <2>1, <3>2
      <4> QED
        BY <1>1, <3>2, <4>1 DEF FrameOK, FrameTypes, Sent, Unsent, Got
    <3> QED
      BY <3>1, <3>2
  <2>6. FrameTypes'
    BY <1>1, <2>4, <2>5 DEF FrameOK, FrameTypes, Sends
  <2>7. HalfSent'
    <3> SUFFICES ASSUME calm PROVE HalfSent'
      BY <1>1 DEF HalfSent
    <3>1. PICK l \in 1 .. Len(list) + 1 :
            /\ StandsAt(l)
            /\ \A j \in 1 .. Len(list) : peer[list[j]] = "open" =>
                  IF j < l THEN Sent(list[j]) ELSE Unsent(list[j])
      BY <1>1 DEF FrameOK, HalfSent
    <3>2. l = k
      BY <1>1, <1>2, <2>2, <3>1 DEF StandsAt, Distinct
    <3>3. ASSUME NEW j \in 1 .. Len(list), peer'[list[j]] = "open"
          PROVE  IF j < k + 1 THEN Sent(list[j])' ELSE Unsent(list[j])'
      <4>1. PICK q \in Peers : q = list[j] /\ q = list'[j]
        BY <1>1, <1>2
      <4>2. peer[q] = "open" /\ IF j < k THEN Sent(q) ELSE Unsent(q)
        BY <2>1, <3>1, <3>2, <3>3, <4>1
      <4>3. CASE j = k
        <5>1. q = p /\ ~ (j < k) /\ j < k + 1
          <6>1. k \in Nat /\ list[k] = p
            BY <1>2, <2>2
          <6>2. ~ (j < k) /\ j < k + 1
            BY <4>3, <6>1
          <6> QED
            BY <4>1, <4>3, <6>1, <6>2
        <5>2. Sent(q)'
          BY <2>5, <4>2, <5>1
        <5> QED
          BY <4>1, <5>1, <5>2
      <4>4. CASE j # k
        <5>1. q # p /\ (j < k + 1 <=> j < k)
          <6>1. k \in 1 .. Len(list) /\ list[k] # list[j]
            BY <1>2, <2>2, <4>4 DEF Distinct
          <6>2. j < k + 1 <=> j < k
            BY <1>2, <4>4, <6>1
          <6> QED
            BY <2>2, <4>1, <6>1, <6>2
        <5>2. IF j < k THEN Sent(q)' ELSE Unsent(q)'
          BY <2>5, <4>2, <5>1
        <5> QED
          BY <4>1, <5>1, <5>2
      <4> QED
        BY <4>3, <4>4
    <3> QED
      BY <1>1, <2>4, <3>3 DEF HalfSent
  <2> QED
    BY <2>6, <2>7 DEF FrameOK
<1> QED
  BY <1>3, <1>4
LEMMA FrameNext == ListOK /\ FrameOK /\ [TcpNext]_tvars => FrameOK'
<1> SUFFICES ASSUME ListOK, FrameOK, [TcpNext]_tvars PROVE FrameOK'
  OBVIOUS
<1>1. made = "new" => sending = Idle
  BY DEF FrameOK, FrameTypes
<1>2. peer \in [Peers -> {"away", "backlog", "open", "left", "reset", "shut"}]
  BY DEF ListOK, TcpTypes
<1>3. kind = "receiver" => sending = Idle
  BY DEF FrameOK, FrameTypes, Sends
<1>4. CASE TcpNext
  <2>1. CASE ConnectDefault \/ ConnectHost \/ ReceiveFromHost \/ Listen \/ ReceiveOnPort
    <3>1. sending = Idle /\ UNCHANGED <<kind, frames, inbox, sending>>
      BY <1>1, <2>1 DEF ConnectDefault, ConnectHost, ReceiveFromHost, Listen, ReceiveOnPort,
                        output
    <3> QED
      <4>1. made = "new"
        BY <2>1 DEF ConnectDefault, ConnectHost, ReceiveFromHost, Listen, ReceiveOnPort
      <4> QED
        BY <3>1, <4>1, FrameStays
  <2>2. CASE Connect \/ WebSockDerived
    BY <2>2, FrameStays DEF Connect, WebSockDerived, setup, links, output
  <2>3. CASE Disconnect
    BY <1>3, <2>3, FrameStays DEF Disconnect, output
  <2>4. ASSUME NEW p \in Peers, Dial(p) \/ SayHello(p) \/ PeerSends(p) \/ Leave(p)
        PROVE  FrameOK'
    <3>1. UNCHANGED <<kind, made, frames, inbox, sending, list, calm>>
      BY <2>4 DEF Dial, SayHello, PeerSends, Leave, setup, output
    <3>2. \A q \in Peers : peer'[q] = "open" => peer[q] = "open"
      BY <1>2, <2>4 DEF Dial, SayHello, PeerSends, Leave
    <3> QED
      BY <3>1, <3>2, FrameStays
  <2>5. CASE Accept
    <3>1. calm' = FALSE
      BY <2>5 DEF Accept
    <3>2. UNCHANGED <<kind, made, frames, inbox, sending>>
      BY <2>5 DEF Accept, setup
    <3> QED
      BY <3>1, <3>2, FrameStays
  <2>6. CASE Mark \/ SpawnClientThread
    BY <2>6, FrameStays DEF Mark, SpawnClientThread, setup, links, output
  <2>12. CASE AcceptFails
    BY <2>12, FrameStays DEF AcceptFails, setup, output
  <2>7. CASE Greet
    BY <2>7, GreetKeepsFrame
  <2>8. ASSUME NEW p \in Peers, ClientStep(p) PROVE FrameOK'
    <3>1. CASE TakeBack(p) \/ CountClients(p) \/ Unmark(p)
      BY <3>1, FrameStays DEF TakeBack, CountClients, Unmark, setup, links, output
    <3>2. ASSUME NEW q \in Peers, Receive(p, q) PROVE FrameOK'
      BY <3>2, FrameStays DEF Receive, ReceivePackets, setup, output
    <3>3. ASSUME NEW q \in Peers, RemoveClient(p, q) PROVE FrameOK'
      BY <3>3, FrameStays DEF RemoveClient, setup
    <3>4. ASSUME NEW q, Spin(p, q) PROVE FrameOK'
      BY <3>4, FrameStays DEF Spin, setup, links, output
    <3> QED
      BY <2>8, <3>1, <3>2, <3>3, <3>4 DEF ClientStep
  <2>9. CASE SendStart
    BY <2>9, StartKeepsFrame
  <2>10. ASSUME NEW p \in Peers, SendOne(p) PROVE FrameOK'
    BY <2>10, SendOneKeepsFrame
  <2>11. CASE SendEnd
    BY <2>11 DEF SendEnd, setup, FrameOK, FrameTypes, HalfSent, Sends
  <2> QED
    BY <1>4, <2>1, <2>2, <2>3, <2>4, <2>5, <2>6, <2>7, <2>8, <2>9, <2>10, <2>11, <2>12
    DEF TcpNext, ServerStep
<1>5. CASE UNCHANGED tvars
  BY <1>5, FrameStays DEF tvars, setup, links, output
<1> QED
  BY <1>4, <1>5

(* A frame that ends, begun on this list, is in every socket once. *)
LEMMA CalmFrameIsComplete ==
  ListOK /\ FrameOK /\ [TcpNext]_tvars =>
    [sending = End /\ sending' = Idle /\ calm =>
       \A p \in ToSet(list) : peer[p] = "open" =>
         Cardinality({i \in DOMAIN inbox[p] : inbox[p][i] = frames}) = 1]_tvars
<1>1. ASSUME ListOK, FrameOK, sending = End, calm, NEW p \in ToSet(list), peer[p] = "open"
      PROVE  Cardinality({i \in DOMAIN inbox[p] : inbox[p][i] = frames}) = 1
  <2>1. list \in Seq(Peers)
    BY <1>1 DEF ListOK, TcpTypes
  <2>2. PICK k \in 1 .. Len(list) + 1 :
          /\ StandsAt(k)
          /\ \A j \in 1 .. Len(list) : peer[list[j]] = "open" =>
                IF j < k THEN Sent(list[j]) ELSE Unsent(list[j])
    BY <1>1, PositionsAssumption DEF FrameOK, HalfSent, Idle, End
  <2>3. k = Len(list) + 1
    BY <1>1, <2>1, <2>2, PositionsAssumption DEF StandsAt
  <2>4. PICK j \in 1 .. Len(list) : list[j] = p
    BY <1>1, <2>1 DEF ToSet
  <2>5. Sent(p)
    <3>1. j < k
      BY <2>1, <2>3
    <3> QED
      BY <1>1, <2>2, <2>4, <3>1
  <2>6. PICK i \in DOMAIN inbox[p] : Got(p) = {i}
    BY <2>5 DEF Sent
  <2>7. Cardinality(Got(p)) = 1
    BY <2>6, FS_Singleton
  <2> QED
    BY <2>7 DEF Got
<1> QED
  BY <1>1

(* For any list of clients, and whatever the peers, the accepting thread   *)
(* and the client threads do meanwhile: a packet that was begun on a list  *)
(* that has not changed since is in the socket of every client on it that  *)
(* is still there, once.                                                   *)
THEOREM CalmFramesReachAll == TcpSpec => CalmFrameReachesAll
BY CalmFrameIsComplete, ListIsKept, FrameInit, FrameNext, PTL DEF TcpSpec, CalmFrameReachesAll

(***************************************************************************)
(* A bundle reads back as it was put.  A message or a bundle that is       *)
(* written starts with a slot that links to the slot around it; when it    *)
(* ends, the slot gets its size.  So while bundles are open, one in the    *)
(* other, the words of the buffer make no packet yet, and the invariant    *)
(* has to say what they are: each open bundle is its head and the elements *)
(* it has so far, and each such element is something finished.  Finished   *)
(* means that the reader makes the same of its words whatever is around    *)
(* them, for it only looks from the start of an element to its end: that   *)
(* is what lets an ended bundle become an element of the one around it.    *)
(*                                                                         *)
(* First what the library's sequences and FlattenSeq do.                   *)
(***************************************************************************)

(* Two sequences with the same elements are equal. *)
LEMMA SameSeq ==
  ASSUME NEW d, NEW e, IsSeq(d), IsSeq(e), Len(d) = Len(e),
         \A i \in 1 .. Len(d) : d[i] = e[i]
  PROVE  d = e
<1>1. PICK V : d \in Seq(V)
  BY DEF IsSeq
<1>2. PICK W : e \in Seq(W)
  BY DEF IsSeq
<1> DEFINE n == Len(d)
<1>3. n \in Nat /\ d \in [1 .. n -> V] /\ e \in [1 .. n -> W]
  BY <1>1, <1>2
<1> HIDE DEF n
<1>4. d = [i \in 1 .. n |-> d[i]] /\ e = [i \in 1 .. n |-> e[i]]
  BY <1>3
<1>5. \A i \in 1 .. n : d[i] = e[i]
  BY DEF n
<1> QED
  BY <1>4, <1>5

(* The elements of a concatenation, a part and an extension. *)
LEMMA ConcatAt ==
  ASSUME NEW d, NEW e, IsSeq(d), IsSeq(e)
  PROVE  /\ IsSeq(d \o e) /\ Len(d \o e) = Len(d) + Len(e)
         /\ \A i \in 1 .. Len(d) : (d \o e)[i] = d[i]
         /\ \A i \in 1 .. Len(e) : (d \o e)[Len(d) + i] = e[i]
<1>1. PICK V : d \in Seq(V)
  BY DEF IsSeq
<1>2. PICK W : e \in Seq(W)
  BY DEF IsSeq
<1>3. d \in Seq(V \cup W) /\ e \in Seq(V \cup W)
  BY <1>1, <1>2
<1>4. /\ \A i \in 1 .. Len(d) : (d \o e)[i] = d[i]
      /\ \A i \in 1 .. Len(e) : (d \o e)[Len(d) + i] = e[i]
  BY <1>3
<1> QED
  BY <1>4, SeqConcat

(* The elements of a part of a sequence. *)
LEMMA PartAt ==
  ASSUME NEW d, IsSeq(d), NEW a \in Nat, NEW k \in Nat, 1 <= a, a <= k + 1, k <= Len(d)
  PROVE  /\ IsSeq(SubSeq(d, a, k)) /\ Len(SubSeq(d, a, k)) = k + 1 - a
         /\ \A i \in 1 .. k + 1 - a : SubSeq(d, a, k)[i] = d[a + i - 1]
<1>1. PICK V : d \in Seq(V)
  BY DEF IsSeq
<1>2. SubSeq(d, a, k) \in Seq(V) /\ Len(SubSeq(d, a, k)) = k + 1 - a
  BY <1>1
<1>3. \A i \in 1 .. k + 1 - a : SubSeq(d, a, k)[i] = d[a + i - 1]
  BY <1>1
<1> QED
  BY <1>2, <1>3 DEF IsSeq

(* The elements of a sequence with one more. *)
LEMMA AppendAt ==
  ASSUME NEW d, IsSeq(d), NEW x
  PROVE  /\ Append(d, x) = d \o <<x>>
         /\ IsSeq(Append(d, x)) /\ Len(Append(d, x)) = Len(d) + 1
         /\ \A i \in 1 .. Len(d) : Append(d, x)[i] = d[i]
         /\ Append(d, x)[Len(d) + 1] = x
<1>1. PICK V : d \in Seq(V)
  BY DEF IsSeq
<1>2. d \in Seq(V \cup {x}) /\ x \in V \cup {x}
  BY <1>1
<1>3. Append(d, x) \in Seq(V \cup {x})
  BY <1>2
<1>4. /\ Append(d, x) = d \o <<x>> /\ Len(Append(d, x)) = Len(d) + 1
      /\ \A i \in 1 .. Len(d) : Append(d, x)[i] = d[i]
      /\ Append(d, x)[Len(d) + 1] = x
  BY <1>2
<1> QED
  BY <1>3, <1>4 DEF IsSeq

(* A function over the numbers up to n is a sequence of n elements. *)
LEMMA MadeAt ==
  ASSUME NEW n \in Nat, NEW d, d = [i \in 1 .. n |-> d[i]]
  PROVE  IsSeq(d) /\ Len(d) = n
<1> DEFINE W == {d[i] : i \in 1 .. n}
<1>1. d \in [1 .. n -> W]
  OBVIOUS
<1> HIDE DEF W
<1> QED
  BY <1>1, SeqMade

-----------------------------------------------------------------------------
(* FlattenSeq: what it gives for a list of lists, and for a longer one. *)

(* A list of lists. *)
AllSeqs(P) == IsSeq(P) /\ \A i \in 1 .. Len(P) : IsSeq(P[i])

(* f[i] is what the first i lists of P make when they are joined. *)
Flattened(P, f) ==
  /\ DOMAIN f = 0 .. Len(P)
  /\ f[0] = <<>>
  /\ \A i \in 1 .. Len(P) : f[i] = f[i - 1] \o P[i]

(* There is such an f for every list of lists. *)
LEMMA FlattenExists ==
  ASSUME NEW P, AllSeqs(P)
  PROVE  \E f : Flattened(P, f) /\ \A i \in 0 .. Len(P) : IsSeq(f[i])
<1> DEFINE n == Len(P)
           U == UNION {{P[i][j] : j \in 1 .. Len(P[i])} : i \in 1 .. n}
           V == Seq(U)
           step == [i \in 1 .. n |-> [x \in V |-> x \o P[i]]]
<1>1. n \in Nat
  BY SeqLen DEF AllSeqs
<1>2. ASSUME NEW i \in 1 .. n PROVE P[i] \in Seq(U)
  <2> DEFINE q == P[i]
  <2>1. IsSeq(q)
    BY DEF AllSeqs
  <2>2. PICK W : q \in Seq(W)
    BY <2>1 DEF IsSeq
  <2>3. \A j \in 1 .. Len(q) : q[j] \in U
    OBVIOUS
  <2> HIDE DEF q, U
  <2>4. q \in Seq(U)
    BY <2>2, <2>3
  <2> QED
    BY <2>4 DEF q
<1>3. <<>> \in V
  OBVIOUS
<1> HIDE DEF n, U
<1>4. \A i \in 1 .. n : \A x \in V : x \o P[i] \in V
  BY <1>2
<1>5. IsLoop(V, n, step)
  BY <1>4 DEF IsLoop
<1> HIDE DEF V, step
<1>6. PICK f : IsRun(V, <<>>, n, step, f)
  BY ONLY <1>1, <1>3, <1>5, LoopExists, Zenon
<1>7. f \in [0 .. n -> V] /\ f[0] = <<>> /\ \A i \in 1 .. n : f[i] = step[i][f[i - 1]]
  BY <1>6 DEF IsRun
<1>8. ASSUME NEW i \in 1 .. n PROVE f[i] = f[i - 1] \o P[i]
  <2>1. f[i - 1] \in V
    BY <1>1, <1>7
  <2> QED
    BY <1>7, <2>1 DEF step
<1>9. Flattened(P, f)
  BY <1>7, <1>8 DEF Flattened, n
<1>10. \A i \in 0 .. Len(P) : IsSeq(f[i])
  BY <1>7 DEF V, IsSeq, n
<1> QED
  BY <1>9, <1>10

(* FlattenSeq is the last value of such an f. *)
LEMMA FlattenIs ==
  ASSUME NEW P, AllSeqs(P), NEW f, Flattened(P, f)
  PROVE  FlattenSeq(P) = f[Len(P)]
<1> DEFINE n == Len(P)
           Eqn(g) == g = [i \in 1 .. n |-> IF i = 1 THEN P[i] ELSE g[i - 1] \o P[i]]
<1>1. n \in Nat
  BY SeqLen DEF AllSeqs
<1>2. f[0] = <<>> /\ \A i \in 1 .. n : f[i] = f[i - 1] \o P[i]
  BY DEF Flattened
<1>3. CASE n = 0
  <2>1. P = <<>>
    BY <1>3 DEF AllSeqs, IsSeq
  <2> QED
    BY <1>2, <1>3, <2>1 DEF FlattenSeq
<1>5. \A i \in 1 .. n : IsSeq(P[i])
  BY DEF AllSeqs
<1>6. FlattenSeq(P) = IF n = 0 THEN P ELSE (CHOOSE g : Eqn(g))[n]
  BY DEF FlattenSeq
<1> HIDE DEF n
<1>4. CASE n # 0
  <2>1. f[1] = P[1]
    <3>1. f[1] = <<>> \o P[1] /\ IsSeq(P[1])
      <4>1. 1 \in 1 .. n /\ 1 - 1 = 0
        BY <1>1, <1>4
      <4>2. f[1] = f[0] \o P[1]
        BY <1>2, <4>1
      <4> QED
        BY <1>2, <1>5, <4>1, <4>2
    <3>2. PICK W : P[1] \in Seq(W)
      BY <3>1 DEF IsSeq
    <3> QED
      BY <3>1, <3>2
  <2> DEFINE h == [i \in 1 .. n |-> f[i]]
  <2>2. ASSUME NEW i \in 1 .. n
        PROVE  h[i] = IF i = 1 THEN P[i] ELSE h[i - 1] \o P[i]
    <3>1. h[i] = f[i]
      OBVIOUS
    <3>2. CASE i = 1
      BY <2>1, <3>1, <3>2
    <3>3. CASE i # 1
      <4>1. i - 1 \in 1 .. n
        BY <1>1, <3>3
      <4>2. h[i - 1] = f[i - 1]
        BY <4>1
      <4>3. f[i] = f[i - 1] \o P[i]
        BY <1>2
      <4> HIDE DEF h
      <4> QED
        BY <3>1, <3>3, <4>2, <4>3
    <3> QED
      BY <3>2, <3>3
  <2>3. Eqn(h)
    <3>1. h = [i \in 1 .. n |-> h[i]]
      OBVIOUS
    <3> HIDE DEF h
    <3> QED
      BY <2>2, <3>1
  <2> DEFINE g == CHOOSE g : Eqn(g)
  <2>4. Eqn(g)
    <3> HIDE DEF Eqn, h
    <3> QED
      BY <2>3
  <2>5. FlattenSeq(P) = g[n]
    BY <1>4, <1>6
  <2> HIDE DEF g
  <2> DEFINE T == {i \in 0 .. n : i = 0 \/ g[i] = f[i]}
  <2>6. 0 \in T
    BY <1>1
  <2>7. ASSUME NEW i \in 1 .. n, i - 1 \in T PROVE i \in T
    <3>1. g[i] = IF i = 1 THEN P[i] ELSE g[i - 1] \o P[i]
      BY <2>4
    <3>2. g[i] = f[i]
      <4>1. CASE i = 1
        BY <2>1, <3>1, <4>1
      <4>2. CASE i # 1
        <5>1. g[i - 1] = f[i - 1]
          BY <1>1, <2>7, <4>2
        <5>2. f[i] = f[i - 1] \o P[i]
          BY <1>2
        <5> QED
          BY <3>1, <4>2, <5>1, <5>2
      <4> QED
        BY <4>1, <4>2
    <3> QED
      BY <1>1, <3>2
  <2> HIDE DEF T
  <2>8. \A i \in 1 .. n : i - 1 \in T => i \in T
    BY <2>7
  <2>9. \A i \in 0 .. n : i \in T
    BY ONLY <1>1, <2>6, <2>8, Counting, Zenon
  <2>10. g[n] = f[n]
    BY <1>1, <1>4, <2>9 DEF T
  <2> QED
    BY <2>5, <2>10 DEF n
<1> QED
  BY <1>3, <1>4

(* FlattenSeq of a list of lists with one more list. *)
LEMMA FlattenMore ==
  ASSUME NEW P, AllSeqs(P), NEW x, IsSeq(x)
  PROVE  /\ AllSeqs(Append(P, x)) /\ IsSeq(FlattenSeq(P))
         /\ FlattenSeq(Append(P, x)) = FlattenSeq(P) \o x
<1>1. PICK f : Flattened(P, f) /\ \A i \in 0 .. Len(P) : IsSeq(f[i])
  BY FlattenExists
<1> DEFINE n == Len(P)
           Q == Append(P, x)
           g == [i \in 0 .. n + 1 |-> IF i = n + 1 THEN f[n] \o x ELSE f[i]]
<1>2. n \in Nat /\ IsSeq(P)
  BY SeqLen DEF AllSeqs
<1>3. IsSeq(Q) /\ Len(Q) = n + 1 /\ Q[n + 1] = x /\ \A i \in 1 .. n : Q[i] = P[i]
  BY <1>2, AppendAt
<1>4. AllSeqs(Q)
  BY <1>2, <1>3 DEF AllSeqs
<1>5. f[0] = <<>> /\ \A i \in 1 .. n : f[i] = f[i - 1] \o P[i]
  BY <1>1 DEF Flattened
<1> HIDE DEF n, Q
<1>6. Flattened(Q, g)
  <2>1. DOMAIN g = 0 .. Len(Q) /\ g[0] = <<>>
    BY <1>2, <1>3, <1>5
  <2>2. ASSUME NEW i \in 1 .. Len(Q) PROVE g[i] = g[i - 1] \o Q[i]
    <3>1. CASE i = n + 1
      <4>1. g[n + 1] = f[n] \o x /\ g[n] = f[n] /\ i - 1 = n
        BY <1>2, <3>1
      <4> HIDE DEF g
      <4> QED
        BY <1>3, <3>1, <4>1
    <3>2. CASE i \in 1 .. n
      <4>1. g[i] = f[i] /\ g[i - 1] = f[i - 1]
        BY <1>2, <3>2
      <4> HIDE DEF g
      <4> QED
        BY <1>3, <1>5, <3>2, <4>1
    <3>3. i \in 1 .. n \/ i = n + 1
      BY <1>2, <1>3
    <3> QED
      BY <3>1, <3>2, <3>3
  <2> HIDE DEF g
  <2> QED
    BY <2>1, <2>2 DEF Flattened
<1>7. FlattenSeq(Q) = g[n + 1] /\ FlattenSeq(P) = f[n]
  BY <1>1, <1>3, <1>4, <1>6, FlattenIs DEF n
<1>8. g[n + 1] = f[n] \o x
  BY <1>2
<1> HIDE DEF g
<1> QED
  BY <1>1, <1>2, <1>4, <1>7, <1>8 DEF Q, n

(* FlattenSeq of no lists. *)
LEMMA FlattenNone == FlattenSeq(<<>>) = <<>> /\ AllSeqs(<<>>)
  BY SeqShort DEF FlattenSeq, AllSeqs

(***************************************************************************)
(* The reader on any words: the loop over the elements of a bundle stays   *)
(* within it, so reading a bundle is reading its parts, which lie behind   *)
(* its start, and the recursion is well founded.                           *)
(***************************************************************************)

(* A packet: words, of which those that look like sizes are numbers. *)
WordsOK(w) == IsSeq(w) /\ \A j \in 1 .. Len(w) : w[j][1] = "size" => w[j][2] \in Nat

(* An element at q has a size that is a number of words, and ends before   *)
(* end.                                                                    *)
Inside(w, p, end, q) ==
  /\ q \in p .. end - 1
  /\ Word(w, q)[2] \in Nat /\ Word(w, q)[2] % 4 = 0
  /\ q + 1 + Word(w, q)[2] \div 4 <= end

(* The places where the loop over a bundle can be: all but the last are    *)
(* elements within it, the last is its end, a place within it, or the      *)
(* exception.                                                              *)
Visited(w, p, end) ==
  {s \in Seq(Int) : /\ Len(s) >= 1
                    /\ \/ s[Len(s)] = NoEnd
                       \/ /\ s[Len(s)] \in p .. end
                          /\ \A i \in 1 .. Len(s) - 1 : Inside(w, p, end, s[i])}

(* The step over an element leads behind it and not over the end, or       *)
(* throws.                                                                 *)
LEMMA AfterIs ==
  ASSUME NEW w, WordsOK(w), NEW p \in Nat, NEW end \in Nat, end <= Len(w), NEW q \in p .. end - 1
  PROVE  \/ AfterElement(w, q, end) = NoEnd
         \/ AfterElement(w, q, end) \in q + 1 .. end /\ Inside(w, p, end, q)
<1> DEFINE word == Word(w, q)
           n == word[2]
<1>1. Len(w) \in Nat /\ q + 1 \in 1 .. Len(w)
  BY SeqLen DEF WordsOK
<1>2. word[1] = "size" => n \in Nat
  BY <1>1 DEF WordsOK, Word
<1>3. CASE word[1] # "size"
  BY <1>3 DEF AfterElement
<1>4. CASE word[1] = "size"
  <2>1. n \in Nat /\ q \in Nat
    BY <1>2, <1>4
  <2>2. n \div 4 \in Nat
    BY <2>1
  <2>3. AfterElement(w, q, end) = IF n % 4 # 0 \/ q + 1 + n \div 4 > end THEN NoEnd ELSE q + 1 + n \div 4
    BY <1>4 DEF AfterElement
  <2> HIDE DEF n
  <2>4. CASE n % 4 # 0 \/ q + 1 + n \div 4 > end
    BY <2>3, <2>4
  <2>5. CASE n % 4 = 0 /\ q + 1 + n \div 4 <= end
    <3>1. AfterElement(w, q, end) = q + 1 + n \div 4
      BY <2>1, <2>2, <2>3, <2>5
    <3>2. Inside(w, p, end, q)
      BY <2>1, <2>5 DEF Inside, n
    <3> QED
      BY <2>1, <2>2, <2>5, <3>1, <3>2
  <2> QED
    BY <2>1, <2>2, <2>4, <2>5
<1> QED
  BY <1>3, <1>4

(* One more turn of the loop keeps to those places. *)
LEMMA OneMoreStays ==
  ASSUME NEW w, WordsOK(w), NEW p \in Nat, NEW end \in Nat, end <= Len(w),
         NEW s \in Visited(w, p, end)
  PROVE  OneMore(w, end, s) \in Visited(w, p, end)
<1> DEFINE q == s[Len(s)]
           x == AfterElement(w, q, end)
<1>1. s \in Seq(Int) /\ Len(s) \in Nat /\ Len(s) >= 1
  BY DEF Visited
<1>2. Last(s) = q
  BY DEF Last
<1>3. CASE q \in {NoEnd, end}
  BY <1>2, <1>3 DEF OneMore
<1>4. CASE q \notin {NoEnd, end}
  <2>1. /\ q \in p .. end - 1
        /\ \A i \in 1 .. Len(s) - 1 : Inside(w, p, end, s[i])
    BY <1>4 DEF Visited
  <2>2. x = NoEnd \/ (x \in q + 1 .. end /\ Inside(w, p, end, q))
    BY <2>1, AfterIs
  <2>3. OneMore(w, end, s) = Append(s, x)
    BY <1>2, <1>4 DEF OneMore
  <2>4. x \in Int
    BY <2>1, <2>2 DEF NoEnd
  <2> HIDE DEF x
  <2> DEFINE r == Append(s, x)
  <2>5. r \in Seq(Int) /\ Len(r) = Len(s) + 1 /\ r[Len(s) + 1] = x
        /\ \A i \in 1 .. Len(s) : r[i] = s[i]
    BY <1>1, <2>4
  <2> HIDE DEF r
  <2>6. CASE x = NoEnd
    <3>1. Len(r) >= 1 /\ r[Len(r)] = NoEnd
      BY <1>1, <2>5, <2>6
    <3>2. r \in Visited(w, p, end)
      BY <2>5, <3>1 DEF Visited
    <3> QED
      BY <2>3, <3>2 DEF r
  <2>7. CASE x \in q + 1 .. end /\ Inside(w, p, end, q)
    <3>1. ASSUME NEW i \in 1 .. Len(r) - 1 PROVE Inside(w, p, end, r[i])
      <4>1. CASE i = Len(s)
        BY <1>1, <2>5, <2>7, <4>1
      <4>2. CASE i # Len(s)
        <5>1. i \in 1 .. Len(s) - 1
          BY <1>1, <2>5, <4>2
        <5>2. Inside(w, p, end, s[i]) /\ r[i] = s[i]
          BY <1>1, <2>1, <2>5, <5>1
        <5> QED
          BY <5>2
      <4> QED
        BY <4>1, <4>2
    <3>2. r[Len(r)] \in p .. end
      BY <1>1, <2>1, <2>5, <2>7
    <3>3. r \in Visited(w, p, end)
      BY <1>1, <2>5, <3>1, <3>2 DEF Visited
    <3> QED
      BY <2>3, <3>3 DEF r
  <2> QED
    BY <2>2, <2>6, <2>7
<1> QED
  BY <1>3, <1>4

(* The whole loop keeps to those places: it stops before the end or        *)
(* throws.                                                                 *)
LEMMA PlacesExist ==
  ASSUME NEW w, WordsOK(w), NEW p \in Nat, NEW end \in Nat, p <= end, end <= Len(w)
  PROVE  LoopPlaces(w, p, end) \in Visited(w, p, end)
<1> DEFINE n == end - p
           V == Visited(w, p, end)
           step == [i \in 1 .. n |-> [s \in V |-> OneMore(w, end, s)]]
           Eqn(g) == g = [k \in 0 .. n |-> IF k = 0 THEN <<p>> ELSE OneMore(w, end, g[k - 1])]
<1>1. n \in Nat
  OBVIOUS
<1>2. <<p>> \in V
  <2>1. <<p>> \in Seq(Int) /\ Len(<<p>>) = 1 /\ <<p>>[1] = p
    OBVIOUS
  <2> QED
    BY <2>1 DEF Visited
<1>3. \A s \in V : OneMore(w, end, s) \in V
  BY OneMoreStays
<1>4. LoopPlaces(w, p, end) = (CHOOSE g : Eqn(g))[n]
  BY DEF LoopPlaces
<1> HIDE DEF V, n
<1>5. IsLoop(V, n, step)
  BY <1>3 DEF IsLoop
<1> HIDE DEF step
<1>6. PICK f : IsRun(V, <<p>>, n, step, f)
  BY ONLY <1>1, <1>2, <1>5, LoopExists, Zenon
<1>7. f \in [0 .. n -> V] /\ f[0] = <<p>> /\ \A i \in 1 .. n : f[i] = step[i][f[i - 1]]
  BY <1>6 DEF IsRun
<1>8. ASSUME NEW k \in 0 .. n
      PROVE  f[k] = IF k = 0 THEN <<p>> ELSE OneMore(w, end, f[k - 1])
  <2>1. CASE k = 0
    BY <1>7, <2>1
  <2>2. CASE k # 0
    <3>1. k \in 1 .. n /\ f[k - 1] \in V
      BY <1>1, <1>7, <2>2
    <3> QED
      BY <1>7, <2>2, <3>1 DEF step
  <2> QED
    BY <2>1, <2>2
<1>9. Eqn(f)
  <2>1. f = [k \in 0 .. n |-> f[k]]
    BY <1>7
  <2> QED
    BY <1>8, <2>1
<1> DEFINE g == CHOOSE g : Eqn(g)
<1>10. Eqn(g)
  <2> HIDE DEF Eqn
  <2> QED
    BY <1>9
<1>11. LoopPlaces(w, p, end) = g[n]
  BY <1>4
<1> HIDE DEF g
<1> DEFINE T == {k \in 0 .. n : g[k] \in V}
<1>12. 0 \in T
  BY <1>1, <1>2, <1>10
<1>13. ASSUME NEW k \in 1 .. n, k - 1 \in T PROVE k \in T
  <2>1. g[k] = OneMore(w, end, g[k - 1])
    BY <1>1, <1>10
  <2>2. g[k] \in V
    BY <1>3, <1>13, <2>1
  <2> QED
    BY <1>1, <2>2
<1> HIDE DEF T
<1>14. \A k \in 1 .. n : k - 1 \in T => k \in T
  BY <1>13
<1>15. \A k \in 0 .. n : k \in T
  BY ONLY <1>1, <1>12, <1>14, Counting, Zenon
<1>16. g[n] \in V
  BY <1>1, <1>15 DEF T
<1> QED
  BY <1>11, <1>16 DEF V

(* Whatever the words, the elements of a bundle lie within it, behind its  *)
(* head.                                                                   *)
LEMMA ElementsInside ==
  ASSUME NEW w, WordsOK(w), NEW p, NEW bytes, <<p, bytes>> \in Extents(w),
         Elements(w, p, bytes) # <<NoEnd>>
  PROVE  /\ IsSeq(Elements(w, p, bytes))
         /\ \A k \in 1 .. Len(Elements(w, p, bytes)) :
              /\ Elements(w, p, bytes)[k] \in Nat
              /\ Elements(w, p, bytes)[k] >= p + 4
              /\ <<Elements(w, p, bytes)[k] + 1, Word(w, Elements(w, p, bytes)[k])[2]>> \in Extents(w)
<1> DEFINE L == Len(w)
<1>1. L \in Nat
  BY SeqLen DEF WordsOK
<1>2. p \in 0 .. L /\ bytes \in 0 .. 4 * L + 3 /\ p + bytes \div 4 <= L
  BY DEF Extents
<1> DEFINE end == p + bytes \div 4
           s == LoopPlaces(w, p + 4, end)
<1>3. bytes >= 16 /\ Last(s) = end /\ Elements(w, p, bytes) = Front(s)
  <2> HIDE DEF s
  <2>1. Elements(w, p, bytes) = IF \/ bytes < 16 \/ bytes % 4 # 0
           \/ Word(w, p + 1) # <<"text", "#bundle", 2>>
           \/ Last(s) # end
        THEN <<NoEnd>> ELSE Front(s)
    BY DEF Elements, s
  <2> QED
    BY <1>1, <1>2, <2>1
<1>4. bytes \div 4 \in Nat /\ bytes \div 4 >= 4
  BY <1>1, <1>2, <1>3
<1>5. p \in Nat /\ p + 4 \in Nat /\ end \in Nat /\ p + 4 <= end /\ end <= L
  <2> DEFINE b == bytes \div 4
  <2>1. b \in Nat /\ b >= 4
    BY <1>4
  <2> HIDE DEF b
  <2>2. p \in Nat /\ p + b <= L
    BY <1>1, <1>2 DEF b
  <2>3. p + b \in Nat /\ p + 4 <= p + b
    BY <2>1, <2>2
  <2> QED
    BY <2>2, <2>3 DEF b
<1>6. s \in Visited(w, p + 4, end)
  <2> HIDE DEF end
  <2> QED
    BY <1>5, PlacesExist
<1> HIDE DEF s, end
<1>7. /\ s \in Seq(Int) /\ Len(s) >= 1
      /\ \A i \in 1 .. Len(s) - 1 : Inside(w, p + 4, end, s[i])
  <2>1. s[Len(s)] = end
    BY <1>3 DEF Last
  <2> QED
    BY <1>5, <1>6, <2>1 DEF Visited, NoEnd
<1>8. /\ IsSeq(Front(s)) /\ Len(Front(s)) = Len(s) - 1
      /\ \A i \in 1 .. Len(s) - 1 : Front(s)[i] = s[i]
  <2> DEFINE k == Len(s) - 1
  <2>1. IsSeq(s) /\ k \in Nat /\ k <= Len(s) /\ 1 <= k + 1
    BY <1>7 DEF IsSeq
  <2> HIDE DEF k
  <2>2. /\ IsSeq(SubSeq(s, 1, k)) /\ Len(SubSeq(s, 1, k)) = k + 1 - 1
        /\ \A i \in 1 .. k + 1 - 1 : SubSeq(s, 1, k)[i] = s[1 + i - 1]
    BY <2>1, PartAt
  <2>3. k + 1 - 1 = k /\ \A i \in 1 .. k : 1 + i - 1 = i
    BY <2>1
  <2>4. Front(s) = SubSeq(s, 1, k)
    BY DEF Front, k
  <2>5. IsSeq(Front(s)) /\ Len(Front(s)) = k /\ \A i \in 1 .. k : Front(s)[i] = s[i]
    BY <2>2, <2>3, <2>4
  <2> QED
    BY <2>5 DEF k
<1>9. ASSUME NEW k \in 1 .. Len(s) - 1
      PROVE  s[k] \in Nat /\ s[k] >= p + 4 /\ <<s[k] + 1, Word(w, s[k])[2]>> \in Extents(w)
  <2>1. Inside(w, p + 4, end, s[k])
    BY <1>7
  <2> DEFINE q == s[k]
             n == Word(w, q)[2]
  <2>2. /\ q \in p + 4 .. end - 1 /\ n \in Nat /\ n % 4 = 0
        /\ q + 1 + n \div 4 <= end
    BY <2>1 DEF Inside
  <2> HIDE DEF q, n
  <2>3. q \in Nat /\ q >= p + 4
    BY <1>5, <2>2
  <2>4. q + 1 \in 0 .. L
    BY <1>1, <1>5, <2>2, <2>3
  <2>5. n \in 0 .. 4 * L + 3 /\ q + 1 + n \div 4 <= L
    BY <1>1, <1>5, <2>2, <2>3
  <2>6. <<q + 1, n>> \in Extents(w)
    BY <2>4, <2>5 DEF Extents
  <2> QED
    BY <2>3, <2>6 DEF q, n
<1> QED
  <2> DEFINE e == Elements(w, p, bytes)
  <2>1. e = Front(s) /\ Len(e) = Len(s) - 1
    BY <1>3, <1>8
  <2> HIDE DEF e
  <2>2. ASSUME NEW k \in 1 .. Len(e)
        PROVE  e[k] \in Nat /\ e[k] >= p + 4 /\ <<e[k] + 1, Word(w, e[k])[2]>> \in Extents(w)
    <3>1. k \in 1 .. Len(s) - 1 /\ e[k] = s[k]
      BY <1>8, <2>1
    <3> QED
      BY <1>9, <3>1
  <2>3. IsSeq(e)
    BY <1>8, <2>1
  <2> QED
    BY <2>2, <2>3 DEF e

(* Slots that lead from one to the next up to the end. *)
Chain(w, p, e, m, s) ==
  /\ m \in Nat /\ s \in [0 .. m -> Nat]
  /\ s[0] = p /\ s[m] = e
  /\ \A k \in 1 .. m : /\ s[k - 1] < s[k]
                       /\ w[s[k - 1] + 1] = <<"size", 4 * (s[k] - s[k - 1] - 1)>>

(* The slots of a chain rise, and there are no more of them than words. *)
LEMMA ChainRises ==
  ASSUME NEW w, NEW p, NEW e, NEW m, NEW s, Chain(w, p, e, m, s)
  PROVE  /\ \A k \in 0 .. m : s[k] >= p + k
         /\ \A k \in 0 .. m : s[k] <= e /\ (k < m => s[k] < e)
         /\ p \in Nat /\ e \in Nat /\ m <= e - p
<1>1. /\ m \in Nat /\ s \in [0 .. m -> Nat] /\ s[0] = p /\ s[m] = e
      /\ \A k \in 1 .. m : s[k - 1] < s[k]
  BY DEF Chain
<1>2. p \in Nat /\ e \in Nat
  BY <1>1
<1> DEFINE T == {k \in 0 .. m : s[k] >= p + k}
<1>3. 0 \in T
  BY <1>1, <1>2
<1>4. ASSUME NEW k \in 1 .. m, k - 1 \in T PROVE k \in T
  <2>1. s[k - 1] \in Nat /\ s[k] \in Nat /\ s[k - 1] < s[k] /\ s[k - 1] >= p + (k - 1)
    BY <1>1, <1>4
  <2> QED
    BY <1>1, <1>2, <2>1
<1> HIDE DEF T
<1>5. \A k \in 1 .. m : k - 1 \in T => k \in T
  BY <1>4
<1>6. \A k \in 0 .. m : k \in T
  BY ONLY <1>1, <1>3, <1>5, Counting, Zenon
<1>7. \A k \in 0 .. m : s[k] >= p + k
  BY <1>6 DEF T
<1> DEFINE R == {j \in 0 .. m : s[m - j] <= e /\ (j > 0 => s[m - j] < e)}
<1>8. 0 \in R
  BY <1>1, <1>2
<1>9. ASSUME NEW j \in 1 .. m, j - 1 \in R PROVE j \in R
  <2>1. m - (j - 1) \in 1 .. m /\ m - (j - 1) - 1 = m - j /\ m - j \in 0 .. m
    BY <1>1
  <2>2. s[m - j] < s[m - (j - 1)]
    BY <1>1, <2>1
  <2>3. s[m - j] \in Nat /\ s[m - (j - 1)] \in Nat /\ s[m - (j - 1)] <= e
    BY <1>1, <1>9, <2>1
  <2> QED
    BY <1>1, <1>2, <2>2, <2>3
<1> HIDE DEF R
<1>10. \A j \in 1 .. m : j - 1 \in R => j \in R
  BY <1>9
<1>11. \A j \in 0 .. m : j \in R
  BY ONLY <1>1, <1>8, <1>10, Counting, Zenon
<1>12. ASSUME NEW k \in 0 .. m PROVE s[k] <= e /\ (k < m => s[k] < e)
  <2>1. m - k \in 0 .. m /\ m - (m - k) = k
    BY <1>1
  <2>2. m - k \in R
    BY <1>11, <2>1
  <2>3. s[m - (m - k)] <= e /\ (m - k > 0 => s[m - (m - k)] < e)
    BY <2>2 DEF R
  <2> QED
    BY <1>1, <2>1, <2>3
<1>13. s[m] >= p + m /\ s[m] = e
  BY <1>1, <1>7
<1>14. m <= e - p
  BY <1>1, <1>2, <1>13
<1> QED
  BY <1>2, <1>7, <1>12, <1>14

(* The step over an element leads from one slot of a chain to the next. *)
LEMMA ChainStep ==
  ASSUME NEW w, NEW p, NEW e, NEW m, NEW s, Chain(w, p, e, m, s), NEW k \in 1 .. m
  PROVE  AfterElement(w, s[k - 1], e) = s[k]
<1> DEFINE a == s[k - 1]
           b == s[k]
           d == b - a - 1
<1>1. /\ a \in Nat /\ b \in Nat /\ e \in Nat /\ a < b /\ b <= e
      /\ w[a + 1] = <<"size", 4 * d>>
  <2>1. m \in Nat /\ k \in 0 .. m /\ k - 1 \in 0 .. m
    BY DEF Chain
  <2>2. s \in [0 .. m -> Nat] /\ s[k - 1] < s[k] /\ w[s[k - 1] + 1] = <<"size", 4 * d>>
    BY DEF Chain
  <2>3. e \in Nat /\ s[k] <= e
    BY <2>1, ChainRises
  <2> QED
    BY <2>1, <2>2, <2>3
<1> HIDE DEF a, b
<1>2. d \in Nat /\ b = a + 1 + d
  BY <1>1
<1> HIDE DEF d
<1>3. Word(w, a)[1] = "size" /\ Word(w, a)[2] = 4 * d
  BY <1>1 DEF Word
<1>4. (4 * d) % 4 = 0 /\ (4 * d) \div 4 = d
  BY <1>2
<1>5. AfterElement(w, a, e) = a + 1 + d
  BY <1>1, <1>2, <1>3, <1>4 DEF AfterElement
<1> QED
  BY <1>2, <1>5 DEF a, b

(* The loop over a bundle visits the slots of its chain, and its end. *)
LEMMA ChainIsWalked ==
  ASSUME NEW w, NEW p, NEW e, NEW m, NEW s, Chain(w, p, e, m, s)
  PROVE  LoopPlaces(w, p, e) = [j \in 1 .. m + 1 |-> s[j - 1]]
<1> DEFINE n == e - p
           upto(k) == IF k <= m THEN k ELSE m
           at(k) == [j \in 1 .. upto(k) + 1 |-> s[j - 1]]
           Eqn(g) == g = [k \in 0 .. n |-> IF k = 0 THEN <<p>> ELSE OneMore(w, e, g[k - 1])]
<1>1. /\ m \in Nat /\ s \in [0 .. m -> Nat] /\ s[0] = p /\ s[m] = e
      /\ p \in Nat /\ e \in Nat /\ n \in Nat /\ m <= n
  <2>1. m \in Nat /\ s \in [0 .. m -> Nat] /\ s[0] = p /\ s[m] = e
    BY DEF Chain
  <2>2. p \in Nat /\ e \in Nat /\ m <= e - p
    BY ChainRises
  <2> QED
    BY <2>1, <2>2
<1>2. \A k \in 0 .. m : k < m => s[k] < e
  BY ChainRises
<1>3. LoopPlaces(w, p, e) = (CHOOSE g : Eqn(g))[n]
  BY DEF LoopPlaces
<1> HIDE DEF n
<1>4. ASSUME NEW k \in 1 .. n
      PROVE  OneMore(w, e, at(k - 1)) = at(k)
  <2> DEFINE i == upto(k - 1)
             c == at(k - 1)
  <2>1. i \in 0 .. m /\ k - 1 \in Nat
    BY <1>1
  <2>2. IsSeq(c) /\ Len(c) = i + 1
    <3>1. i + 1 \in Nat
      BY <1>1, <2>1
    <3>2. c = [j \in 1 .. i + 1 |-> c[j]]
      OBVIOUS
    <3> HIDE DEF c, i
    <3> QED
      BY <3>1, <3>2, MadeAt
  <2>3. c[i + 1] = s[i]
    BY <1>1, <2>1
  <2>4. Last(c) = s[i]
    <3> HIDE DEF c, i
    <3> QED
      BY <2>2, <2>3 DEF Last
  <2>5. CASE k <= m
    <3>1. i = k - 1 /\ i \in 0 .. m /\ i < m /\ upto(k) = k
      BY <1>1, <2>5
    <3>2. s[i] # e /\ s[i] # NoEnd
      BY <1>1, <1>2, <3>1 DEF NoEnd
    <3>3. AfterElement(w, s[i], e) = s[k]
      <4>1. k \in 1 .. m
        BY <1>1, <2>5
      <4> QED
        BY <3>1, <4>1, ChainStep
    <3>4. OneMore(w, e, c) = Append(c, s[k])
      <4> HIDE DEF c, i
      <4> QED
        BY <2>4, <3>2, <3>3 DEF OneMore
    <3>5. at(k) = [j \in 1 .. k + 1 |-> s[j - 1]]
      BY <3>1
    <3>6. Append(c, s[k]) = at(k)
      <4> DEFINE d == at(k)
      <4>1. IsSeq(d) /\ Len(d) = k + 1
        <5>1. k + 1 \in Nat
          BY <1>1
        <5>2. d = [j \in 1 .. k + 1 |-> d[j]]
          BY <3>1
        <5> HIDE DEF d
        <5> QED
          BY <5>1, <5>2, MadeAt
      <4>2. ASSUME NEW j \in 1 .. k + 1 PROVE Append(c, s[k])[j] = d[j]
        <5>1. d[j] = s[j - 1]
          BY <3>1
        <5>2. CASE j = k + 1
          <6>1. k + 1 = Len(c) + 1 /\ j - 1 = k
            BY <2>2, <3>1, <5>2, <1>1
          <6> HIDE DEF c, d
          <6> QED
            BY <2>2, <5>1, <5>2, <6>1, AppendAt
        <5>3. CASE j # k + 1
          <6>1. j \in 1 .. k /\ k = Len(c)
            BY <1>1, <2>2, <3>1, <5>3
          <6>2. c[j] = s[j - 1]
            BY <3>1, <6>1
          <6>3. Append(c, s[k])[j] = c[j]
            <7> HIDE DEF c, d
            <7> QED
              BY <2>2, <6>1, AppendAt
          <6> QED
            BY <5>1, <6>2, <6>3
        <5> QED
          BY <5>2, <5>3
      <4> HIDE DEF c, d
      <4>3. IsSeq(Append(c, s[k])) /\ Len(Append(c, s[k])) = k + 1
        <5>1. Len(c) = k
          BY <1>1, <2>2, <3>1
        <5> QED
          BY <2>2, <5>1, AppendAt
      <4>4. Append(c, s[k]) = d
        BY <4>1, <4>2, <4>3, SameSeq
      <4> QED
        BY <4>4 DEF d
    <3> QED
      BY <3>4, <3>6
  <2>6. CASE k > m
    <3>1. i = m /\ upto(k) = m
      BY <1>1, <2>6
    <3>2. s[i] = e
      BY <1>1, <3>1
    <3>3. OneMore(w, e, c) = c
      <4> HIDE DEF c, i
      <4> QED
        BY <2>4, <3>2 DEF OneMore
    <3>4. at(k) = c
      BY <3>1
    <3> QED
      BY <3>3, <3>4
  <2> QED
    BY <1>1, <2>5, <2>6
<1>5. at(0) = <<p>>
  <2>1. upto(0) + 1 = 1
    BY <1>1
  <2>2. at(0) = [j \in 1 .. 1 |-> s[j - 1]]
    BY <2>1
  <2>3. IsSeq(at(0)) /\ Len(at(0)) = 1
    <3> DEFINE d == at(0)
    <3>1. d = [j \in 1 .. 1 |-> d[j]]
      BY <2>2
    <3> HIDE DEF d
    <3>2. IsSeq(d) /\ Len(d) = 1
      BY <3>1, MadeAt
    <3> QED
      BY <3>2 DEF d
  <2>4. \A j \in 1 .. 1 : at(0)[j] = <<p>>[j]
    BY <1>1, <2>2
  <2> DEFINE d == at(0)
  <2> HIDE DEF d
  <2>5. d = <<p>>
    <3>1. IsSeq(<<p>>) /\ Len(<<p>>) = 1
      BY SeqShort
    <3>2. IsSeq(d) /\ Len(d) = Len(<<p>>) /\ \A j \in 1 .. Len(d) : d[j] = <<p>>[j]
      BY <2>3, <2>4, <3>1 DEF d
    <3> QED
      BY <3>1, <3>2, SameSeq
  <2> QED
    BY <2>5 DEF d
<1> DEFINE f == [k \in 0 .. n |-> at(k)]
<1>6. ASSUME NEW k \in 0 .. n
      PROVE  f[k] = IF k = 0 THEN <<p>> ELSE OneMore(w, e, f[k - 1])
  <2>1. f[k] = at(k)
    OBVIOUS
  <2>2. CASE k = 0
    BY <1>5, <2>1, <2>2
  <2>3. CASE k # 0
    <3>1. k \in 1 .. n /\ k - 1 \in 0 .. n
      BY <1>1, <2>3
    <3>2. f[k - 1] = at(k - 1)
      BY <3>1
    <3>3. OneMore(w, e, at(k - 1)) = at(k)
      BY <1>4, <3>1
    <3> HIDE DEF f, at
    <3> QED
      BY <2>1, <2>3, <3>2, <3>3
  <2> QED
    BY <2>2, <2>3
<1>7. Eqn(f)
  <2>1. f = [k \in 0 .. n |-> f[k]]
    OBVIOUS
  <2> HIDE DEF f
  <2> QED
    BY <1>6, <2>1
<1> DEFINE g == CHOOSE g : Eqn(g)
<1>8. Eqn(g)
  <2> HIDE DEF Eqn, f
  <2> QED
    BY <1>7
<1>9. LoopPlaces(w, p, e) = g[n]
  BY <1>3
<1> HIDE DEF g
<1> DEFINE T == {k \in 0 .. n : g[k] = at(k)}
<1>10. 0 \in T
  <2>1. g[0] = <<p>> /\ 0 \in 0 .. n
    BY <1>1, <1>8
  <2> HIDE DEF at
  <2> QED
    BY <1>5, <2>1
<1>11. ASSUME NEW k \in 1 .. n, k - 1 \in T PROVE k \in T
  <2>1. g[k] = OneMore(w, e, g[k - 1]) /\ k \in 0 .. n
    BY <1>1, <1>8
  <2>2. g[k - 1] = at(k - 1)
    BY <1>11
  <2>3. g[k] = at(k)
    <3> HIDE DEF at
    <3> QED
      BY <1>4, <2>1, <2>2
  <2> QED
    BY <2>1, <2>3
<1> HIDE DEF T
<1>12. \A k \in 1 .. n : k - 1 \in T => k \in T
  BY <1>11
<1>13. \A k \in 0 .. n : k \in T
  BY ONLY <1>1, <1>10, <1>12, Counting, Zenon
<1>14. g[n] = at(n)
  <2>1. n \in T
    BY <1>1, <1>13
  <2> HIDE DEF at
  <2> QED
    BY <2>1 DEF T
<1>15. upto(n) = m
  BY <1>1
<1> QED
  BY <1>9, <1>14, <1>15

(* The elements of a bundle are the slots of the chain behind its head. *)
LEMMA ElementsAre ==
  ASSUME NEW w, NEW p \in Nat, NEW c, c = p + 4,
         NEW e, NEW m, NEW s, Chain(w, c, e, m, s),
         w[p + 2] = <<"text", "#bundle", 2>>
  PROVE  Elements(w, p, 4 * (e - p)) = [k \in 1 .. m |-> s[k - 1]]
<1> DEFINE bytes == 4 * (e - p)
           end == p + bytes \div 4
           r == LoopPlaces(w, p + 4, e)
<1>1. m \in Nat /\ s \in [0 .. m -> Nat] /\ s[m] = e /\ e \in Nat /\ p + 4 <= e
  <2>1. m \in Nat /\ s \in [0 .. m -> Nat] /\ s[m] = e
    BY DEF Chain
  <2>2. e \in Nat /\ m <= e - c
    BY ChainRises
  <2> QED
    BY <2>1, <2>2
<1>2. end = e /\ bytes >= 16 /\ bytes % 4 = 0
  <2> DEFINE d == e - p
  <2>1. d \in Nat /\ d >= 4 /\ p + d = e
    BY <1>1
  <2> HIDE DEF d
  <2>2. (4 * d) \div 4 = d /\ (4 * d) % 4 = 0 /\ 4 * d >= 16
    BY <2>1
  <2> QED
    BY <2>1, <2>2 DEF d
<1>3. Elements(w, p, bytes) = IF \/ bytes < 16 \/ bytes % 4 # 0
           \/ Word(w, p + 1) # <<"text", "#bundle", 2>>
           \/ Last(LoopPlaces(w, p + 4, end)) # end
        THEN <<NoEnd>> ELSE Front(LoopPlaces(w, p + 4, end))
  BY DEF Elements
<1>4. Word(w, p + 1) = <<"text", "#bundle", 2>>
  <2>1. p + 1 + 1 = p + 2
    OBVIOUS
  <2> QED
    BY <2>1 DEF Word
<1> HIDE DEF end, bytes
<1>5. r = [j \in 1 .. m + 1 |-> s[j - 1]]
  <2>1. LoopPlaces(w, c, e) = [j \in 1 .. m + 1 |-> s[j - 1]]
    <3>1. Chain(w, c, e, m, s)
      OBVIOUS
    <3> QED
      BY ONLY <3>1, ChainIsWalked
  <2>2. r = LoopPlaces(w, c, e)
    OBVIOUS
  <2> HIDE DEF r
  <2> QED
    BY <2>1, <2>2
<1>6. Elements(w, p, bytes) = IF Last(r) # e THEN <<NoEnd>> ELSE Front(r)
  <2>1. r = LoopPlaces(w, p + 4, end)
    BY <1>2
  <2>2. ~(bytes < 16) /\ bytes \in Int
    BY <1>1, <1>2 DEF bytes
  <2> HIDE DEF r
  <2> QED
    BY <1>2, <1>3, <1>4, <2>1, <2>2
<1> HIDE DEF r
<1>7. IsSeq(r) /\ Len(r) = m + 1
  <2>1. r = [j \in 1 .. m + 1 |-> r[j]] /\ m + 1 \in Nat
    BY <1>1, <1>5
  <2> QED
    BY <2>1, MadeAt
<1>8. Last(r) = e
  BY <1>1, <1>5, <1>7 DEF Last
<1>9. Front(r) = [k \in 1 .. m |-> s[k - 1]]
  <2> DEFINE init == SubSeq(r, 1, m)
             d == [k \in 1 .. m |-> s[k - 1]]
  <2>1. Front(r) = init
    <3>1. Len(r) - 1 = m
      BY <1>1, <1>7
    <3> QED
      BY <3>1 DEF Front
  <2>2. /\ IsSeq(init) /\ Len(init) = m + 1 - 1
        /\ \A i \in 1 .. m + 1 - 1 : init[i] = r[1 + i - 1]
    <3>1. 1 <= m + 1 /\ m <= Len(r)
      BY <1>1, <1>7
    <3> QED
      BY <1>1, <1>7, <3>1, PartAt
  <2>3. m + 1 - 1 = m /\ \A i \in 1 .. m : 1 + i - 1 = i
    BY <1>1
  <2>4. IsSeq(d) /\ Len(d) = m
    <3>1. d = [k \in 1 .. m |-> d[k]]
      OBVIOUS
    <3> HIDE DEF d
    <3> QED
      BY <1>1, <3>1, MadeAt
  <2>5. \A i \in 1 .. m : init[i] = d[i]
    <3> HIDE DEF init
    <3> QED
      <4> SUFFICES ASSUME NEW i \in 1 .. m PROVE init[i] = s[i - 1]
        OBVIOUS
      <4>1. init[i] = r[i]
        BY <2>2, <2>3
      <4>2. i \in 1 .. m + 1
        BY <1>1
      <4> QED
        BY <1>5, <4>1, <4>2
  <2> HIDE DEF init, d
  <2>6. init = d
    BY <2>2, <2>3, <2>4, <2>5, SameSeq
  <2> QED
    BY <2>1, <2>6 DEF d
<1> QED
  BY <1>6, <1>8, <1>9 DEF bytes

(* What is behind a place. *)
Behind(w, m) == {x \in Extents(w) : x[1] > Len(w) - m}

(* f and g agree on everything that lies behind the start of x. *)
Alike(w, x, f, g) == \A y \in Extents(w) : y[1] > x[1] => f[y] = g[y]

(* The parts of a bundle lie behind its start. *)
LEMMA PartsAlike ==
  ASSUME NEW w, WordsOK(w), NEW x \in Extents(w), NEW f, NEW g, Alike(w, x, f, g),
         Elements(w, x[1], x[2]) # <<NoEnd>>,
         NEW k \in 1 .. Len(Elements(w, x[1], x[2]))
  PROVE  f[<<Elements(w, x[1], x[2])[k] + 1, Word(w, Elements(w, x[1], x[2])[k])[2]>>]
         = g[<<Elements(w, x[1], x[2])[k] + 1, Word(w, Elements(w, x[1], x[2])[k])[2]>>]
<1> DEFINE q == Elements(w, x[1], x[2])[k]
           n == Word(w, q)[2]
<1>1. x = <<x[1], x[2]>> /\ x[1] \in Nat
  BY DEF Extents
<1>2. q \in Nat /\ q >= x[1] + 4 /\ <<q + 1, n>> \in Extents(w)
  BY <1>1, ElementsInside
<1> HIDE DEF q, n
<1>3. <<q + 1, n>>[1] > x[1]
  BY <1>1, <1>2
<1>4. f[<<q + 1, n>>] = g[<<q + 1, n>>]
  BY <1>2, <1>3 DEF Alike
<1> QED
  BY <1>4 DEF q, n

(* So printing a bundle looks only at what is behind its start. *)
LEMMA PrintAlike ==
  ASSUME NEW w, WordsOK(w), NEW x \in Extents(w), NEW f, NEW g, Alike(w, x, f, g)
  PROVE  PrintElements(f, w, x[1], x[2]) = PrintElements(g, w, x[1], x[2])
<1> DEFINE slots == Elements(w, x[1], x[2])
           part(h) == [k \in 1 .. Len(slots) |->
                     IF ElementIsBundle(w, slots[k] + 1)
                     THEN h[<<slots[k] + 1, Word(w, slots[k])[2]>>]
                     ELSE PrintMessage(w, slots[k] + 1, Word(w, slots[k])[2])]
           all(h) == IF slots = <<NoEnd>> THEN << <<"MalformedBundle">> >>
                     ELSE << <<"[", ToUInt64(w, x[1] + 2)>> >> \o FlattenSeq(part(h)) \o << <<"]">> >>
<1>1. PrintElements(f, w, x[1], x[2]) = all(f)
  BY DEF PrintElements
<1>2. PrintElements(g, w, x[1], x[2]) = all(g)
  BY DEF PrintElements
<1>3. CASE slots = <<NoEnd>>
  BY <1>1, <1>2, <1>3
<1>4. CASE slots # <<NoEnd>>
  <2>1. \A k \in 1 .. Len(slots) : f[<<slots[k] + 1, Word(w, slots[k])[2]>>] = g[<<slots[k] + 1, Word(w, slots[k])[2]>>]
    BY <1>4, PartsAlike
  <2> HIDE DEF slots
  <2>2. part(f) = part(g)
    BY <2>1
  <2> HIDE DEF part
  <2> QED
    BY <1>1, <1>2, <2>2
<1> QED
  BY <1>3, <1>4

(* And so does handling it. *)
LEMMA ProcessAlike ==
  ASSUME NEW w, WordsOK(w), NEW x \in Extents(w), NEW f, NEW g, Alike(w, x, f, g)
  PROVE  ProcessElements(f, w, x[1], x[2]) = ProcessElements(g, w, x[1], x[2])
<1> DEFINE slots == Elements(w, x[1], x[2])
           part(h) == [k \in 1 .. Len(slots) |->
                     IF ElementIsBundle(w, slots[k] + 1)
                     THEN h[<<slots[k] + 1, Word(w, slots[k])[2]>>]
                     ELSE ProcessMessage(w, slots[k] + 1, Word(w, slots[k])[2])]
           of(r) == LET done == {k \in 1 .. Len(slots) :
                            \A j \in 1 .. k - 1 : r[j].throws = "nothing"}
                    IN  [messages |-> FlattenSeq([k \in 1 .. Cardinality(done) |-> r[k].messages]),
                         throws   |-> IF \E k \in done : r[k].throws = "MalformedMessage"
                                      THEN "MalformedMessage" ELSE "nothing"]
           all(h) == IF slots = <<NoEnd>> THEN Throwing("MalformedBundle") ELSE of(part(h))
<1>1. ProcessElements(f, w, x[1], x[2]) = all(f)
  BY DEF ProcessElements
<1>2. ProcessElements(g, w, x[1], x[2]) = all(g)
  BY DEF ProcessElements
<1>3. CASE slots = <<NoEnd>>
  BY <1>1, <1>2, <1>3
<1>4. CASE slots # <<NoEnd>>
  <2>1. \A k \in 1 .. Len(slots) : f[<<slots[k] + 1, Word(w, slots[k])[2]>>] = g[<<slots[k] + 1, Word(w, slots[k])[2]>>]
    BY <1>4, PartsAlike
  <2> HIDE DEF slots, of
  <2>2. part(f) = part(g)
    BY <2>1
  <2> HIDE DEF part
  <2> QED
    BY <1>1, <1>2, <2>2
<1> QED
  BY <1>3, <1>4

(* A bundle is read by reading what it contains. *)
LEMMA PrintUnfolds ==
  ASSUME NEW w, WordsOK(w)
  PROVE  \E f : \A x \in Extents(w) : /\ f[x] = PrintBundle(w, x[1], x[2])
                                      /\ f[x] = PrintElements(f, w, x[1], x[2])
<1> DEFINE E == Extents(w)
           N == Len(w) + 1
           Eqn(f, m) == f = [x \in Behind(w, m) |-> PrintElements(f, w, x[1], x[2])]
           T == {m \in 0 .. N : \E f : Eqn(f, m)}
<1>1. N \in Nat /\ Len(w) \in Nat
  BY SeqLen DEF WordsOK
<1>2. \A x \in E : x = <<x[1], x[2]>> /\ x[1] \in 0 .. Len(w)
  BY DEF Extents
<1> HIDE DEF E, N
<1>3. 0 \in T
  <2>1. Behind(w, 0) = {}
    BY <1>1, <1>2 DEF Behind, E
  <2>2. Eqn([x \in {} |-> 0], 0)
    BY <2>1
  <2> HIDE DEF Eqn
  <2> QED
    BY <1>1, <2>2
<1>4. ASSUME NEW m \in 1 .. N, m - 1 \in T PROVE m \in T
  <2>1. PICK f : Eqn(f, m - 1)
    BY <1>4
  <2> DEFINE g == [x \in Behind(w, m) |-> PrintElements(f, w, x[1], x[2])]
  <2>2. \A x \in Behind(w, m - 1) : f[x] = PrintElements(f, w, x[1], x[2])
    BY <2>1
  <2>3. \A x \in Behind(w, m - 1) : x \in Behind(w, m)
    BY <1>1, <1>2 DEF Behind, E
  <2>4. \A x \in Behind(w, m - 1) : g[x] = f[x]
    BY <2>2, <2>3
  <2>5. ASSUME NEW x \in Behind(w, m)
        PROVE  PrintElements(f, w, x[1], x[2]) = PrintElements(g, w, x[1], x[2])
    <3>1. ASSUME NEW y \in Extents(w), y[1] > x[1] PROVE y \in Behind(w, m - 1)
      <4>1. x[1] \in Nat /\ y[1] \in Nat /\ x[1] > Len(w) - m /\ m \in Nat
        BY <1>1, <1>2 DEF Behind, E
      <4> QED
        BY <1>1, <3>1, <4>1 DEF Behind
    <3>2. Alike(w, x, f, g)
      <4> HIDE DEF g
      <4> QED
        BY <2>4, <3>1 DEF Alike
    <3>3. x \in Extents(w)
      BY DEF Behind
    <3> HIDE DEF g
    <3> QED
      BY <3>2, <3>3, PrintAlike
  <2>6. Eqn(g, m)
    <3>1. \A x \in Behind(w, m) : g[x] = PrintElements(g, w, x[1], x[2])
      <4>1. \A x \in Behind(w, m) : g[x] = PrintElements(f, w, x[1], x[2])
        OBVIOUS
      <4> HIDE DEF g
      <4> QED
        BY <2>5, <4>1
    <3>2. g = [x \in Behind(w, m) |-> g[x]]
      OBVIOUS
    <3> HIDE DEF g
    <3> QED
      BY <3>1, <3>2
  <2> HIDE DEF Eqn, g
  <2> QED
    BY <1>1, <2>6
<1> HIDE DEF T
<1>5. \A m \in 1 .. N : m - 1 \in T => m \in T
  BY <1>4
<1>6. \A m \in 0 .. N : m \in T
  BY ONLY <1>1, <1>3, <1>5, Counting, Zenon
<1>7. \E f : Eqn(f, N)
  BY <1>1, <1>6 DEF T
<1>8. Behind(w, N) = Extents(w)
  BY <1>1, <1>2 DEF Behind, E, N
<1> DEFINE All(f) == f = [x \in Extents(w) |-> PrintElements(f, w, x[1], x[2])]
           h == CHOOSE f : All(f)
<1>9. All(h)
  <2>1. \E f : All(f)
    BY <1>7, <1>8
  <2> HIDE DEF All
  <2> QED
    BY <2>1
<1>10. ASSUME NEW x \in Extents(w)
       PROVE  h[x] = PrintBundle(w, x[1], x[2])
  <2>1. PrintBundle(w, x[1], x[2]) = h[<<x[1], x[2]>>]
    BY DEF PrintBundle
  <2>2. x = <<x[1], x[2]>>
    BY <1>2 DEF E
  <2> QED
    BY <2>1, <2>2
<1> HIDE DEF h
<1>11. \A x \in Extents(w) : h[x] = PrintElements(h, w, x[1], x[2])
  BY <1>9
<1> QED
  BY <1>10, <1>11

(* A bundle is handled by handling what it contains. *)
LEMMA ProcessUnfolds ==
  ASSUME NEW w, WordsOK(w)
  PROVE  \E f : \A x \in Extents(w) : /\ f[x] = ProcessBundle(w, x[1], x[2])
                                      /\ f[x] = ProcessElements(f, w, x[1], x[2])
<1> DEFINE E == Extents(w)
           N == Len(w) + 1
           Eqn(f, m) == f = [x \in Behind(w, m) |-> ProcessElements(f, w, x[1], x[2])]
           T == {m \in 0 .. N : \E f : Eqn(f, m)}
<1>1. N \in Nat /\ Len(w) \in Nat
  BY SeqLen DEF WordsOK
<1>2. \A x \in E : x = <<x[1], x[2]>> /\ x[1] \in 0 .. Len(w)
  BY DEF Extents
<1> HIDE DEF E, N
<1>3. 0 \in T
  <2>1. Behind(w, 0) = {}
    BY <1>1, <1>2 DEF Behind, E
  <2>2. Eqn([x \in {} |-> 0], 0)
    BY <2>1
  <2> HIDE DEF Eqn
  <2> QED
    BY <1>1, <2>2
<1>4. ASSUME NEW m \in 1 .. N, m - 1 \in T PROVE m \in T
  <2>1. PICK f : Eqn(f, m - 1)
    BY <1>4
  <2> DEFINE g == [x \in Behind(w, m) |-> ProcessElements(f, w, x[1], x[2])]
  <2>2. \A x \in Behind(w, m - 1) : f[x] = ProcessElements(f, w, x[1], x[2])
    BY <2>1
  <2>3. \A x \in Behind(w, m - 1) : x \in Behind(w, m)
    BY <1>1, <1>2 DEF Behind, E
  <2>4. \A x \in Behind(w, m - 1) : g[x] = f[x]
    BY <2>2, <2>3
  <2>5. ASSUME NEW x \in Behind(w, m)
        PROVE  ProcessElements(f, w, x[1], x[2]) = ProcessElements(g, w, x[1], x[2])
    <3>1. ASSUME NEW y \in Extents(w), y[1] > x[1] PROVE y \in Behind(w, m - 1)
      <4>1. x[1] \in Nat /\ y[1] \in Nat /\ x[1] > Len(w) - m /\ m \in Nat
        BY <1>1, <1>2 DEF Behind, E
      <4> QED
        BY <1>1, <3>1, <4>1 DEF Behind
    <3>2. Alike(w, x, f, g)
      <4> HIDE DEF g
      <4> QED
        BY <2>4, <3>1 DEF Alike
    <3>3. x \in Extents(w)
      BY DEF Behind
    <3> HIDE DEF g
    <3> QED
      BY <3>2, <3>3, ProcessAlike
  <2>6. Eqn(g, m)
    <3>1. \A x \in Behind(w, m) : g[x] = ProcessElements(g, w, x[1], x[2])
      <4>1. \A x \in Behind(w, m) : g[x] = ProcessElements(f, w, x[1], x[2])
        OBVIOUS
      <4> HIDE DEF g
      <4> QED
        BY <2>5, <4>1
    <3>2. g = [x \in Behind(w, m) |-> g[x]]
      OBVIOUS
    <3> HIDE DEF g
    <3> QED
      BY <3>1, <3>2
  <2> HIDE DEF Eqn, g
  <2> QED
    BY <1>1, <2>6
<1> HIDE DEF T
<1>5. \A m \in 1 .. N : m - 1 \in T => m \in T
  BY <1>4
<1>6. \A m \in 0 .. N : m \in T
  BY ONLY <1>1, <1>3, <1>5, Counting, Zenon
<1>7. \E f : Eqn(f, N)
  BY <1>1, <1>6 DEF T
<1>8. Behind(w, N) = Extents(w)
  BY <1>1, <1>2 DEF Behind, E, N
<1> DEFINE All(f) == f = [x \in Extents(w) |-> ProcessElements(f, w, x[1], x[2])]
           h == CHOOSE f : All(f)
<1>9. All(h)
  <2>1. \E f : All(f)
    BY <1>7, <1>8
  <2> HIDE DEF All
  <2> QED
    BY <2>1
<1>10. ASSUME NEW x \in Extents(w)
       PROVE  h[x] = ProcessBundle(w, x[1], x[2])
  <2>1. ProcessBundle(w, x[1], x[2]) = h[<<x[1], x[2]>>]
    BY DEF ProcessBundle
  <2>2. x = <<x[1], x[2]>>
    BY <1>2 DEF E
  <2> QED
    BY <2>1, <2>2
<1> HIDE DEF h
<1>11. \A x \in Extents(w) : h[x] = ProcessElements(h, w, x[1], x[2])
  BY <1>9
<1> QED
  BY <1>10, <1>11

(***************************************************************************)
(* What the words of a finished element read as, on their own; and bundles *)
(* that are described by their elements.                                   *)
(***************************************************************************)

(* What OscPrintReceivedElements prints for an element. *)
PrintPart(w, p, bytes) ==
  IF ElementIsBundle(w, p) THEN PrintBundle(w, p, bytes) ELSE PrintMessage(w, p, bytes)

(* What the receiver does with an element. *)
ProcessPart(w, p, bytes) ==
  IF ElementIsBundle(w, p) THEN ProcessBundle(w, p, bytes) ELSE ProcessMessage(w, p, bytes)

(* The words of v and w behind p and up to e are the same. *)
Agree(v, w, p, e) == \A j \in p + 1 .. e : v[j] = w[j]

(* The words from p to e read as the tokens T and give the messages M,     *)
(* whatever is around them.                                                *)
ReadsAs(w, p, e, T, M) ==
  /\ p \in Nat /\ e \in Nat /\ p <= e /\ IsSeq(T) /\ IsSeq(M)
  /\ \A v : WordsOK(v) /\ e <= Len(v) /\ Agree(v, w, p, e) =>
       /\ PrintPart(v, p, 4 * (e - p)) = T
       /\ ProcessPart(v, p, 4 * (e - p)) = Quietly(M)

(* The words from q to e are a slot with its size and what it is the size  *)
(* of, which reads as T and gives M.                                       *)
Element(w, q, e, T, M) ==
  /\ q \in Nat
  /\ w[q + 1] = <<"size", 4 * (e - q - 1)>>
  /\ ReadsAs(w, q + 1, e, T, M)

(* The words behind b are the head of a bundle with a time tag. *)
Opens(w, b, time) ==
  /\ w[b + 1] = <<"text", "#bundle", 1>> /\ w[b + 2] = <<"text", "#bundle", 2>>
  /\ w[b + 3] = <<"num", time, 1>> /\ w[b + 4] = <<"num", time, 2>>

(* The words from b to e are a bundle so far: its head and m elements.     *)
PartialBy(w, b, e, T, M, m, s, P, Q, time) ==
  /\ b \in Nat /\ Opens(w, b, time)
  /\ Chain(w, b + 4, e, m, s)
  /\ AllSeqs(P) /\ Len(P) = m /\ AllSeqs(Q) /\ Len(Q) = m
  /\ \A k \in 1 .. m : Element(w, s[k - 1], s[k], P[k], Q[k])
  /\ T = << <<"[", time>> >> \o FlattenSeq(P)
  /\ M = FlattenSeq(Q)

(* There is such a description of the words from b to e. *)
Partial(w, b, e, T, M) == \E m, s, P, Q, time : PartialBy(w, b, e, T, M, m, s, P, Q, time)

-----------------------------------------------------------------------------

(* What some words read as depends on those words alone. *)
LEMMA ReadsKept ==
  ASSUME NEW w, NEW x, NEW p, NEW e, NEW T, NEW M, ReadsAs(w, p, e, T, M), Agree(x, w, p, e)
  PROVE  ReadsAs(x, p, e, T, M)
<1>1. ASSUME NEW v, Agree(v, x, p, e) PROVE Agree(v, w, p, e)
  BY <1>1 DEF Agree
<1> QED
  BY <1>1 DEF ReadsAs

(* And so for an element. *)
LEMMA ElementKept ==
  ASSUME NEW w, NEW x, NEW q, NEW e, NEW T, NEW M, Element(w, q, e, T, M), Agree(x, w, q, e)
  PROVE  Element(x, q, e, T, M)
<1>1. q \in Nat /\ e \in Nat /\ q + 1 <= e /\ ReadsAs(w, q + 1, e, T, M)
  BY DEF Element, ReadsAs
<1>2. Agree(x, w, q + 1, e) /\ x[q + 1] = w[q + 1]
  BY <1>1 DEF Agree
<1>3. ReadsAs(x, q + 1, e, T, M)
  <2> DEFINE p == q + 1
  <2> HIDE DEF p
  <2>1. ReadsAs(x, p, e, T, M)
    BY <1>1, <1>2, ReadsKept DEF p
  <2> QED
    BY <2>1 DEF p
<1> QED
  BY <1>2, <1>3 DEF Element

(* The head is there, and the tokens begin with its bracket. *)
LEMMA PartialFacts ==
  ASSUME NEW w, NEW b, NEW e, NEW T, NEW M, Partial(w, b, e, T, M)
  PROVE  b \in Nat /\ e \in Nat /\ b + 4 <= e /\ IsSeq(T) /\ IsSeq(M) /\ Len(T) >= 1
         /\ \E time : T[1] = <<"[", time>>
<1>1. PICK m, s, P, Q, time : PartialBy(w, b, e, T, M, m, s, P, Q, time)
  BY DEF Partial
<1>2. /\ b \in Nat /\ Chain(w, b + 4, e, m, s) /\ AllSeqs(P) /\ AllSeqs(Q)
      /\ T = << <<"[", time>> >> \o FlattenSeq(P) /\ M = FlattenSeq(Q)
  BY <1>1 DEF PartialBy
<1>3. e \in Nat /\ b + 4 <= e
  <2> DEFINE c == b + 4
  <2>1. c \in Nat
    BY <1>2
  <2> HIDE DEF c
  <2>2. Chain(w, c, e, m, s)
    BY <1>2 DEF c
  <2>3. e \in Nat /\ m <= e - c
    BY <2>2, ChainRises
  <2>4. m \in Nat
    BY <2>2 DEF Chain
  <2>5. e \in Nat /\ c <= e
    BY <2>1, <2>3, <2>4
  <2> QED
    BY <2>5 DEF c
<1>4. IsSeq(FlattenSeq(P)) /\ IsSeq(FlattenSeq(Q))
  BY <1>2, SeqShort, FlattenMore
<1> DEFINE h == << <<"[", time>> >>
<1>5. IsSeq(h) /\ Len(h) = 1 /\ h[1] = <<"[", time>>
  BY SeqShort
<1> HIDE DEF h
<1>6. IsSeq(T) /\ Len(T) = 1 + Len(FlattenSeq(P)) /\ T[1] = <<"[", time>>
  <2> DEFINE F == FlattenSeq(P)
  <2>1. T = h \o F /\ 1 \in 1 .. Len(h) /\ IsSeq(F)
    BY <1>2, <1>4, <1>5 DEF h
  <2> HIDE DEF F
  <2>2. /\ IsSeq(h \o F) /\ Len(h \o F) = Len(h) + Len(F)
        /\ \A i \in 1 .. Len(h) : (h \o F)[i] = h[i]
    BY <1>5, <2>1, ConcatAt
  <2>3. T[1] = h[1]
    BY <2>1, <2>2
  <2> QED
    BY <1>5, <2>1, <2>2, <2>3 DEF F
<1>7. Len(FlattenSeq(P)) \in Nat
  BY <1>4, SeqLen
<1>8. Len(T) >= 1 /\ IsSeq(T) /\ \E t : T[1] = <<"[", t>>
  BY <1>6, <1>7
<1> QED
  BY <1>2, <1>3, <1>4, <1>8

(* A bundle so far depends on its words alone. *)
LEMMA PartialKept ==
  ASSUME NEW w, NEW x, NEW b, NEW e, NEW T, NEW M, Partial(w, b, e, T, M), Agree(x, w, b, e)
  PROVE  Partial(x, b, e, T, M)
<1>1. PICK m, s, P, Q, time : PartialBy(w, b, e, T, M, m, s, P, Q, time)
  BY DEF Partial
<1>2. b \in Nat /\ e \in Nat /\ b + 4 <= e
  BY PartialFacts
<1>3. \A j \in b + 1 .. e : x[j] = w[j]
  BY DEF Agree
<1>4. Opens(x, b, time)
  <2>1. Opens(w, b, time)
    BY <1>1 DEF PartialBy
  <2>2. {b + 1, b + 2, b + 3, b + 4} \subseteq b + 1 .. e
    BY <1>2
  <2> QED
    BY <1>3, <2>1, <2>2 DEF Opens
<1> DEFINE c == b + 4
<1>5. c \in Nat /\ c >= b
  BY <1>2
<1> HIDE DEF c
<1>6. Chain(w, c, e, m, s)
  BY <1>1 DEF PartialBy, c
<1>7. m \in Nat /\ s \in [0 .. m -> Nat] /\ \A k \in 1 .. m : s[k - 1] < s[k]
  BY <1>6 DEF Chain
<1>8. \A k \in 0 .. m : s[k] >= c /\ s[k] <= e
  <2>1. \A k \in 0 .. m : s[k] >= c + k /\ s[k] <= e
    BY <1>6, ChainRises
  <2> QED
    BY <1>5, <1>7, <2>1
<1>9. ASSUME NEW k \in 1 .. m
      PROVE  x[s[k - 1] + 1] = w[s[k - 1] + 1] /\ Agree(x, w, s[k - 1], s[k])
  <2>1. s[k - 1] \in Nat /\ s[k] \in Nat /\ s[k - 1] >= c /\ s[k] <= e /\ s[k - 1] < s[k]
    BY <1>7, <1>8
  <2>2. s[k - 1] + 1 \in b + 1 .. e
    BY <1>2, <1>5, <2>1
  <2>3. \A j \in s[k - 1] + 1 .. s[k] : j \in b + 1 .. e
    BY <1>2, <1>5, <2>1
  <2> QED
    BY <1>3, <2>2, <2>3 DEF Agree
<1>10. Chain(x, c, e, m, s)
  BY <1>6, <1>9 DEF Chain
<1>11. \A k \in 1 .. m : Element(w, s[k - 1], s[k], P[k], Q[k])
  BY <1>1 DEF PartialBy
<1>12. \A k \in 1 .. m : Element(x, s[k - 1], s[k], P[k], Q[k])
  BY <1>9, <1>11, ElementKept
<1>13. PartialBy(x, b, e, T, M, m, s, P, Q, time)
  BY <1>1, <1>4, <1>10, <1>12 DEF PartialBy, c
<1> QED
  BY <1>13 DEF Partial

(* The head is a bundle so far, without elements. *)
LEMMA PartialStarts ==
  ASSUME NEW w, NEW b \in Nat, NEW time, Opens(w, b, time)
  PROVE  Partial(w, b, b + 4, << <<"[", time>> >>, <<>>)
<1> DEFINE s == [k \in 0 .. 0 |-> b + 4]
           h == << <<"[", time>> >>
<1>1. Chain(w, b + 4, b + 4, 0, s)
  BY DEF Chain
<1>2. h = h \o FlattenSeq(<<>>)
  BY FlattenNone
<1>3. AllSeqs(<<>>) /\ Len(<<>>) = 0
  BY FlattenNone
<1> HIDE DEF s, h
<1>4. PartialBy(w, b, b + 4, h, <<>>, 0, s, <<>>, <<>>, time)
  BY <1>1, <1>2, <1>3, FlattenNone DEF PartialBy, h
<1> QED
  BY <1>4 DEF Partial, h

(* A bundle so far with one more element is one too. *)
LEMMA PartialGrows ==
  ASSUME NEW w, NEW b, NEW q, NEW T, NEW M, Partial(w, b, q, T, M),
         NEW e, NEW U, NEW N, Element(w, q, e, U, N)
  PROVE  Partial(w, b, e, T \o U, M \o N)
<1>1. PICK m, s, P, Q, time : PartialBy(w, b, q, T, M, m, s, P, Q, time)
  BY DEF Partial
<1>2. /\ b \in Nat /\ Opens(w, b, time) /\ Chain(w, b + 4, q, m, s)
      /\ AllSeqs(P) /\ Len(P) = m /\ AllSeqs(Q) /\ Len(Q) = m
      /\ \A k \in 1 .. m : Element(w, s[k - 1], s[k], P[k], Q[k])
      /\ T = << <<"[", time>> >> \o FlattenSeq(P) /\ M = FlattenSeq(Q)
  BY <1>1 DEF PartialBy
<1>3. /\ q \in Nat /\ e \in Nat /\ q + 1 <= e /\ IsSeq(U) /\ IsSeq(N)
      /\ w[q + 1] = <<"size", 4 * (e - q - 1)>>
  BY DEF Element, ReadsAs
<1> DEFINE r == [k \in 0 .. m + 1 |-> IF k = m + 1 THEN e ELSE s[k]]
           P2 == Append(P, U)
           Q2 == Append(Q, N)
<1>4. /\ m \in Nat /\ s \in [0 .. m -> Nat] /\ s[0] = b + 4 /\ s[m] = q
      /\ \A k \in 1 .. m : s[k - 1] < s[k] /\ w[s[k - 1] + 1] = <<"size", 4 * (s[k] - s[k - 1] - 1)>>
  BY <1>2 DEF Chain
<1>5. /\ r \in [0 .. m + 1 -> Nat] /\ r[m + 1] = e /\ r[0] = b + 4
      /\ \A k \in 0 .. m : r[k] = s[k]
  BY <1>3, <1>4
<1> HIDE DEF r
<1>6. ASSUME NEW k \in 1 .. m + 1
      PROVE  /\ r[k - 1] < r[k] /\ w[r[k - 1] + 1] = <<"size", 4 * (r[k] - r[k - 1] - 1)>>
  <2>1. CASE k = m + 1
    <3>1. k - 1 = m /\ m \in 0 .. m
      BY <1>4, <2>1
    <3>2. r[k - 1] = q /\ r[k] = e
      BY <1>4, <1>5, <2>1, <3>1
    <3> QED
      BY <1>3, <3>2
  <2>2. CASE k # m + 1
    <3>1. k \in 1 .. m /\ k - 1 \in 0 .. m /\ k \in 0 .. m
      BY <1>4, <2>2
    <3>2. r[k - 1] = s[k - 1] /\ r[k] = s[k]
      BY <1>5, <3>1
    <3> QED
      BY <1>4, <3>1, <3>2
  <2> QED
    BY <2>1, <2>2
<1>7. Chain(w, b + 4, e, m + 1, r)
  <2>1. m + 1 \in Nat
    BY <1>4
  <2> QED
    BY <1>5, <1>6, <2>1 DEF Chain
<1>8. /\ AllSeqs(P2) /\ FlattenSeq(P2) = FlattenSeq(P) \o U
      /\ AllSeqs(Q2) /\ FlattenSeq(Q2) = FlattenSeq(Q) \o N
      /\ IsSeq(FlattenSeq(P)) /\ IsSeq(FlattenSeq(Q))
  BY <1>2, <1>3, FlattenMore
<1>9. /\ Len(P2) = m + 1 /\ P2[m + 1] = U /\ \A k \in 1 .. m : P2[k] = P[k]
      /\ Len(Q2) = m + 1 /\ Q2[m + 1] = N /\ \A k \in 1 .. m : Q2[k] = Q[k]
  BY <1>2, AppendAt DEF AllSeqs
<1>10. << <<"[", time>> >> \o FlattenSeq(P2) = T \o U
  <2> DEFINE h == << <<"[", time>> >>
             A == FlattenSeq(P)
  <2>1. IsSeq(h) /\ IsSeq(A)
    BY <1>8, SeqShort
  <2> HIDE DEF h, A
  <2>2. h \o (A \o U) = (h \o A) \o U
    <3>1. PICK V1 : h \in Seq(V1)
      BY <2>1 DEF IsSeq
    <3>2. PICK V2 : A \in Seq(V2)
      BY <2>1 DEF IsSeq
    <3>3. PICK V3 : U \in Seq(V3)
      BY <1>3 DEF IsSeq
    <3> DEFINE V == V1 \cup V2 \cup V3
    <3>4. h \in Seq(V) /\ A \in Seq(V) /\ U \in Seq(V)
      BY <3>1, <3>2, <3>3
    <3> HIDE DEF V
    <3>5. IsSeq(A \o U) /\ IsSeq(h \o A)
      BY <2>1, <1>3, ConcatAt
    <3> QED
      BY <3>4
  <2> QED
    BY <1>2, <1>8, <2>2 DEF h, A
<1> HIDE DEF P2, Q2
<1>11. ASSUME NEW k \in 1 .. m + 1
       PROVE  Element(w, r[k - 1], r[k], P2[k], Q2[k])
  <2>1. CASE k = m + 1
    <3>1. k - 1 = m /\ m \in 0 .. m
      BY <1>4, <2>1
    <3>2. r[k - 1] = q /\ r[k] = e /\ P2[k] = U /\ Q2[k] = N
      BY <1>4, <1>5, <1>9, <2>1, <3>1
    <3> QED
      BY <3>2
  <2>2. CASE k # m + 1
    <3>1. k \in 1 .. m /\ k - 1 \in 0 .. m /\ k \in 0 .. m
      BY <1>4, <2>2
    <3>2. r[k - 1] = s[k - 1] /\ r[k] = s[k] /\ P2[k] = P[k] /\ Q2[k] = Q[k]
      BY <1>5, <1>9, <3>1
    <3> QED
      BY <1>2, <3>1, <3>2
  <2> QED
    BY <2>1, <2>2
<1>12. PartialBy(w, b, e, T \o U, M \o N, m + 1, r, P2, Q2, time)
  BY <1>2, <1>7, <1>8, <1>9, <1>10, <1>11 DEF PartialBy
<1> QED
  BY <1>12 DEF Partial

(* The slots and the parts of a bundle that is described. *)
LEMMA PartialSlots ==
  ASSUME NEW w, WordsOK(w), NEW b, NEW e, NEW T, NEW M, NEW m, NEW s, NEW P, NEW Q, NEW time,
         PartialBy(w, b, e, T, M, m, s, P, Q, time), e <= Len(w)
  PROVE  /\ Elements(w, b, 4 * (e - b)) = [k \in 1 .. m |-> s[k - 1]]
         /\ Elements(w, b, 4 * (e - b)) # <<NoEnd>>
         /\ Len(Elements(w, b, 4 * (e - b))) = m /\ m \in Nat
         /\ <<b, 4 * (e - b)>> \in Extents(w)
         /\ \A k \in 1 .. m :
              LET q == s[k - 1]
                  n == Word(w, q)[2]
              IN  /\ <<q + 1, n>> \in Extents(w)
                  /\ PrintPart(w, q + 1, n) = P[k]
                  /\ ProcessPart(w, q + 1, n) = Quietly(Q[k])
<1> DEFINE c == b + 4
           L == Len(w)
<1>1. b \in Nat /\ c \in Nat /\ c = b + 4
  BY DEF PartialBy
<1> HIDE DEF c
<1>2. Chain(w, c, e, m, s) /\ Opens(w, b, time)
  BY DEF PartialBy, c
<1>3. /\ m \in Nat /\ s \in [0 .. m -> Nat]
      /\ \A k \in 1 .. m : s[k - 1] < s[k] /\ w[s[k - 1] + 1] = <<"size", 4 * (s[k] - s[k - 1] - 1)>>
  BY <1>2 DEF Chain
<1>4. e \in Nat /\ m <= e - c /\ \A k \in 0 .. m : s[k] <= e
  BY <1>2, ChainRises
<1>5. L \in Nat /\ e <= L
  BY SeqLen DEF WordsOK
<1> HIDE DEF L
<1> DEFINE slots == Elements(w, b, 4 * (e - b))
<1>6. slots = [k \in 1 .. m |-> s[k - 1]]
  <2>2. w[b + 2] = <<"text", "#bundle", 2>>
    BY <1>2 DEF Opens
  <2>3. b \in Nat /\ c = b + 4 /\ Chain(w, c, e, m, s) /\ w[b + 2] = <<"text", "#bundle", 2>>
    BY <1>1, <1>2, <2>2
  <2>4. Elements(w, b, 4 * (e - b)) = [k \in 1 .. m |-> s[k - 1]]
    BY ONLY <2>3, ElementsAre
  <2> QED
    BY <2>4
<1> HIDE DEF slots
<1>7. Len(slots) = m
  <2>1. slots = [k \in 1 .. m |-> slots[k]]
    BY <1>6
  <2> QED
    BY <1>3, <2>1, MadeAt
<1>8. slots # <<NoEnd>>
  <2> SUFFICES ASSUME slots = <<NoEnd>> PROVE FALSE
    OBVIOUS
  <2>1. m = 1 /\ slots[1] = NoEnd
    BY <1>7
  <2>2. slots[1] = s[0] /\ s[0] \in Nat
    BY <1>3, <1>6, <2>1
  <2> QED
    BY <2>1, <2>2 DEF NoEnd
<1>9. <<b, 4 * (e - b)>> \in Extents(w)
  <2> DEFINE d == e - b
  <2>1. d \in Nat /\ b + d = e
    BY <1>1, <1>3, <1>4
  <2> HIDE DEF d
  <2>2. (4 * d) \div 4 = d /\ 4 * d \in 0 .. 4 * L + 3 /\ b \in 0 .. L /\ b + d <= L
    BY <1>1, <1>5, <2>1
  <2> QED
    BY <2>2 DEF Extents, d, L
<1>10. ASSUME NEW k \in 1 .. m
       PROVE  LET q == s[k - 1]
                  n == Word(w, q)[2]
              IN  /\ <<q + 1, n>> \in Extents(w)
                  /\ PrintPart(w, q + 1, n) = P[k]
                  /\ ProcessPart(w, q + 1, n) = Quietly(Q[k])
  <2> DEFINE q == s[k - 1]
             r == s[k]
             n == Word(w, q)[2]
             d == r - (q + 1)
  <2>1. q \in Nat /\ r \in Nat /\ q < r /\ r <= e /\ w[q + 1] = <<"size", 4 * (r - q - 1)>>
    BY <1>3, <1>4
  <2>2. Element(w, q, r, P[k], Q[k])
    BY DEF PartialBy
  <2> HIDE DEF q, r
  <2>3. d \in Nat /\ r - q - 1 = d /\ q + 1 + d = r
    BY <2>1
  <2>4. n = 4 * d
    <3>1. Word(w, q)[2] = 4 * (r - q - 1)
      BY <2>1 DEF Word
    <3> QED
      BY <2>3, <3>1
  <2>5. ReadsAs(w, q + 1, r, P[k], Q[k])
    BY <2>2 DEF Element
  <2>6. WordsOK(w) /\ r <= Len(w) /\ Agree(w, w, q + 1, r)
    BY <1>4, <1>5, <2>1 DEF Agree, L
  <2>7. /\ PrintPart(w, q + 1, 4 * d) = P[k]
        /\ ProcessPart(w, q + 1, 4 * d) = Quietly(Q[k])
    BY <2>5, <2>6 DEF ReadsAs
  <2> HIDE DEF d, n
  <2>8. <<q + 1, n>> \in Extents(w)
    <3>1. r \in Nat /\ r <= L /\ L \in Nat
      BY <1>3, <1>4, <1>5, <2>1
    <3>2. d <= L /\ q + 1 <= L /\ q + 1 + d <= L
      <4>1. q \in Nat /\ d \in Nat /\ q + 1 + d = r /\ r <= L /\ r \in Nat /\ L \in Nat
        BY <2>1, <2>3, <3>1
      <4> QED
        BY ONLY <4>1
    <3>3. (4 * d) \div 4 = d
      BY <2>3
    <3>4. 4 * d \in 0 .. 4 * L + 3 /\ q + 1 \in 0 .. L
      BY <2>1, <2>3, <3>1, <3>2
    <3> QED
      BY <2>4, <3>2, <3>3, <3>4 DEF Extents, L
  <2> QED
    BY <2>4, <2>7, <2>8 DEF q, n
<1> QED
  BY <1>3, <1>6, <1>7, <1>8, <1>9, <1>10 DEF slots

(* A described bundle prints as its tokens and the closing bracket. *)
LEMMA WholePrints ==
  ASSUME NEW w, WordsOK(w), NEW b, NEW e, NEW T, NEW M, Partial(w, b, e, T, M), e <= Len(w)
  PROVE  PrintPart(w, b, 4 * (e - b)) = T \o << <<"]">> >>
<1>1. PICK m, s, P, Q, time : PartialBy(w, b, e, T, M, m, s, P, Q, time)
  BY DEF Partial
<1>2. PICK f : \A x \in Extents(w) : /\ f[x] = PrintBundle(w, x[1], x[2])
                                     /\ f[x] = PrintElements(f, w, x[1], x[2])
  BY PrintUnfolds
<1> DEFINE bytes == 4 * (e - b)
           slots == Elements(w, b, bytes)
           part == [k \in 1 .. Len(slots) |->
                     IF ElementIsBundle(w, slots[k] + 1)
                     THEN f[<<slots[k] + 1, Word(w, slots[k])[2]>>]
                     ELSE PrintMessage(w, slots[k] + 1, Word(w, slots[k])[2])]
<1>3. /\ slots = [k \in 1 .. m |-> s[k - 1]] /\ slots # <<NoEnd>>
      /\ Len(slots) = m /\ m \in Nat /\ <<b, bytes>> \in Extents(w)
      /\ \A k \in 1 .. m :
            LET q == s[k - 1]
                n == Word(w, q)[2]
            IN  <<q + 1, n>> \in Extents(w) /\ PrintPart(w, q + 1, n) = P[k]
  BY <1>1, PartialSlots
<1>4. b \in Nat /\ Opens(w, b, time) /\ T = << <<"[", time>> >> \o FlattenSeq(P)
      /\ AllSeqs(P) /\ Len(P) = m
  BY <1>1 DEF PartialBy
<1> HIDE DEF bytes
<1>5. PrintBundle(w, b, bytes) = PrintElements(f, w, b, bytes)
  <2> DEFINE x == <<b, bytes>>
  <2>1. f[x] = PrintBundle(w, x[1], x[2]) /\ f[x] = PrintElements(f, w, x[1], x[2])
    BY <1>2, <1>3
  <2>2. x[1] = b /\ x[2] = bytes
    OBVIOUS
  <2> HIDE DEF x
  <2> QED
    BY <2>1, <2>2
<1>6. PrintElements(f, w, b, bytes) =
        IF slots = <<NoEnd>> THEN << <<"MalformedBundle">> >>
        ELSE << <<"[", ToUInt64(w, b + 2)>> >> \o FlattenSeq(part) \o << <<"]">> >>
  BY DEF PrintElements
<1>7. ToUInt64(w, b + 2) = time
  <2>1. Word(w, b + 2) = w[b + 3] /\ Word(w, b + 2 + 1) = w[b + 4]
    <3>1. b + 2 + 1 = b + 3 /\ b + 2 + 1 + 1 = b + 4
      BY <1>4
    <3> QED
      BY <3>1 DEF Word
  <2> QED
    BY <1>4, <2>1 DEF ToUInt64, Opens
<1>8. part = P
  <2>1. IsSeq(P) /\ Len(P) = m
    BY <1>4 DEF AllSeqs
  <2> HIDE DEF slots
  <2>2. ASSUME NEW k \in 1 .. m PROVE part[k] = P[k]
    <3> DEFINE q == s[k - 1]
               n == Word(w, q)[2]
    <3>1. slots[k] = q /\ <<q + 1, n>> \in Extents(w) /\ PrintPart(w, q + 1, n) = P[k]
      BY <1>3
    <3>2. part[k] = IF ElementIsBundle(w, slots[k] + 1)
                    THEN f[<<slots[k] + 1, Word(w, slots[k])[2]>>]
                    ELSE PrintMessage(w, slots[k] + 1, Word(w, slots[k])[2])
      BY <1>3
    <3> HIDE DEF q, part
    <3>3. part[k] = IF ElementIsBundle(w, q + 1) THEN f[<<q + 1, n>>] ELSE PrintMessage(w, q + 1, n)
      BY <3>1, <3>2
    <3> HIDE DEF n
    <3> DEFINE x == <<q + 1, n>>
    <3>4. f[x] = PrintBundle(w, x[1], x[2]) /\ x[1] = q + 1 /\ x[2] = n
      BY <1>2, <3>1
    <3>5. f[x] = PrintBundle(w, q + 1, n)
      <4> HIDE DEF x
      <4> QED
        BY <3>4
    <3> QED
      BY <3>1, <3>3, <3>5 DEF PrintPart
  <2>3. IsSeq(part) /\ Len(part) = m
    <3>1. part = [k \in 1 .. m |-> part[k]]
      BY <1>3
    <3> HIDE DEF part
    <3> QED
      BY <1>3, <3>1, MadeAt
  <2> HIDE DEF part
  <2> QED
    BY <2>1, <2>2, <2>3, SameSeq
<1>9. ElementIsBundle(w, b)
  BY <1>4 DEF ElementIsBundle, Word, Opens
<1> HIDE DEF part, slots
<1>10. PrintBundle(w, b, bytes) = T \o << <<"]">> >>
  BY <1>3, <1>4, <1>5, <1>6, <1>7, <1>8
<1> QED
  BY <1>9, <1>10 DEF PrintPart, bytes

(* A described bundle gives the messages of its elements. *)
LEMMA WholeGives ==
  ASSUME NEW w, WordsOK(w), NEW b, NEW e, NEW T, NEW M, Partial(w, b, e, T, M), e <= Len(w)
  PROVE  ProcessPart(w, b, 4 * (e - b)) = Quietly(M)
<1>1. PICK m, s, P, Q, time : PartialBy(w, b, e, T, M, m, s, P, Q, time)
  BY DEF Partial
<1>2. PICK f : \A x \in Extents(w) : /\ f[x] = ProcessBundle(w, x[1], x[2])
                                     /\ f[x] = ProcessElements(f, w, x[1], x[2])
  BY ProcessUnfolds
<1> DEFINE bytes == 4 * (e - b)
           slots == Elements(w, b, bytes)
           part == [k \in 1 .. Len(slots) |->
                     IF ElementIsBundle(w, slots[k] + 1)
                     THEN f[<<slots[k] + 1, Word(w, slots[k])[2]>>]
                     ELSE ProcessMessage(w, slots[k] + 1, Word(w, slots[k])[2])]
           done == {k \in 1 .. Len(slots) : \A j \in 1 .. k - 1 : part[j].throws = "nothing"}
<1>3. /\ slots = [k \in 1 .. m |-> s[k - 1]] /\ slots # <<NoEnd>>
      /\ Len(slots) = m /\ m \in Nat /\ <<b, bytes>> \in Extents(w)
      /\ \A k \in 1 .. m :
            LET q == s[k - 1]
                n == Word(w, q)[2]
            IN  <<q + 1, n>> \in Extents(w) /\ ProcessPart(w, q + 1, n) = Quietly(Q[k])
  BY <1>1, PartialSlots
<1>4. b \in Nat /\ Opens(w, b, time) /\ M = FlattenSeq(Q) /\ AllSeqs(Q) /\ Len(Q) = m
  BY <1>1 DEF PartialBy
<1> HIDE DEF bytes
<1>5. ProcessBundle(w, b, bytes) = ProcessElements(f, w, b, bytes)
  <2> DEFINE x == <<b, bytes>>
  <2>1. f[x] = ProcessBundle(w, x[1], x[2]) /\ f[x] = ProcessElements(f, w, x[1], x[2])
    BY <1>2, <1>3
  <2>2. x[1] = b /\ x[2] = bytes
    OBVIOUS
  <2> HIDE DEF x
  <2> QED
    BY <2>1, <2>2
<1>6. ProcessElements(f, w, b, bytes) =
        IF slots = <<NoEnd>> THEN Throwing("MalformedBundle")
        ELSE [messages |-> FlattenSeq([k \in 1 .. Cardinality(done) |-> part[k].messages]),
              throws   |-> IF \E k \in done : part[k].throws = "MalformedMessage"
                           THEN "MalformedMessage" ELSE "nothing"]
  BY DEF ProcessElements
<1>7. ASSUME NEW k \in 1 .. m PROVE part[k] = Quietly(Q[k])
  <2> HIDE DEF slots
  <2> DEFINE q == s[k - 1]
             n == Word(w, q)[2]
  <2>1. slots[k] = q /\ <<q + 1, n>> \in Extents(w) /\ ProcessPart(w, q + 1, n) = Quietly(Q[k])
    BY <1>3
  <2>2. part[k] = IF ElementIsBundle(w, slots[k] + 1)
                  THEN f[<<slots[k] + 1, Word(w, slots[k])[2]>>]
                  ELSE ProcessMessage(w, slots[k] + 1, Word(w, slots[k])[2])
    BY <1>3
  <2> HIDE DEF q, part
  <2>3. part[k] = IF ElementIsBundle(w, q + 1) THEN f[<<q + 1, n>>] ELSE ProcessMessage(w, q + 1, n)
    BY <2>1, <2>2
  <2> HIDE DEF n
  <2> DEFINE x == <<q + 1, n>>
  <2>4. f[x] = ProcessBundle(w, x[1], x[2]) /\ x[1] = q + 1 /\ x[2] = n
    BY <1>2, <2>1
  <2>5. f[x] = ProcessBundle(w, q + 1, n)
    <3> HIDE DEF x
    <3> QED
      BY <2>4
  <2> QED
    BY <2>1, <2>3, <2>5 DEF ProcessPart
<1>8. \A k \in 1 .. m : part[k].messages = Q[k] /\ part[k].throws = "nothing"
  <2> HIDE DEF part
  <2>1. ASSUME NEW x PROVE Quietly(x).messages = x /\ Quietly(x).throws = "nothing"
    BY DEF Quietly
  <2> QED
    BY <1>7, <2>1
<1> HIDE DEF part, slots
<1>9. done = 1 .. m
  <2>1. ASSUME NEW k \in 1 .. m, NEW j \in 1 .. k - 1 PROVE j \in 1 .. m
    BY <1>3
  <2> QED
    BY <1>3, <1>8, <2>1
<1>10. Cardinality(done) = m
  <2>1. 1 \in Int /\ m \in Int /\ (1 > m => m = 0) /\ m - 1 + 1 = m
    BY <1>3
  <2>2. Cardinality(1 .. m) = IF 1 > m THEN 0 ELSE m - 1 + 1
    BY ONLY <2>1, FS_Interval
  <2> QED
    BY <1>9, <2>1, <2>2
<1> HIDE DEF done
<1>11. [k \in 1 .. m |-> part[k].messages] = Q
  <2> DEFINE r == [k \in 1 .. m |-> part[k].messages]
  <2>1. IsSeq(r) /\ Len(r) = m
    <3>1. r = [k \in 1 .. m |-> r[k]]
      OBVIOUS
    <3> HIDE DEF r
    <3> QED
      BY <1>3, <3>1, MadeAt
  <2>2. \A k \in 1 .. m : r[k] = Q[k]
    BY <1>8
  <2> HIDE DEF r
  <2>3. IsSeq(Q) /\ Len(Q) = m
    BY <1>4 DEF AllSeqs
  <2>4. r = Q
    BY <2>1, <2>2, <2>3, SameSeq
  <2> QED
    BY <2>4 DEF r
<1>12. ~ \E k \in done : part[k].throws = "MalformedMessage"
  BY <1>8, <1>9
<1>13. ProcessElements(f, w, b, bytes) = Quietly(M)
  <2>1. FlattenSeq([k \in 1 .. Cardinality(done) |-> part[k].messages]) = M
    BY <1>4, <1>10, <1>11
  <2> QED
    BY <1>3, <1>6, <1>12, <2>1 DEF Quietly
<1>14. ElementIsBundle(w, b)
  BY <1>4 DEF ElementIsBundle, Word, Opens
<1> QED
  BY <1>5, <1>13, <1>14 DEF ProcessPart, bytes

(* A bundle that is described, and ended, reads as what is in it. *)
LEMMA PartialReads ==
  ASSUME NEW w, NEW b, NEW e, NEW T, NEW M, Partial(w, b, e, T, M)
  PROVE  ReadsAs(w, b, e, T \o << <<"]">> >>, M)
<1>1. b \in Nat /\ e \in Nat /\ b <= e /\ IsSeq(T) /\ IsSeq(M)
  BY PartialFacts
<1>2. IsSeq(T \o << <<"]">> >>)
  BY <1>1, SeqShort, ConcatAt
<1>3. ASSUME NEW v, WordsOK(v), e <= Len(v), Agree(v, w, b, e)
      PROVE  /\ PrintPart(v, b, 4 * (e - b)) = T \o << <<"]">> >>
             /\ ProcessPart(v, b, 4 * (e - b)) = Quietly(M)
  <2>1. Partial(v, b, e, T, M)
    BY <1>3, PartialKept
  <2> QED
    BY <1>3, <2>1, WholePrints, WholeGives
<1> QED
  BY <1>1, <1>2, <1>3 DEF ReadsAs

(***************************************************************************)
(* Strings, blobs, type tags and arguments: the reader finds the end that  *)
(* the writer gave them, and the value.                                    *)
(***************************************************************************)

(* The words an argument is written as, and the values its type can have.  *)
ArgWords(tag, v) ==
  IF tag \in NoBytes THEN <<>>
  ELSE IF tag \in FourBytes THEN FromUInt32(v)
  ELSE IF tag \in EightBytes THEN FromUInt64(v)
  ELSE IF tag \in Texts THEN TextWords(v)
  ELSE << <<"size", BlobLength[v]>> >> \o BlobWords(v)

(* The values a tag can stand for. *)
Legal(tag, v) ==
  /\ tag \in TypeTags
  /\ tag = "T" => v = TRUE
  /\ tag = "F" => v = FALSE
  /\ tag = "N" => v = "nil"
  /\ tag = "I" => v = "infinitum"
  /\ tag \in Texts => v \in Strings
  /\ tag = "b" => v \in DOMAIN BlobLength

(* The words of w behind p are d. *)
Has(w, p, d) == \A j \in 1 .. Len(d) : w[p + j] = d[j]

(* RoundUp4, in words. *)
LEMMA HalfRound ==
  ASSUME NEW x \in Nat
  PROVE  RoundUp4(x) \div 4 = (x + 3) \div 4
<1> DEFINE q == (x + 3) \div 4
<1>1. q \in Nat
  OBVIOUS
<1>2. RoundUp4(x) = q * 4
  BY DEF RoundUp4
<1> HIDE DEF q
<1>3. (q * 4) \div 4 = q
  BY <1>1
<1> QED
  BY <1>2, <1>3 DEF q

(* The words of a string. *)
LEMMA TextAre ==
  ASSUME NEW s \in DOMAIN TextLength
  PROVE  /\ IsSeq(TextWords(s)) /\ Len(TextWords(s)) \in Nat /\ Len(TextWords(s)) >= 1
         /\ \A k \in 1 .. Len(TextWords(s)) : TextWords(s)[k] = <<"text", s, k>>
         /\ TextLength[s] = 0 => Len(TextWords(s)) = 1
<1> DEFINE n == RoundUp4(TextLength[s] + 1) \div 4
           d == TextWords(s)
           t == TextLength[s]
<1>1. t \in Nat
  BY LengthAssumption
<1>2. n = (t + 1 + 3) \div 4
  <2>1. t + 1 \in Nat
    BY <1>1
  <2> QED
    BY <2>1, HalfRound
<1> HIDE DEF n, t
<1>3. n \in Nat /\ n >= 1 /\ (t = 0 => n = 1)
  <2>1. t + 1 + 3 = t + 4 /\ (t + 4) \div 4 \in Nat /\ (t + 4) \div 4 >= 1
    BY <1>1
  <2>2. t = 0 => (t + 4) \div 4 = 1
    BY <1>1
  <2> QED
    BY <1>2, <2>1, <2>2
<1>4. d = [k \in 1 .. n |-> <<"text", s, k>>]
  BY DEF TextWords, n
<1>5. IsSeq(d) /\ Len(d) = n
  <2>1. d = [k \in 1 .. n |-> d[k]]
    BY <1>4
  <2> HIDE DEF d
  <2> QED
    BY <1>3, <2>1, MadeAt
<1>6. \A k \in 1 .. n : d[k] = <<"text", s, k>>
  BY <1>4
<1> HIDE DEF d
<1> QED
  BY <1>3, <1>5, <1>6 DEF d, t

(* The words of a blob. *)
LEMMA BlobAre ==
  ASSUME NEW b \in DOMAIN BlobLength
  PROVE  /\ IsSeq(BlobWords(b)) /\ Len(BlobWords(b)) = RoundUp4(BlobLength[b]) \div 4
         /\ \A k \in 1 .. Len(BlobWords(b)) : BlobWords(b)[k] = <<"raw", b, k>>
         /\ BlobLength[b] \in Nat /\ Len(BlobWords(b)) \in Nat
         /\ BlobLength[b] # 0 => Len(BlobWords(b)) >= 1
<1> DEFINE n == RoundUp4(BlobLength[b]) \div 4
           d == BlobWords(b)
           t == BlobLength[b]
<1>1. t \in Nat
  BY LengthAssumption
<1>2. n = (t + 3) \div 4
  BY <1>1, HalfRound
<1>3. d = [k \in 1 .. n |-> <<"raw", b, k>>]
  BY DEF BlobWords
<1> HIDE DEF n, t
<1>4. n \in Nat /\ (t # 0 => n >= 1)
  BY <1>1, <1>2
<1>5. IsSeq(d) /\ Len(d) = n
  <2>1. d = [k \in 1 .. n |-> d[k]]
    BY <1>3
  <2> HIDE DEF d
  <2> QED
    BY <1>4, <2>1, MadeAt
<1>6. \A k \in 1 .. n : d[k] = <<"raw", b, k>>
  BY <1>3
<1> HIDE DEF d
<1> QED
  BY <1>1, <1>4, <1>5, <1>6 DEF d, t, n

(* FindStr4End over a string that is there. *)
LEMMA TextEnds ==
  ASSUME NEW w, NEW p \in Nat, NEW end \in Nat, NEW s \in DOMAIN TextLength,
         Has(w, p, TextWords(s)), p + Len(TextWords(s)) <= end
  PROVE  FindStr4End(w, p, end) = p + Len(TextWords(s))
<1> DEFINE n == Len(TextWords(s))
           ends == {k \in p .. end - 1 : EndsInNul(Word(w, k))}
<1>1. /\ n \in Nat /\ n >= 1 /\ \A k \in 1 .. n : TextWords(s)[k] = <<"text", s, k>>
      /\ TextLength[s] = 0 => n = 1
  BY TextAre
<1>2. \A k \in 1 .. n : w[p + k] = <<"text", s, k>>
  BY <1>1 DEF Has
<1>3. ASSUME NEW k \in 1 .. n PROVE EndsInNul(Word(w, p + k - 1)) <=> k = n
  <2>1. p + k - 1 + 1 = p + k
    BY <1>1
  <2>2. Word(w, p + k - 1) = <<"text", s, k>>
    BY <1>2, <2>1 DEF Word
  <2> DEFINE x == <<"text", s, k>>
  <2>3. x[1] = "text" /\ x[2] = s /\ x[3] = k
    OBVIOUS
  <2> HIDE DEF x
  <2>4. EndsInNul(x) <=> k = Len(TextWords(s))
    BY <2>3 DEF EndsInNul
  <2> QED
    BY <2>2, <2>4 DEF x
<1> DEFINE last == p + n - 1
<1>4. last \in ends /\ last + 1 = p + n
  <2>1. last \in p .. end - 1 /\ n \in 1 .. n /\ last + 1 = p + n
    BY <1>1
  <2>2. EndsInNul(Word(w, last))
    BY <1>3, <2>1
  <2> QED
    BY <2>1, <2>2
<1>5. ASSUME NEW j \in ends PROVE last <= j
  <2> SUFFICES ASSUME j < last PROVE FALSE
    BY <1>1
  <2>1. j \in p .. end - 1 /\ EndsInNul(Word(w, j))
    OBVIOUS
  <2> DEFINE k == j - p + 1
  <2>2. k \in 1 .. n /\ k # n /\ p + k - 1 = j
    BY <1>1, <2>1
  <2> HIDE DEF k, ends
  <2> QED
    BY <1>3, <2>1, <2>2
<1>6. ends # {}
  BY <1>4
<1>7. (CHOOSE k \in ends : \A j \in ends : k <= j) = last
  <2> DEFINE c == CHOOSE k \in ends : \A j \in ends : k <= j
  <2>1. c \in ends /\ \A j \in ends : c <= j
    <3> HIDE DEF ends, last
    <3> QED
      BY <1>4, <1>5
  <2>2. c <= last /\ last <= c
    BY <1>4, <1>5, <2>1
  <2>3. c \in Int /\ last \in Int
    BY <1>1, <2>1
  <2> HIDE DEF c, last
  <2>4. c = last
    BY <1>1, <2>2, <2>3
  <2> QED
    BY <2>4 DEF c
<1> HIDE DEF ends, last
<1>8. StartsWithNul(Word(w, p)) => n = 1
  <2>1. 1 \in 1 .. n
    BY <1>1
  <2>2. Word(w, p) = <<"text", s, 1>>
    BY <1>2, <2>1 DEF Word
  <2> DEFINE x == <<"text", s, 1>>
  <2>3. x[2] = s
    OBVIOUS
  <2> HIDE DEF x
  <2>4. StartsWithNul(x) => n = 1
    BY <1>1, <2>3 DEF StartsWithNul
  <2> QED
    BY <2>2, <2>4 DEF x
<1>9. ~ p >= end
  BY <1>1
<1>10. FindStr4End(w, p, end) =
         CASE p >= end                  -> NoEnd
           [] StartsWithNul(Word(w, p)) -> p + 1
           [] ends = {}                 -> NoEnd
           [] OTHER                     -> 1 + CHOOSE k \in ends : \A j \in ends : k <= j
  BY DEF FindStr4End, ends
<1>11. CASE StartsWithNul(Word(w, p))
  <2>1. FindStr4End(w, p, end) = p + 1
    BY <1>6, <1>9, <1>10, <1>11
  <2> QED
    BY <1>8, <1>11, <2>1
<1>12. CASE ~ StartsWithNul(Word(w, p))
  <2>1. FindStr4End(w, p, end) = 1 + last
    BY <1>6, <1>7, <1>9, <1>10, <1>12
  <2>2. last \in Int
    BY <1>1 DEF last
  <2> QED
    BY <1>1, <1>4, <2>1, <2>2
<1> QED
  BY <1>11, <1>12

(* The characters of a type tag string. *)
TagChar(tags, i) ==
  IF i = 1 THEN Comma ELSE IF i <= Len(tags) + 1 THEN tags[i - 1] ELSE Nul

(* The words of a type tag string, character by character. *)
LEMMA TagsAre ==
  ASSUME NEW tags, IsSeq(tags)
  PROVE  /\ IsSeq(TagWords(tags)) /\ Len(TagWords(tags)) \in Nat
         /\ Len(TagWords(tags)) >= 1
         /\ Len(tags) + 2 <= 4 * Len(TagWords(tags))
         /\ 4 * Len(TagWords(tags)) - 4 < Len(tags) + 2
         /\ \A k \in 1 .. Len(TagWords(tags)) :
              /\ TagWords(tags)[k][1] = "tags"
              /\ \A c \in 1 .. 4 : TagWords(tags)[k][2][c] = TagChar(tags, 4 * k - 4 + c)
<1> DEFINE n == Len(tags)
           size == RoundUp4(n + 2)
           m == size \div 4
           bytes == <<Comma>> \o tags
           padded == [i \in 1 .. size |-> IF i <= Len(bytes) THEN bytes[i] ELSE Nul]
           d == TagWords(tags)
<1>1. n \in Nat
  BY SeqLen
<1>2. m \in Nat /\ 4 * m = size /\ m = (n + 2 + 3) \div 4
  <2>1. n + 2 \in Nat
    BY <1>1
  <2> HIDE DEF n
  <2> QED
    BY <2>1, Rounded, HalfRound
<1>3. d = [k \in 1 .. m |-> <<"tags", SubSeq(padded, 4*k - 3, 4*k)>>]
  BY DEF TagWords
<1> HIDE DEF d, m, size, padded
<1>4. /\ Len(bytes) = n + 1 /\ bytes[1] = Comma /\ \A i \in 1 .. n : bytes[i + 1] = tags[i]
  <2>0. n = Len(tags) /\ IsSeq(tags)
    OBVIOUS
  <2> HIDE DEF n
  <2> DEFINE h == <<Comma>>
  <2>1. IsSeq(h) /\ Len(h) = 1 /\ h[1] = Comma
    BY SeqShort
  <2> HIDE DEF h
  <2>2. /\ IsSeq(h \o tags) /\ Len(h \o tags) = Len(h) + Len(tags)
        /\ \A i \in 1 .. Len(h) : (h \o tags)[i] = h[i]
        /\ \A i \in 1 .. Len(tags) : (h \o tags)[Len(h) + i] = tags[i]
    <3>1. IsSeq(h) /\ IsSeq(tags)
      BY <2>0, <2>1
    <3> QED
      BY ONLY <3>1, ConcatAt
  <2>3. 1 \in 1 .. Len(h) /\ \A i \in 1 .. n : 1 + i = i + 1
    BY ONLY <1>1, <2>1
  <2>4. (h \o tags)[1] = Comma /\ \A i \in 1 .. n : (h \o tags)[i + 1] = tags[i]
    BY <2>0, <2>1, <2>2, <2>3
  <2>5. Len(h \o tags) = n + 1
    BY ONLY <1>1, <2>0, <2>1, <2>2
  <2> QED
    BY <2>4, <2>5 DEF h
<1> HIDE DEF bytes, n
<1> USE DEF padded, d
<1>5. ASSUME NEW i \in 1 .. size PROVE padded[i] = TagChar(tags, i)
  <2>1. padded[i] = IF i <= n + 1 THEN bytes[i] ELSE Nul
    BY <1>4
  <2>2. size \in Nat /\ i \in Nat /\ i >= 1
    BY <1>2
  <2>3. CASE i = 1
    <3> HIDE DEF padded
    <3>1. padded[i] = Comma
      BY <1>1, <1>4, <2>1, <2>3
    <3> QED
      BY <2>3, <3>1 DEF TagChar
  <2>4. CASE i # 1 /\ i <= n + 1
    <3>1. i - 1 \in 1 .. n /\ i - 1 + 1 = i
      BY <1>1, <2>2, <2>4
    <3>2. padded[i] = tags[i - 1]
      BY <1>4, <2>1, <2>4, <3>1
    <3> HIDE DEF padded
    <3> QED
      BY <2>4, <3>2 DEF TagChar, n
  <2>5. CASE i # 1 /\ ~ i <= n + 1
    <3> HIDE DEF padded
    <3> QED
      BY <2>1, <2>5 DEF TagChar, n
  <2> QED
    BY <2>3, <2>4, <2>5
<1>6. IsSeq(padded) /\ Len(padded) = size
  <2>1. padded = [i \in 1 .. size |-> padded[i]] /\ size \in Nat
    BY <1>2
  <2> HIDE DEF padded
  <2> QED
    BY <2>1, MadeAt
<1> HIDE DEF padded
<1>7. IsSeq(d) /\ Len(d) = m
  <2>1. d = [k \in 1 .. m |-> d[k]]
    BY <1>3
  <2> HIDE DEF d
  <2> QED
    BY <1>2, <2>1, MadeAt
<1>8. ASSUME NEW k \in 1 .. m, NEW c \in 1 .. 4
      PROVE  SubSeq(padded, 4*k - 3, 4*k)[c] = TagChar(tags, 4 * k - 4 + c)
  <2> DEFINE a == 4 * k - 3
             b == 4 * k
  <2>1. a \in Nat /\ b \in Nat /\ 1 <= a /\ a <= b + 1 /\ b <= size /\ b + 1 - a = 4
        /\ a + c - 1 = 4 * k - 4 + c /\ a + c - 1 \in 1 .. size
    BY <1>2
  <2> HIDE DEF a, b
  <2>2. \A i \in 1 .. b + 1 - a : SubSeq(padded, a, b)[i] = padded[a + i - 1]
    BY <1>6, <2>1, PartAt
  <2>3. SubSeq(padded, a, b)[c] = padded[a + c - 1]
    BY <2>1, <2>2
  <2>4. SubSeq(padded, a, b)[c] = TagChar(tags, a + c - 1)
    BY <1>5, <2>1, <2>3
  <2> QED
    BY <2>1, <2>4 DEF a, b
<1>9. ASSUME NEW k \in 1 .. m
      PROVE  d[k][1] = "tags" /\ \A c \in 1 .. 4 : d[k][2][c] = TagChar(tags, 4 * k - 4 + c)
  <2> DEFINE u == SubSeq(padded, 4*k - 3, 4*k)
  <2>1. d[k] = <<"tags", u>>
    BY <1>3
  <2>2. \A c \in 1 .. 4 : u[c] = TagChar(tags, 4 * k - 4 + c)
    BY <1>8
  <2> HIDE DEF u, d
  <2>3. d[k][1] = "tags" /\ d[k][2] = u
    BY <2>1
  <2> QED
    BY <2>2, <2>3
<1>10. m >= 1 /\ n + 2 <= 4 * m /\ 4 * m - 4 < n + 2
  BY <1>1, <1>2
<1> HIDE DEF d
<1> QED
  BY <1>2, <1>7, <1>9, <1>10 DEF d, n

(* A tag string holds no terminating zero. *)
NoNul(tags) == \A i \in 1 .. Len(tags) : tags[i] # Nul

(* The comma that starts a tag string is no terminating zero. *)
LEMMA CommaIsNotNul == Comma # Nul
  BY Zenon DEF Comma, Nul

(* The first zero of a tag string is behind its last tag. *)
LEMMA CharIsNul ==
  ASSUME NEW tags, IsSeq(tags), NoNul(tags), NEW i \in Nat, i >= 1
  PROVE  TagChar(tags, i) = Nul <=> i >= Len(tags) + 2
<1>1. Len(tags) \in Nat
  BY SeqLen
<1>2. CASE i = 1
  BY <1>1, <1>2, CommaIsNotNul DEF TagChar
<1>3. CASE i # 1 /\ i <= Len(tags) + 1
  <2>1. i - 1 \in 1 .. Len(tags) /\ ~ i >= Len(tags) + 2
    BY <1>1, <1>3
  <2> QED
    BY <1>3, <2>1 DEF TagChar, NoNul
<1>4. CASE i # 1 /\ ~ i <= Len(tags) + 1
  <2>1. i >= Len(tags) + 2
    BY <1>1, <1>4
  <2> QED
    BY <1>4, <2>1 DEF TagChar
<1> QED
  BY <1>2, <1>3, <1>4

(* FindStr4End over the type tags. *)
LEMMA TagsEnd ==
  ASSUME NEW w, NEW p \in Nat, NEW end \in Nat, NEW tags, IsSeq(tags), NoNul(tags),
         Has(w, p, TagWords(tags)), p + Len(TagWords(tags)) <= end
  PROVE  FindStr4End(w, p, end) = p + Len(TagWords(tags))
<1> DEFINE d == TagWords(tags)
           n == Len(d)
           ends == {k \in p .. end - 1 : EndsInNul(Word(w, k))}
<1>1. /\ n \in Nat /\ n >= 1 /\ Len(tags) + 2 <= 4 * n /\ 4 * n - 4 < Len(tags) + 2
      /\ \A k \in 1 .. n : /\ d[k][1] = "tags"
                           /\ \A c \in 1 .. 4 : d[k][2][c] = TagChar(tags, 4 * k - 4 + c)
      /\ Len(tags) \in Nat
  BY TagsAre, SeqLen
<1>2. \A k \in 1 .. n : w[p + k] = d[k]
  BY DEF Has
<1> HIDE DEF d, n
<1>3. ASSUME NEW k \in 1 .. n PROVE EndsInNul(Word(w, p + k - 1)) <=> k = n
  <2>1. p + k - 1 + 1 = p + k
    BY <1>1
  <2>2. Word(w, p + k - 1) = d[k]
    BY <1>2, <2>1 DEF Word
  <2>3. 4 \in 1 .. 4 /\ 4 * k - 4 + 4 = 4 * k /\ 4 * k \in Nat /\ 4 * k >= 1
    BY <1>1
  <2>4. d[k][1] = "tags" /\ d[k][2][4] = TagChar(tags, 4 * k)
    BY <1>1, <2>3
  <2>5. EndsInNul(d[k]) <=> TagChar(tags, 4 * k) = Nul
    BY <2>4 DEF EndsInNul
  <2>6. TagChar(tags, 4 * k) = Nul <=> 4 * k >= Len(tags) + 2
    BY <2>3, CharIsNul
  <2>7. 4 * k >= Len(tags) + 2 <=> k = n
    BY <1>1
  <2> QED
    BY <2>2, <2>5, <2>6, <2>7
<1> DEFINE last == p + n - 1
<1>4. last \in ends /\ last + 1 = p + n
  <2>1. last \in p .. end - 1 /\ n \in 1 .. n /\ last + 1 = p + n
    BY <1>1 DEF n, d
  <2>2. EndsInNul(Word(w, last))
    BY <1>3, <2>1
  <2> QED
    BY <2>1, <2>2
<1>5. ASSUME NEW j \in ends PROVE last <= j
  <2> SUFFICES ASSUME j < last PROVE FALSE
    BY <1>1
  <2>1. j \in p .. end - 1 /\ EndsInNul(Word(w, j))
    OBVIOUS
  <2> DEFINE k == j - p + 1
  <2>2. k \in 1 .. n /\ k # n /\ p + k - 1 = j
    BY <1>1, <2>1
  <2> HIDE DEF k, ends
  <2> QED
    BY <1>3, <2>1, <2>2
<1>6. ends # {}
  BY <1>4
<1>7. (CHOOSE k \in ends : \A j \in ends : k <= j) = last
  <2> DEFINE c == CHOOSE k \in ends : \A j \in ends : k <= j
  <2>1. c \in ends /\ \A j \in ends : c <= j
    <3> HIDE DEF ends, last
    <3> QED
      BY <1>4, <1>5
  <2>2. c <= last /\ last <= c
    BY <1>4, <1>5, <2>1
  <2>3. c \in Int /\ last \in Int
    BY <1>1, <2>1
  <2> HIDE DEF c, last
  <2>4. c = last
    BY <2>2, <2>3
  <2> QED
    BY <2>4 DEF c
<1> HIDE DEF ends, last
<1>8. ~ StartsWithNul(Word(w, p))
  <2>1. 1 \in 1 .. n
    BY <1>1
  <2>2. Word(w, p)[1] = "tags"
    BY <1>1, <1>2, <2>1 DEF Word
  <2> QED
    BY <2>2 DEF StartsWithNul
<1>9. ~ p >= end
  BY <1>1 DEF n, d
<1>10. FindStr4End(w, p, end) =
         CASE p >= end                  -> NoEnd
           [] StartsWithNul(Word(w, p)) -> p + 1
           [] ends = {}                 -> NoEnd
           [] OTHER                     -> 1 + CHOOSE k \in ends : \A j \in ends : k <= j
  BY DEF FindStr4End, ends
<1>11. FindStr4End(w, p, end) = 1 + last
  BY <1>6, <1>7, <1>8, <1>9, <1>10
<1>12. last \in Int
  BY <1>1 DEF last
<1> QED
  BY <1>1, <1>4, <1>11, <1>12 DEF n, d

(* The tags that the reader finds are those that were written. *)
LEMMA TagsRead ==
  ASSUME NEW w, NEW p \in Nat, NEW tags, IsSeq(tags), NoNul(tags), Has(w, p, TagWords(tags))
  PROVE  Tags(w, p, p + Len(TagWords(tags))) = tags
<1> DEFINE d == TagWords(tags)
           m == Len(d)
           n == Len(tags)
           first == p + m
           char(i) == Word(w, p + (i \div 4))[2][(i % 4) + 1]
           S == 0 .. 4 * (first - p)
           Is(l) == char(l + 1) = Nul /\ \A i \in 1 .. l : char(i) # Nul
           length == CHOOSE l \in S : Is(l)
<1>1. /\ m \in Nat /\ m >= 1 /\ n + 2 <= 4 * m /\ n \in Nat
      /\ \A k \in 1 .. m : \A c \in 1 .. 4 : d[k][2][c] = TagChar(tags, 4 * k - 4 + c)
  BY TagsAre, SeqLen
<1>2. \A k \in 1 .. m : w[p + k] = d[k]
  BY DEF Has
<1>3. Tags(w, p, first) = [i \in 1 .. length |-> char(i)]
  BY DEF Tags
<1> HIDE DEF d, m, n
<1>4. ASSUME NEW i \in 0 .. 4 * m - 1 PROVE char(i) = TagChar(tags, i + 1)
  <2> DEFINE k == (i \div 4) + 1
             c == (i % 4) + 1
  <2>1. k \in 1 .. m /\ c \in 1 .. 4 /\ 4 * k - 4 + c = i + 1 /\ p + (i \div 4) + 1 = p + k
    BY <1>1
  <2>2. Word(w, p + (i \div 4)) = d[k]
    <3> HIDE DEF k, c
    <3>1. Word(w, p + (i \div 4)) = w[p + k]
      BY <2>1 DEF Word
    <3> QED
      BY <1>2, <2>1, <3>1
  <2>3. char(i) = d[k][2][c]
    BY <2>2
  <2> HIDE DEF k, c, char
  <2> QED
    BY <1>1, <2>1, <2>3
<1> HIDE DEF char
<1>5. \A i \in 1 .. n + 1 : char(i) = TagChar(tags, i + 1)
  <2>1. \A i \in 1 .. n + 1 : i \in 0 .. 4 * m - 1
    BY <1>1
  <2> QED
    BY <1>4, <2>1
<1>6. \A i \in 1 .. n : char(i) = tags[i] /\ char(i) # Nul
  <2> SUFFICES ASSUME NEW i \in 1 .. n PROVE char(i) = tags[i] /\ char(i) # Nul
    OBVIOUS
  <2>1. i \in 1 .. n + 1 /\ i + 1 # 1 /\ i + 1 <= n + 1 /\ i + 1 - 1 = i
    BY <1>1
  <2>2. char(i) = TagChar(tags, i + 1)
    BY <1>5, <2>1
  <2>3. TagChar(tags, i + 1) = tags[i]
    BY <2>1 DEF TagChar, n
  <2>4. tags[i] # Nul
    BY DEF NoNul, n
  <2> QED
    BY <2>2, <2>3, <2>4
<1>7. char(n + 1) = Nul
  <2>1. n + 1 \in 1 .. n + 1 /\ n + 1 + 1 >= n + 2 /\ n + 1 + 1 \in Nat /\ n + 1 + 1 >= 1
    BY <1>1
  <2>2. char(n + 1) = TagChar(tags, n + 1 + 1)
    BY <1>5, <2>1
  <2>3. TagChar(tags, n + 1 + 1) = Nul
    BY <2>1, CharIsNul DEF n
  <2> QED
    BY <2>2, <2>3
<1>8. n \in S /\ Is(n)
  BY <1>1, <1>6, <1>7
<1>9. ASSUME NEW l \in S, Is(l) PROVE l = n
  <2>1. l \in Nat
    BY <1>1
  <2>2. CASE l < n
    <3>1. l + 1 \in 1 .. n
      BY <1>1, <2>1, <2>2
    <3> QED
      BY <1>6, <1>9, <3>1
  <2>3. CASE l > n
    <3>1. n + 1 \in 1 .. l
      BY <1>1, <2>1, <2>3
    <3> QED
      BY <1>7, <1>9, <3>1
  <2> QED
    BY <1>1, <2>1, <2>2, <2>3
<1>10. length = n
  <2>1. length \in S /\ Is(length)
    <3> HIDE DEF S, Is
    <3> QED
      BY <1>8
  <2> HIDE DEF length, S, Is
  <2> QED
    BY <1>9, <2>1
<1> HIDE DEF length
<1> DEFINE r == [i \in 1 .. n |-> char(i)]
<1>11. Tags(w, p, first) = r
  BY <1>3, <1>10
<1>12. IsSeq(r) /\ Len(r) = n
  <2>1. r = [i \in 1 .. n |-> r[i]]
    OBVIOUS
  <2> HIDE DEF r
  <2> QED
    BY <1>1, <2>1, MadeAt
<1>13. \A i \in 1 .. n : r[i] = tags[i]
  BY <1>6
<1> HIDE DEF r
<1>14. r = tags
  BY <1>12, <1>13, SameSeq DEF n
<1> QED
  BY <1>11, <1>14 DEF m, d

(* What an argument is made of. *)
LEMMA ArgWordsAre ==
  ASSUME NEW tag, NEW v, Legal(tag, v)
  PROVE  IsSeq(ArgWords(tag, v)) /\ Len(ArgWords(tag, v)) \in Nat
<1>1. tag \in TypeTags
  BY DEF Legal
<1>2. CASE tag \in NoBytes
  BY <1>2, SeqShort DEF ArgWords
<1>3. CASE tag \notin NoBytes /\ tag \in FourBytes
  <2>1. ArgWords(tag, v) = FromUInt32(v)
    BY <1>3 DEF ArgWords
  <2> QED
    BY <2>1, NumberIs, SeqLen
<1>4. CASE tag \notin NoBytes /\ tag \notin FourBytes /\ tag \in EightBytes
  <2>1. ArgWords(tag, v) = FromUInt64(v)
    BY <1>4 DEF ArgWords
  <2> QED
    BY <2>1, NumberIs, SeqLen
<1>5. CASE tag \notin NoBytes /\ tag \notin FourBytes /\ tag \notin EightBytes /\ tag \in Texts
  <2>1. ArgWords(tag, v) = TextWords(v) /\ v \in DOMAIN TextLength
    BY <1>5 DEF ArgWords, Legal, Strings
  <2> QED
    BY <2>1, TextAre
<1>6. CASE tag \notin NoBytes /\ tag \notin FourBytes /\ tag \notin EightBytes /\ tag \notin Texts
  <2> DEFINE h == << <<"size", BlobLength[v]>> >>
  <2>1. ArgWords(tag, v) = h \o BlobWords(v)
    BY <1>6 DEF ArgWords
  <2>2. v \in DOMAIN BlobLength
    BY <1>1, <1>6 DEF Legal, TypeTags
  <2>3. IsSeq(h) /\ IsSeq(BlobWords(v))
    BY <2>2, BlobIs, SeqShort
  <2> HIDE DEF h
  <2>4. IsSeq(h \o BlobWords(v))
    BY <2>3, SeqConcat
  <2> QED
    BY <2>1, <2>4, SeqLen
<1> QED
  BY <1>2, <1>3, <1>4, <1>5, <1>6

(* The kinds of tags exclude one another. *)
LEMMA TagKinds ==
  ASSUME NEW tag \in TypeTags
  PROVE  /\ tag \in NoBytes => tag \notin FourBytes /\ tag \notin EightBytes /\ tag \notin Texts /\ tag # "b"
         /\ tag \in FourBytes => tag \notin NoBytes /\ tag \notin EightBytes /\ tag \notin Texts /\ tag # "b"
         /\ tag \in EightBytes => tag \notin NoBytes /\ tag \notin FourBytes /\ tag \notin Texts /\ tag # "b"
         /\ tag \in Texts => tag \notin NoBytes /\ tag \notin FourBytes /\ tag \notin EightBytes /\ tag # "b"
         /\ tag = "b" => tag \notin NoBytes /\ tag \notin FourBytes /\ tag \notin EightBytes /\ tag \notin Texts
         /\ tag \in NoBytes \/ tag \in FourBytes \/ tag \in EightBytes \/ tag \in Texts \/ tag = "b"
         /\ tag # Nul
  BY DEF TypeTags, NoBytes, FourBytes, EightBytes, Texts, Nul

(* The iterator steps over an argument as far as it was written. *)
LEMMA ArgumentSteps ==
  ASSUME NEW w, IsSeq(w), NEW tag, NEW v, Legal(tag, v), NEW p \in Nat, NEW e \in Nat, e <= Len(w),
         Has(w, p, ArgWords(tag, v)), p + Len(ArgWords(tag, v)) <= e
  PROVE  /\ After(w, tag, p, e) = p + Len(ArgWords(tag, v))
         /\ Advance(w, tag, p) = p + Len(ArgWords(tag, v))
<1>1. tag \in TypeTags /\ Len(w) \in Nat
  BY SeqLen DEF Legal
<1>2. CASE tag \in NoBytes
  <2>1. ArgWords(tag, v) = <<>> /\ Len(<<>>) = 0
    BY <1>2, SeqShort DEF ArgWords
  <2>2. After(w, tag, p, e) = p /\ Advance(w, tag, p) = p
    BY <1>1, <1>2, TagKinds DEF After, Advance
  <2> QED
    BY <2>1, <2>2
<1>3. CASE tag \in FourBytes
  <2>1. Len(ArgWords(tag, v)) = 1
    BY <1>1, <1>3, TagKinds, SeqShort DEF ArgWords, FromUInt32
  <2>2. After(w, tag, p, e) = p + 1 /\ Advance(w, tag, p) = p + 1
    BY <1>1, <1>3, <2>1, TagKinds DEF After, Advance
  <2> QED
    BY <2>1, <2>2
<1>4. CASE tag \in EightBytes
  <2>1. Len(ArgWords(tag, v)) = 2
    BY <1>1, <1>4, TagKinds, SeqShort DEF ArgWords, FromUInt64
  <2>2. After(w, tag, p, e) = p + 2 /\ Advance(w, tag, p) = p + 2
    BY <1>1, <1>4, <2>1, TagKinds DEF After, Advance
  <2> QED
    BY <2>1, <2>2
<1>5. CASE tag \in Texts
  <2>1. ArgWords(tag, v) = TextWords(v) /\ v \in DOMAIN TextLength
    BY <1>1, <1>5, TagKinds DEF ArgWords, Legal, Strings
  <2>2. Has(w, p, TextWords(v)) /\ p + Len(TextWords(v)) <= e
    BY <2>1
  <2>3. FindStr4End(w, p, e) = p + Len(TextWords(v))
    BY <2>1, <2>2, TextEnds
  <2>4. Len(TextWords(v)) \in Nat /\ p + Len(TextWords(v)) <= Len(w)
    BY <1>1, <2>1, <2>2, TextAre
  <2>5. FindStr4End(w, p, Len(w)) = p + Len(TextWords(v))
    BY <1>1, <2>1, <2>2, <2>4, TextEnds
  <2>6. After(w, tag, p, e) = FindStr4End(w, p, e) /\ Advance(w, tag, p) = FindStr4End(w, p, Len(w))
    BY <1>1, <1>5, TagKinds DEF After, Advance
  <2> QED
    BY <2>1, <2>3, <2>5, <2>6
<1>6. CASE tag = "b"
  <2> DEFINE h == << <<"size", BlobLength[v]>> >>
             c == BlobWords(v)
  <2>1. ArgWords(tag, v) = h \o c /\ v \in DOMAIN BlobLength
    BY <1>1, <1>6, TagKinds DEF ArgWords, Legal
  <2>2. IsSeq(h) /\ IsSeq(c) /\ Len(h) = 1 /\ h[1] = <<"size", BlobLength[v]>>
        /\ Len(c) = RoundUp4(BlobLength[v]) \div 4 /\ Len(c) \in Nat
    BY <2>1, BlobAre, SeqShort
  <2> HIDE DEF h, c
  <2>3. /\ IsSeq(h \o c) /\ Len(h \o c) = Len(h) + Len(c)
        /\ \A i \in 1 .. Len(h) : (h \o c)[i] = h[i]
    BY <2>2, ConcatAt
  <2>4. Len(h \o c) = 1 + Len(c) /\ (h \o c)[1] = <<"size", BlobLength[v]>>
        /\ 1 \in 1 .. Len(h \o c)
    BY <2>2, <2>3
  <2>5. w[p + 1] = <<"size", BlobLength[v]>>
    BY <2>1, <2>4 DEF Has
  <2>6. ToUInt32(w, p) = BlobLength[v]
    BY <2>5 DEF ToUInt32, Word
  <2>7. After(w, tag, p, e) = p + 1 + Len(c) /\ Advance(w, tag, p) = p + 1 + Len(c)
    BY <1>1, <1>6, <2>2, <2>6, TagKinds DEF After, Advance
  <2> QED
    BY <2>1, <2>2, <2>4, <2>7
<1> QED
  BY <1>1, <1>2, <1>3, <1>4, <1>5, <1>6, TagKinds

(* The conversion of an argument gives the value that was put. *)
LEMMA ArgumentReads ==
  ASSUME NEW w, NEW tag, NEW v, Legal(tag, v), NEW p \in Nat,
         Has(w, p, ArgWords(tag, v))
  PROVE  Value([tag |-> tag, w |-> w, p |-> p]) = v
<1> DEFINE a == [tag |-> tag, w |-> w, p |-> p]
<1>1. a.tag = tag /\ a.w = w /\ a.p = p /\ tag \in TypeTags
  BY DEF Legal
<1> HIDE DEF a
<1>2. CASE tag = "T"
  <2>1. Value(a) = AsBool(a)
    BY <1>1, <1>2 DEF Value
  <2>2. AsBool(a) = (a.tag = "T")
    BY <1>1, <1>2 DEF AsBool, As
  <2>3. v = TRUE
    BY <1>2 DEF Legal
  <2>4. (a.tag = "T") = TRUE
    BY <1>1, <1>2
  <2> QED
    BY <2>1, <2>2, <2>3, <2>4 DEF a
<1>3. CASE tag = "F"
  <2>1. Value(a) = AsBool(a)
    BY <1>1, <1>3 DEF Value
  <2>2. AsBool(a) = (a.tag = "T")
    BY <1>1, <1>3 DEF AsBool, As
  <2>3. v = FALSE
    BY <1>3 DEF Legal
  <2>4. (a.tag = "T") = FALSE
    BY <1>1, <1>3
  <2> QED
    BY <2>1, <2>2, <2>3, <2>4 DEF a
<1>4. CASE tag = "N"
  BY <1>1, <1>4 DEF Value, Legal, a
<1>5. CASE tag = "I"
  BY <1>1, <1>5 DEF Value, Legal, a
<1>6. CASE tag \in FourBytes
  <2>1. ArgWords(tag, v) = << <<"num", v, 1>> >>
    BY <1>1, <1>6, TagKinds DEF ArgWords, FromUInt32
  <2> DEFINE d == << <<"num", v, 1>> >>
  <2>2. Len(d) = 1 /\ d[1] = <<"num", v, 1>> /\ Has(w, p, d)
    BY <2>1
  <2> HIDE DEF d
  <2>3. Word(w, p)[2] = v
    <3>1. 1 \in 1 .. Len(d)
      BY <2>2
    <3> QED
      BY <2>2, <3>1 DEF Has, Word
  <2>4. ToUInt32(w, p) = v /\ ToInt32(w, p) = v
    BY <2>3 DEF ToUInt32, ToInt32
  <2>5. Value(a) = v
    BY <1>1, <1>6, <2>4 DEF Value, FourBytes, AsInt32, AsFloat, AsChar, AsRgbaColor, AsMidiMessage, As
  <2> QED
    BY <2>5 DEF a
<1>7. CASE tag \in EightBytes
  <2>1. ArgWords(tag, v) = << <<"num", v, 1>>, <<"num", v, 2>> >>
    BY <1>1, <1>7, TagKinds DEF ArgWords, FromUInt64
  <2> DEFINE d == << <<"num", v, 1>>, <<"num", v, 2>> >>
  <2>2. Len(d) = 2 /\ d[1] = <<"num", v, 1>> /\ d[2] = <<"num", v, 2>> /\ Has(w, p, d)
    BY <2>1
  <2> HIDE DEF d
  <2>3. Word(w, p)[2] = v /\ Word(w, p + 1)[2] = v
    <3>1. 1 \in 1 .. Len(d) /\ 2 \in 1 .. Len(d) /\ p + 1 + 1 = p + 2
      BY <2>2
    <3>2. w[p + 1] = <<"num", v, 1>> /\ w[p + 2] = <<"num", v, 2>>
      BY <2>2, <3>1 DEF Has
    <3> QED
      BY <3>1, <3>2 DEF Word
  <2>4. ToUInt64(w, p) = v /\ ToInt64(w, p) = v
    BY <2>3 DEF ToUInt64, ToInt64
  <2>5. Value(a) = v
    BY <1>1, <1>7, <2>4 DEF Value, EightBytes, AsInt64, AsTimeTag, AsDouble, As
  <2> QED
    BY <2>5 DEF a
<1>8. CASE tag \in Texts
  <2>1. ArgWords(tag, v) = TextWords(v) /\ v \in DOMAIN TextLength
    BY <1>1, <1>8, TagKinds DEF ArgWords, Legal, Strings
  <2>2. Len(TextWords(v)) \in Nat /\ Len(TextWords(v)) >= 1
        /\ \A k \in 1 .. Len(TextWords(v)) : TextWords(v)[k] = <<"text", v, k>>
    BY <2>1, TextAre
  <2>3. 1 \in 1 .. Len(TextWords(v))
    BY <2>2
  <2>4. w[p + 1] = <<"text", v, 1>>
    BY <2>1, <2>2, <2>3 DEF Has
  <2>5. Word(w, p)[2] = v
    BY <2>4 DEF Word
  <2>6. Value(a) = v
    BY <1>1, <1>8, <2>5 DEF Value, Texts, AsString, AsSymbol, As
  <2> QED
    BY <2>6 DEF a
<1>9. CASE tag = "b"
  <2> DEFINE h == << <<"size", BlobLength[v]>> >>
             c == BlobWords(v)
  <2>1. ArgWords(tag, v) = h \o c /\ v \in DOMAIN BlobLength
    BY <1>1, <1>9, TagKinds DEF ArgWords, Legal
  <2>2. /\ IsSeq(h) /\ IsSeq(c) /\ Len(h) = 1 /\ h[1] = <<"size", BlobLength[v]>>
        /\ Len(c) \in Nat /\ (BlobLength[v] # 0 => Len(c) >= 1)
        /\ \A k \in 1 .. Len(c) : c[k] = <<"raw", v, k>>
    BY <2>1, BlobAre, SeqShort
  <2> HIDE DEF h, c
  <2>3. /\ IsSeq(h \o c) /\ Len(h \o c) = Len(h) + Len(c)
        /\ \A i \in 1 .. Len(h) : (h \o c)[i] = h[i]
        /\ \A i \in 1 .. Len(c) : (h \o c)[Len(h) + i] = c[i]
    <3>1. IsSeq(h) /\ IsSeq(c)
      BY <2>2
    <3> QED
      BY ONLY <3>1, ConcatAt
  <2>4. (h \o c)[1] = <<"size", BlobLength[v]>> /\ 1 \in 1 .. Len(h \o c)
    BY <2>2, <2>3
  <2>5. w[p + 1] = <<"size", BlobLength[v]>>
    BY <2>1, <2>4 DEF Has
  <2>6. ToUInt32(w, p) = BlobLength[v]
    BY <2>5 DEF ToUInt32, Word
  <2>7. CASE BlobLength[v] = 0
    <3> DEFINE x == CHOOSE b \in DOMAIN BlobLength : BlobLength[b] = 0
    <3>1. x \in DOMAIN BlobLength /\ BlobLength[x] = 0
      BY <2>1, <2>7
    <3> HIDE DEF x
    <3>2. x = v
      BY <2>1, <2>7, <3>1, LengthAssumption
    <3>3. Value(a) = x
      BY <1>1, <1>9, <2>6, <2>7 DEF Value, AsBlob, As, x
    <3> QED
      BY <3>2, <3>3 DEF a
  <2>8. CASE BlobLength[v] # 0
    <3>1. 1 \in 1 .. Len(c) /\ Len(h) + 1 = 2 /\ 2 \in 1 .. Len(h \o c)
      BY <2>2, <2>3, <2>8
    <3>2. (h \o c)[2] = <<"raw", v, 1>>
      BY <2>2, <2>3, <3>1
    <3>3. w[p + 2] = <<"raw", v, 1>>
      BY <2>1, <3>1, <3>2 DEF Has
    <3>4. p + 1 + 1 = p + 2
      OBVIOUS
    <3>5. Word(w, p + 1)[2] = v
      BY <3>3, <3>4 DEF Word
    <3>6. Value(a) = v
      BY <1>1, <1>9, <2>6, <2>8, <3>5 DEF Value, AsBlob, As
    <3> QED
      BY <3>6 DEF a
  <2> QED
    BY <2>7, <2>8
<1> QED
  BY <1>1, <1>2, <1>3, <1>4, <1>5, <1>6, <1>7, <1>8, <1>9, TagKinds DEF NoBytes

(***************************************************************************)
(* Messages: the arguments lie one behind the other, as the tags say.      *)
(***************************************************************************)

(* The tags of some arguments. *)
Tagged(args) == [i \in 1 .. Len(args) |-> args[i][1]]

(* The words of one argument. *)
WordsOf(arg) == ArgWords(arg[1], arg[2])

(* Arguments that can be put: each a tag with a value of its kind. *)
Lawful(args) ==
  /\ IsSeq(args)
  /\ \A i \in 1 .. Len(args) : args[i] = <<args[i][1], args[i][2]>> /\ Legal(args[i][1], args[i][2])

(* The arguments lie one behind the other from first to e. *)
Stretch(w, args, f, first, e) ==
  /\ f \in [0 .. Len(args) -> Nat] /\ f[0] = first /\ f[Len(args)] = e
  /\ \A i \in 1 .. Len(args) : /\ f[i] = f[i - 1] + Len(WordsOf(args[i]))
                               /\ Has(w, f[i - 1], WordsOf(args[i]))

(* The tags of arguments that can be put. *)
LEMMA TaggedAre ==
  ASSUME NEW args, Lawful(args)
  PROVE  /\ IsSeq(Tagged(args)) /\ Len(Tagged(args)) = Len(args) /\ Len(args) \in Nat
         /\ \A i \in 1 .. Len(args) : Tagged(args)[i] = args[i][1] /\ args[i][1] \in TypeTags
         /\ NoNul(Tagged(args))
<1> DEFINE n == Len(args)
           d == Tagged(args)
<1>1. n \in Nat
  BY SeqLen DEF Lawful
<1>2. d = [i \in 1 .. n |-> args[i][1]]
  BY DEF Tagged
<1>3. \A i \in 1 .. n : args[i][1] \in TypeTags
  BY DEF Lawful, Legal
<1> HIDE DEF n
<1>4. IsSeq(d) /\ Len(d) = n
  <2>1. d = [i \in 1 .. n |-> d[i]]
    BY <1>2
  <2> HIDE DEF d
  <2> QED
    BY <1>1, <2>1, MadeAt
<1>5. \A i \in 1 .. n : d[i] = args[i][1]
  BY <1>2
<1> HIDE DEF d
<1>6. NoNul(d)
  BY <1>3, <1>4, <1>5, TagKinds DEF NoNul
<1> QED
  BY <1>1, <1>3, <1>4, <1>5, <1>6 DEF n, d

(* The places of a stretch of arguments lie between its ends. *)
LEMMA StretchRises ==
  ASSUME NEW w, NEW args, Lawful(args), NEW f, NEW first, NEW e, Stretch(w, args, f, first, e)
  PROVE  /\ \A i \in 0 .. Len(args) : f[i] \in Nat /\ first <= f[i] /\ f[i] <= e
         /\ first \in Nat /\ e \in Nat /\ first <= e
<1> DEFINE n == Len(args)
<1>1. n \in Nat /\ f \in [0 .. n -> Nat] /\ f[0] = first /\ f[n] = e
  BY SeqLen DEF Stretch, Lawful
<1>2. ASSUME NEW i \in 1 .. n PROVE f[i - 1] <= f[i]
  <2>1. Legal(args[i][1], args[i][2])
    BY DEF Lawful
  <2>2. Len(WordsOf(args[i])) \in Nat
    BY <2>1, ArgWordsAre DEF WordsOf
  <2>3. f[i] = f[i - 1] + Len(WordsOf(args[i]))
    BY DEF Stretch
  <2>4. f[i - 1] \in Nat
    BY <1>1
  <2> QED
    BY <2>2, <2>3, <2>4
<1> HIDE DEF n
<1> DEFINE T == {i \in 0 .. n : first <= f[i]}
<1>3. 0 \in T
  BY <1>1
<1>4. ASSUME NEW i \in 1 .. n, i - 1 \in T PROVE i \in T
  <2>1. f[i - 1] \in Nat /\ f[i] \in Nat /\ first <= f[i - 1] /\ first \in Nat
    BY <1>1, <1>4
  <2> QED
    BY <1>1, <1>2, <2>1
<1> HIDE DEF T
<1>5. \A i \in 1 .. n : i - 1 \in T => i \in T
  BY <1>4
<1>6. \A i \in 0 .. n : i \in T
  BY ONLY <1>1, <1>3, <1>5, Counting, Zenon
<1> DEFINE R == {j \in 0 .. n : f[n - j] <= e}
<1>7. 0 \in R
  BY <1>1
<1>8. ASSUME NEW j \in 1 .. n, j - 1 \in R PROVE j \in R
  <2>1. n - (j - 1) \in 1 .. n /\ n - (j - 1) - 1 = n - j /\ n - j \in 0 .. n
    BY <1>1
  <2>2. f[n - j] <= f[n - (j - 1)]
    BY <1>2, <2>1
  <2>3. f[n - j] \in Nat /\ f[n - (j - 1)] \in Nat /\ f[n - (j - 1)] <= e
    BY <1>1, <1>8, <2>1
  <2> QED
    BY <1>1, <2>2, <2>3
<1> HIDE DEF R
<1>9. \A j \in 1 .. n : j - 1 \in R => j \in R
  BY <1>8
<1>10. \A j \in 0 .. n : j \in R
  BY ONLY <1>1, <1>7, <1>9, Counting, Zenon
<1>11. ASSUME NEW i \in 0 .. n PROVE f[i] \in Nat /\ first <= f[i] /\ f[i] <= e
  <2>1. n - i \in 0 .. n /\ n - (n - i) = i
    BY <1>1
  <2>2. n - i \in R
    BY <1>10, <2>1
  <2>3. f[n - (n - i)] <= e
    BY <2>2 DEF R
  <2>4. first <= f[i]
    BY <1>6 DEF T
  <2> QED
    BY <1>1, <2>1, <2>3, <2>4
<1>12. first \in Nat /\ e \in Nat /\ first <= e
  <2>1. 0 \in 0 .. n /\ f[0] = first
    BY <1>1
  <2>2. first \in Nat /\ first <= e
    BY <1>11, <2>1
  <2> QED
    BY <1>1, <2>2
<1> QED
  BY <1>11, <1>12 DEF n

(* One argument of a stretch. *)
LEMMA StretchAt ==
  ASSUME NEW w, IsSeq(w), NEW args, Lawful(args), NEW f, NEW first, NEW e,
         Stretch(w, args, f, first, e), e <= Len(w), NEW i \in 1 .. Len(args)
  PROVE  /\ After(w, args[i][1], f[i - 1], e) = f[i]
         /\ Advance(w, args[i][1], f[i - 1]) = f[i]
         /\ Value([tag |-> args[i][1], w |-> w, p |-> f[i - 1]]) = args[i][2]
         /\ f[i - 1] \in Nat /\ f[i] \in Nat
<1> DEFINE tag == args[i][1]
           v == args[i][2]
           p == f[i - 1]
<1>1. Legal(tag, v)
  BY DEF Lawful
<1>2. p \in Nat /\ f[i] \in Nat /\ f[i] <= e /\ e \in Nat
  <2>1. Len(args) \in Nat
    BY SeqLen DEF Lawful
  <2>2. i - 1 \in 0 .. Len(args) /\ i \in 0 .. Len(args)
    BY <2>1
  <2> QED
    BY <2>2, StretchRises
<1>3. Has(w, p, ArgWords(tag, v)) /\ f[i] = p + Len(ArgWords(tag, v))
  BY DEF Stretch, WordsOf
<1> HIDE DEF tag, v, p
<1>4. p + Len(ArgWords(tag, v)) <= e
  BY <1>2, <1>3
<1>5. After(w, tag, p, e) = f[i] /\ Advance(w, tag, p) = f[i]
  BY <1>1, <1>2, <1>3, <1>4, ArgumentSteps
<1>6. Value([tag |-> tag, w |-> w, p |-> p]) = v
  BY <1>1, <1>2, <1>3, ArgumentReads
<1> QED
  BY <1>2, <1>5, <1>6 DEF tag, v, p

(* The iterator over the arguments of a message ends where they end, and   *)
(* so the message is well formed.                                          *)
LEMMA PlacesAre ==
  ASSUME NEW w, IsSeq(w), NEW args, Lawful(args), NEW f, NEW first, NEW e,
         Stretch(w, args, f, first, e), e <= Len(w)
  PROVE  Places(w, Tagged(args), first, e)[Len(args)] = e
<1> DEFINE n == Len(args)
           tags == Tagged(args)
           Eqn(g) == g = [i \in 0 .. n |->
                            IF i = 0 THEN first
                            ELSE IF g[i - 1] = NoEnd THEN NoEnd
                            ELSE After(w, tags[i], g[i - 1], e)]
<1>1. n \in Nat /\ Len(tags) = n /\ \A i \in 1 .. n : tags[i] = args[i][1]
  BY TaggedAre
<1>2. f \in [0 .. n -> Nat] /\ f[0] = first /\ f[n] = e
  BY DEF Stretch
<1>3. \A i \in 1 .. n : After(w, args[i][1], f[i - 1], e) = f[i] /\ f[i - 1] \in Nat
  <2> SUFFICES ASSUME NEW i \in 1 .. n
               PROVE  After(w, args[i][1], f[i - 1], e) = f[i] /\ f[i - 1] \in Nat
    OBVIOUS
  <2>1. IsSeq(w) /\ Lawful(args) /\ Stretch(w, args, f, first, e) /\ e <= Len(w) /\ i \in 1 .. Len(args)
    OBVIOUS
  <2>2. /\ After(w, args[i][1], f[i - 1], e) = f[i]
        /\ Advance(w, args[i][1], f[i - 1]) = f[i]
        /\ Value([tag |-> args[i][1], w |-> w, p |-> f[i - 1]]) = args[i][2]
        /\ f[i - 1] \in Nat /\ f[i] \in Nat
    BY ONLY <2>1, StretchAt
  <2> QED
    BY <2>2
<1>4. Places(w, tags, first, e) = CHOOSE g : Eqn(g)
  <2> HIDE DEF tags
  <2> QED
    BY <1>1 DEF Places
<1> HIDE DEF n, tags
<1>5. ASSUME NEW i \in 0 .. n
      PROVE  f[i] = IF i = 0 THEN first
                    ELSE IF f[i - 1] = NoEnd THEN NoEnd
                    ELSE After(w, tags[i], f[i - 1], e)
  <2>1. CASE i = 0
    BY <1>2, <2>1
  <2>2. CASE i # 0
    <3>1. i \in 1 .. n
      BY <1>1, <2>2
    <3>2. f[i - 1] # NoEnd
      BY <1>3, <3>1 DEF NoEnd
    <3> QED
      BY <1>1, <1>3, <2>2, <3>1, <3>2
  <2> QED
    BY <2>1, <2>2
<1>6. Eqn(f)
  <2>1. f = [i \in 0 .. n |-> f[i]]
    BY <1>2
  <2> QED
    BY <1>5, <2>1
<1> DEFINE g == CHOOSE g : Eqn(g)
<1>7. Eqn(g)
  <2> HIDE DEF Eqn
  <2> QED
    BY <1>6
<1> HIDE DEF g
<1> DEFINE T == {i \in 0 .. n : g[i] = f[i]}
<1>8. 0 \in T
  BY <1>1, <1>2, <1>7
<1>9. ASSUME NEW i \in 1 .. n, i - 1 \in T PROVE i \in T
  <2>1. g[i] = IF g[i - 1] = NoEnd THEN NoEnd ELSE After(w, tags[i], g[i - 1], e)
    BY <1>1, <1>7
  <2>2. g[i - 1] = f[i - 1] /\ f[i - 1] # NoEnd
    BY <1>3, <1>9 DEF NoEnd
  <2>3. g[i] = f[i]
    BY <1>1, <1>3, <2>1, <2>2
  <2> QED
    BY <2>3
<1> HIDE DEF T
<1>10. \A i \in 1 .. n : i - 1 \in T => i \in T
  BY <1>9
<1>11. \A i \in 0 .. n : i \in T
  BY ONLY <1>1, <1>8, <1>10, Counting, Zenon
<1>12. g[n] = f[n]
  BY <1>1, <1>11 DEF T
<1> QED
  BY <1>2, <1>4, <1>12 DEF n, tags, g

(* The arguments that are read are those of the stretch. *)
LEMMA ArgumentsAre ==
  ASSUME NEW w, IsSeq(w), NEW args, Lawful(args), NEW f, NEW first, NEW e,
         Stretch(w, args, f, first, e), e <= Len(w)
  PROVE  Arguments(w, Tagged(args), first) = args
<1> DEFINE n == Len(args)
           tags == Tagged(args)
           Eqn(g) == g = [i \in 1 .. n |->
                            IF i = 1 THEN first ELSE Advance(w, tags[i - 1], g[i - 1])]
           at == CHOOSE g : Eqn(g)
           r == [i \in 1 .. n |-> <<tags[i], Value([tag |-> tags[i], w |-> w, p |-> at[i]])>>]
<1>1. n \in Nat /\ Len(tags) = n /\ \A i \in 1 .. n : tags[i] = args[i][1]
  BY TaggedAre
<1>2. f \in [0 .. n -> Nat] /\ f[0] = first
  BY DEF Stretch
<1>3. \A i \in 1 .. n : /\ Advance(w, args[i][1], f[i - 1]) = f[i]
                        /\ Value([tag |-> args[i][1], w |-> w, p |-> f[i - 1]]) = args[i][2]
  BY StretchAt
<1>4. IsSeq(args) /\ \A i \in 1 .. n : args[i] = <<args[i][1], args[i][2]>>
  BY DEF Lawful
<1>5. Arguments(w, tags, first) = r
  <2> HIDE DEF tags
  <2> QED
    BY <1>1 DEF Arguments
<1> HIDE DEF n, tags
<1> DEFINE h == [i \in 1 .. n |-> f[i - 1]]
<1>6. ASSUME NEW i \in 1 .. n
      PROVE  h[i] = IF i = 1 THEN first ELSE Advance(w, tags[i - 1], h[i - 1])
  <2>1. h[i] = f[i - 1]
    OBVIOUS
  <2>2. CASE i = 1
    BY <1>2, <2>1, <2>2
  <2>3. CASE i # 1
    <3>1. i - 1 \in 1 .. n
      BY <1>1, <2>3
    <3>2. h[i - 1] = f[i - 1 - 1]
      BY <3>1
    <3> HIDE DEF h
    <3>3. Advance(w, args[i - 1][1], f[i - 1 - 1]) = f[i - 1] /\ tags[i - 1] = args[i - 1][1]
      BY <1>1, <1>3, <3>1
    <3> QED
      BY <2>1, <2>3, <3>2, <3>3
  <2> QED
    BY <2>2, <2>3
<1>7. Eqn(h)
  <2>1. h = [i \in 1 .. n |-> h[i]]
    OBVIOUS
  <2> HIDE DEF h
  <2> QED
    BY <1>6, <2>1
<1>8. Eqn(at)
  <2> HIDE DEF Eqn, h
  <2> QED
    BY <1>7
<1> HIDE DEF at
<1> DEFINE T == {i \in 0 .. n : i = 0 \/ at[i] = f[i - 1]}
<1>9. 0 \in T
  BY <1>1
<1>10. ASSUME NEW i \in 1 .. n, i - 1 \in T PROVE i \in T
  <2>1. at[i] = IF i = 1 THEN first ELSE Advance(w, tags[i - 1], at[i - 1])
    BY <1>8
  <2>2. CASE i = 1
    BY <1>1, <1>2, <2>1, <2>2
  <2>3. CASE i # 1
    <3>1. i - 1 \in 1 .. n /\ i - 1 # 0
      BY <1>1, <2>3
    <3>2. at[i - 1] = f[i - 1 - 1]
      BY <1>10, <3>1
    <3>3. Advance(w, args[i - 1][1], f[i - 1 - 1]) = f[i - 1] /\ tags[i - 1] = args[i - 1][1]
      BY <1>1, <1>3, <3>1
    <3>4. at[i] = f[i - 1]
      BY <2>1, <2>3, <3>2, <3>3
    <3> QED
      BY <3>4
  <2> QED
    BY <2>2, <2>3
<1> HIDE DEF T
<1>11. \A i \in 1 .. n : i - 1 \in T => i \in T
  BY <1>10
<1>12. \A i \in 0 .. n : i \in T
  BY ONLY <1>1, <1>9, <1>11, Counting, Zenon
<1>13. ASSUME NEW i \in 1 .. n PROVE r[i] = args[i]
  <2>1. i \in T /\ i # 0
    BY <1>1, <1>12
  <2>2. at[i] = f[i - 1]
    BY <2>1 DEF T
  <2>3. r[i] = <<tags[i], Value([tag |-> tags[i], w |-> w, p |-> at[i]])>>
    OBVIOUS
  <2>4. tags[i] = args[i][1] /\ Value([tag |-> args[i][1], w |-> w, p |-> f[i - 1]]) = args[i][2]
    BY <1>1, <1>3
  <2> HIDE DEF r
  <2>5. r[i] = <<args[i][1], args[i][2]>>
    BY <2>2, <2>3, <2>4
  <2> QED
    BY <1>4, <2>5
<1>14. IsSeq(r) /\ Len(r) = n
  <2>1. r = [i \in 1 .. n |-> r[i]]
    OBVIOUS
  <2> HIDE DEF r
  <2> QED
    BY <1>1, <2>1, MadeAt
<1> HIDE DEF r
<1>15. r = args
  BY <1>4, <1>13, <1>14, SameSeq DEF n
<1> QED
  BY <1>5, <1>15 DEF tags

(* A message that is read, with its arguments filled in. *)
LEMMA Completed ==
  ASSUME NEW o, NEW a, NEW b, NEW c
  PROVE  [[ok |-> o, address |-> a, arguments |-> b] EXCEPT !.arguments = c]
         = [ok |-> o, address |-> a, arguments |-> c]
<1> DEFINE r == [ok |-> o, address |-> a, arguments |-> b]
           s == [r EXCEPT !.arguments = c]
<1>1. r \in [ok : {o}, address : {a}, arguments : {b, c}]
  OBVIOUS
<1> HIDE DEF r
<1>2. s \in [ok : {o}, address : {a}, arguments : {b, c}] /\ s.arguments = c
  BY <1>1
<1> HIDE DEF s
<1>3. s = [ok |-> s.ok, address |-> s.address, arguments |-> s.arguments] /\ s.ok = o /\ s.address = a
  BY <1>2
<1> QED
  BY <1>2, <1>3 DEF s, r

(* The words from p to e are a message. *)
MessageAt(w, p, e, a, args) ==
  /\ p \in Nat /\ e \in Nat /\ a \in Strings /\ Lawful(args)
  /\ Has(w, p, TextWords(a))
  /\ Has(w, p + Len(TextWords(a)), TagWords(Tagged(args)))
  /\ \E f : Stretch(w, args, f, p + Len(TextWords(a)) + Len(TagWords(Tagged(args))), e)

(* The words of a message read as its address and its arguments. *)
LEMMA MessageReads ==
  ASSUME NEW w, IsSeq(w), NEW p, NEW e, NEW a, NEW args, MessageAt(w, p, e, a, args), e <= Len(w)
  PROVE  /\ Message(w, p, 4 * (e - p)) = [ok |-> TRUE, address |-> a, arguments |-> args]
         /\ Word(w, p) = <<"text", a, 1>> /\ p < e
<1> DEFINE tags == Tagged(args)
           types == p + Len(TextWords(a))
           first == types + Len(TagWords(tags))
           bytes == 4 * (e - p)
           empty == [ok |-> TRUE, address |-> Word(w, p)[2], arguments |-> <<>>]
<1>1. /\ p \in Nat /\ e \in Nat /\ a \in DOMAIN TextLength /\ Lawful(args)
      /\ Has(w, p, TextWords(a)) /\ Has(w, types, TagWords(tags)) /\ IsSeq(args)
  BY DEF MessageAt, Strings, Lawful
<1>2. PICK f : Stretch(w, args, f, first, e)
  BY DEF MessageAt
<1>3. /\ Len(TextWords(a)) \in Nat /\ Len(TextWords(a)) >= 1
      /\ \A k \in 1 .. Len(TextWords(a)) : TextWords(a)[k] = <<"text", a, k>>
  BY <1>1, TextAre
<1>4. /\ IsSeq(tags) /\ Len(tags) = Len(args) /\ Len(args) \in Nat /\ NoNul(tags)
      /\ \A i \in 1 .. Len(args) : tags[i] \in TypeTags
  BY <1>1, TaggedAre
<1> HIDE DEF tags
<1>5. /\ Len(TagWords(tags)) \in Nat /\ Len(TagWords(tags)) >= 1
      /\ TagWords(tags)[1][1] = "tags" /\ TagWords(tags)[1][2][2] = TagChar(tags, 2)
  <2> DEFINE m == Len(TagWords(tags))
  <2>1. /\ m \in Nat /\ m >= 1
        /\ \A k \in 1 .. m : /\ TagWords(tags)[k][1] = "tags"
                             /\ \A c \in 1 .. 4 : TagWords(tags)[k][2][c] = TagChar(tags, 4 * k - 4 + c)
    BY <1>4, TagsAre
  <2>2. 1 \in 1 .. m /\ 2 \in 1 .. 4 /\ 4 * 1 - 4 + 2 = 2
    BY <2>1
  <2> HIDE DEF m
  <2>3. TagWords(tags)[1][1] = "tags" /\ TagWords(tags)[1][2][2] = TagChar(tags, 4 * 1 - 4 + 2)
    BY <2>1, <2>2
  <2> QED
    BY <2>1, <2>2, <2>3 DEF m
<1>6. first <= e /\ first \in Nat
  <2> HIDE DEF first
  <2> QED
    BY <1>1, <1>2, StretchRises
<1>7. types \in Nat /\ types < first /\ p < types
  BY <1>1, <1>3, <1>5
<1>8. w[p + 1] = <<"text", a, 1>> /\ Word(w, p) = <<"text", a, 1>>
  <2>1. 1 \in 1 .. Len(TextWords(a))
    BY <1>3
  <2>2. w[p + 1] = <<"text", a, 1>>
    BY <1>1, <1>3, <2>1 DEF Has
  <2> QED
    BY <2>2 DEF Word
<1>9. FindStr4End(w, p, e) = types
  BY <1>1, <1>6, <1>7, TextEnds
<1> HIDE DEF types
<1>10. FindStr4End(w, types, e) = first
  BY <1>1, <1>4, <1>6, <1>7, TagsEnd
<1>11. Tags(w, types, first) = tags
  BY <1>1, <1>4, <1>7, TagsRead
<1>12. Word(w, types) = TagWords(tags)[1]
  <2>1. 1 \in 1 .. Len(TagWords(tags))
    BY <1>5
  <2> QED
    BY <1>1, <2>1 DEF Has, Word
<1> HIDE DEF first
<1>13. p + bytes \div 4 = e /\ bytes # 0 /\ bytes % 4 = 0
  <2> DEFINE d == e - p
  <2>1. d \in Nat /\ d # 0 /\ p + d = e
    BY <1>1, <1>6, <1>7
  <2> HIDE DEF d
  <2>2. (4 * d) \div 4 = d /\ 4 * d # 0 /\ (4 * d) % 4 = 0
    BY <2>1
  <2> QED
    BY <2>1, <2>2 DEF d
<1>14. Places(w, tags, first, e)[Len(tags)] = e
  BY <1>1, <1>2, <1>4, PlacesAre DEF tags
<1>15. Arguments(w, tags, first) = args
  BY <1>1, <1>2, ArgumentsAre DEF tags
<1>16. ~ \E c \in ToSet(tags) : c \notin TypeTags
  <2>1. ASSUME NEW c \in ToSet(tags) PROVE c \in TypeTags
    <3>1. DOMAIN tags = 1 .. Len(tags)
      BY <1>4, SeqLen
    <3>2. PICK i \in DOMAIN tags : c = tags[i]
      BY DEF ToSet
    <3> QED
      BY <1>4, <3>1, <3>2
  <2> QED
    BY <2>1
<1>17. Message(w, p, bytes) =
         CASE bytes = 0 \/ bytes % 4 # 0     -> Malformed
           [] types = NoEnd                  -> Malformed
           [] types = e                      -> empty
           [] Word(w, types)[1] # "tags"     -> Malformed
           [] Word(w, types)[2][2] = Nul     -> empty
           [] first = NoEnd                  -> Malformed
           [] \E c \in ToSet(tags) : c \notin TypeTags -> Malformed
           [] Places(w, tags, first, e)[Len(tags)] = NoEnd -> Malformed
           [] OTHER -> [empty EXCEPT !.arguments = Arguments(w, tags, first)]
  <2> HIDE DEF bytes
  <2> QED
    BY <1>9, <1>10, <1>11, <1>13 DEF Message
<1>18. types # NoEnd /\ first # NoEnd /\ e # NoEnd /\ types # e
  BY <1>1, <1>6, <1>7 DEF NoEnd
<1> DEFINE got == [ok |-> TRUE, address |-> a, arguments |-> args]
<1>19. CASE Word(w, types)[2][2] = Nul
  <2>1. TagChar(tags, 2) = Nul
    BY <1>5, <1>12, <1>19
  <2>2. Len(tags) = 0
    <3>1. 2 \in Nat /\ 2 >= 1
      OBVIOUS
    <3>2. 2 >= Len(tags) + 2
      BY <1>4, <2>1, <3>1, CharIsNul
    <3> QED
      BY <1>4, <3>2
  <2>3. args = <<>>
    <3>1. Len(args) = 0 /\ IsSeq(<<>>) /\ Len(<<>>) = 0 /\ IsSeq(args)
      BY <1>1, <1>4, <2>2, SeqShort
    <3>2. \A i \in 1 .. Len(args) : args[i] = <<>>[i]
      BY <3>1
    <3> QED
      BY ONLY <3>1, <3>2, SameSeq
  <2>4. Message(w, p, bytes) = empty
    BY <1>5, <1>12, <1>13, <1>14, <1>16, <1>17, <1>18, <1>19
  <2>5. empty = got
    BY <1>8, <2>3
  <2> HIDE DEF empty, got, bytes
  <2>6. Message(w, p, bytes) = got
    BY <2>4, <2>5
  <2> QED
    BY <1>1, <1>6, <1>7, <1>8, <2>6 DEF got, bytes
<1>20. CASE Word(w, types)[2][2] # Nul
  <2>0. Message(w, p, bytes) = [empty EXCEPT !.arguments = Arguments(w, tags, first)]
    <3> HIDE DEF bytes, empty
    <3> QED
      BY <1>5, <1>12, <1>13, <1>14, <1>16, <1>17, <1>18, <1>20
  <2>1. Message(w, p, bytes) = [empty EXCEPT !.arguments = args]
    <3> DEFINE x == Arguments(w, tags, first)
    <3>1. x = args /\ Message(w, p, bytes) = [empty EXCEPT !.arguments = x]
      BY <1>15, <2>0
    <3> HIDE DEF x, empty, bytes
    <3> QED
      BY <3>1
  <2>2. [empty EXCEPT !.arguments = args] = got
    <3>2. [[ok |-> TRUE, address |-> a, arguments |-> <<>>] EXCEPT !.arguments = args] = got
      BY Completed
    <3>3. empty = [ok |-> TRUE, address |-> a, arguments |-> <<>>]
      BY <1>8
    <3> HIDE DEF empty, got
    <3> QED
      BY <3>2, <3>3
  <2> HIDE DEF empty, got, bytes
  <2>3. Message(w, p, bytes) = got
    BY <2>1, <2>2
  <2> QED
    BY <1>1, <1>6, <1>7, <1>8, <2>3 DEF got, bytes
<1> QED
  BY <1>19, <1>20

(* Whatever is around a message, it reads as what it is made of. *)
LEMMA MessageStays ==
  ASSUME NEW w, NEW v, NEW p, NEW e, NEW a, NEW args, MessageAt(w, p, e, a, args), Agree(v, w, p, e)
  PROVE  MessageAt(v, p, e, a, args)
<1> DEFINE tags == Tagged(args)
           types == p + Len(TextWords(a))
           first == types + Len(TagWords(tags))
<1>1. /\ p \in Nat /\ e \in Nat /\ a \in DOMAIN TextLength /\ Lawful(args) /\ a \in Strings
      /\ Has(w, p, TextWords(a)) /\ Has(w, types, TagWords(tags))
  BY DEF MessageAt, Strings
<1>2. PICK f : Stretch(w, args, f, first, e)
  BY DEF MessageAt
<1>3. Len(TextWords(a)) \in Nat /\ Len(TagWords(tags)) \in Nat
  BY <1>1, TextAre, TaggedAre, TagsAre
<1>4. /\ first \in Nat /\ first <= e /\ Len(args) \in Nat
      /\ \A i \in 0 .. Len(args) : f[i] \in Nat /\ first <= f[i] /\ f[i] <= e
  <2> HIDE DEF first
  <2>1. Len(args) \in Nat
    BY <1>1, TaggedAre
  <2> QED
    BY <1>1, <1>2, <2>1, StretchRises
<1>5. \A j \in p + 1 .. e : v[j] = w[j]
  BY DEF Agree
<1>6. Has(v, p, TextWords(a))
  <2>1. \A j \in 1 .. Len(TextWords(a)) : p + j \in p + 1 .. e
    BY <1>1, <1>3, <1>4
  <2> QED
    BY <1>1, <1>5, <2>1 DEF Has
<1>7. Has(v, types, TagWords(tags))
  <2>1. \A j \in 1 .. Len(TagWords(tags)) : types + j \in p + 1 .. e
    BY <1>1, <1>3, <1>4
  <2> HIDE DEF types, tags
  <2> QED
    BY <1>1, <1>5, <2>1 DEF Has
<1>8. p <= first
  BY <1>1, <1>3
<1> HIDE DEF first, types
<1>9. ASSUME NEW i \in 1 .. Len(args) PROVE Has(v, f[i - 1], WordsOf(args[i]))
  <2> DEFINE q == f[i - 1]
             d == WordsOf(args[i])
  <2>1. i - 1 \in 0 .. Len(args) /\ i \in 0 .. Len(args)
    BY <1>4
  <2>2. q \in Nat /\ first <= q /\ f[i] \in Nat /\ f[i] <= e
    BY <1>4, <2>1
  <2>3. f[i] = q + Len(d) /\ Has(w, q, d)
    BY <1>2 DEF Stretch
  <2>4. Len(d) \in Nat
    BY <1>1, ArgWordsAre DEF Lawful, WordsOf
  <2> HIDE DEF q, d
  <2>5. \A j \in 1 .. Len(d) : q + j \in p + 1 .. e
    BY <1>1, <1>4, <1>8, <2>2, <2>3, <2>4
  <2>6. Has(v, q, d)
    BY <1>5, <2>3, <2>5 DEF Has
  <2> QED
    BY <2>6 DEF q, d
<1>10. Stretch(v, args, f, first, e)
  BY <1>2, <1>9 DEF Stretch
<1> QED
  BY <1>1, <1>6, <1>7, <1>10 DEF MessageAt, first, types

(* Whatever is around it, a message prints as its tokens and gives itself. *)
LEMMA MessageIsElement ==
  ASSUME NEW w, NEW p, NEW e, NEW a, NEW args, MessageAt(w, p, e, a, args), p <= e
  PROVE  ReadsAs(w, p, e, << <<"(", a>> >> \o args \o << <<")">> >>, << <<a, args>> >>)
<1> DEFINE T == << <<"(", a>> >> \o args \o << <<")">> >>
           M == << <<a, args>> >>
<1>1. p \in Nat /\ e \in Nat /\ IsSeq(args) /\ a \in Strings
  BY DEF MessageAt, Lawful
<1>2. IsSeq(T) /\ IsSeq(M)
  <2> DEFINE h == << <<"(", a>> >>
             t == << <<")">> >>
  <2>1. IsSeq(h) /\ IsSeq(t) /\ IsSeq(M)
    BY SeqShort
  <2> HIDE DEF h, t, M
  <2>2. IsSeq(h \o args)
    BY <1>1, <2>1, ConcatAt
  <2>3. IsSeq(h \o args \o t)
    BY <2>1, <2>2, ConcatAt
  <2> QED
    BY <2>1, <2>3 DEF h, t
<1>3. ASSUME NEW v, WordsOK(v), e <= Len(v), Agree(v, w, p, e)
      PROVE  PrintPart(v, p, 4 * (e - p)) = T /\ ProcessPart(v, p, 4 * (e - p)) = Quietly(M)
  <2> DEFINE bytes == 4 * (e - p)
             m == [ok |-> TRUE, address |-> a, arguments |-> args]
  <2>1. MessageAt(v, p, e, a, args)
    BY <1>3, MessageStays
  <2>2. Message(v, p, bytes) = m /\ Word(v, p) = <<"text", a, 1>>
    BY <1>3, <2>1, MessageReads DEF WordsOK
  <2>3. ~ ElementIsBundle(v, p)
    BY <1>1, <2>2 DEF ElementIsBundle, Strings
  <2>4. m.ok = TRUE /\ m.address = a /\ m.arguments = args
    OBVIOUS
  <2> HIDE DEF bytes, m
  <2>5. PrintMessage(v, p, bytes) = T
    BY <2>2, <2>4 DEF PrintMessage
  <2>6. ProcessMessage(v, p, bytes) = Quietly(M)
    BY <2>2, <2>4 DEF ProcessMessage
  <2> QED
    BY <2>3, <2>5, <2>6 DEF PrintPart, ProcessPart, bytes
<1> HIDE DEF T, M
<1>4. ReadsAs(w, p, e, T, M)
  BY <1>1, <1>2, <1>3 DEF ReadsAs
<1> QED
  BY <1>4 DEF T, M

(* Histories. *)

(***************************************************************************)
(* The history of calls: its brackets, and the messages it ends.           *)
(***************************************************************************)

(* The brackets of a history with one more call. *)
LEMMA CountGrows ==
  ASSUME NEW h, IsSeq(h), NEW x, NEW bracket
  PROVE  /\ \A k \in 0 .. Len(h) : Count(Append(h, x), k, bracket) = Count(h, k, bracket)
         /\ Count(Append(h, x), Len(h) + 1, bracket)
              = Count(h, Len(h), bracket) + (IF x[1] = bracket THEN 1 ELSE 0)
         /\ Count(h, Len(h), bracket) \in Nat
<1> DEFINE n == Len(h)
           g == Append(h, x)
           S == {i \in 1 .. n : h[i][1] = bracket}
<1>1. n \in Nat /\ g[n + 1] = x /\ \A i \in 1 .. n : g[i] = h[i]
  BY SeqLen, AppendAt
<1> HIDE DEF n, g
<1>2. ASSUME NEW k \in 0 .. n PROVE Count(g, k, bracket) = Count(h, k, bracket)
  <2>1. \A i \in 1 .. k : g[i] = h[i]
    BY <1>1
  <2>2. {i \in 1 .. k : g[i][1] = bracket} = {i \in 1 .. k : h[i][1] = bracket}
    BY <2>1
  <2> QED
    BY <2>2 DEF Count
<1>3. IsFiniteSet(S)
  <2>1. IsFiniteSet(1 .. n)
    BY <1>1, FS_Interval
  <2> QED
    BY <2>1, FS_Subset
<1>4. Cardinality(S) \in Nat
  BY <1>3, FS_CardinalityType
<1>5. n + 1 \notin S
  BY <1>1
<1>6. Count(h, n, bracket) = Cardinality(S)
  BY DEF Count
<1>7. Count(g, n + 1, bracket) = Cardinality(IF x[1] = bracket THEN S \cup {n + 1} ELSE S)
  <2> DEFINE R == {i \in 1 .. n + 1 : g[i][1] = bracket}
  <2>1. \A i : i \in 1 .. n + 1 <=> i \in 1 .. n \/ i = n + 1
    BY <1>1
  <2>2. CASE x[1] = bracket
    <3>1. R = S \cup {n + 1}
      BY <1>1, <2>1, <2>2
    <3> HIDE DEF R, S
    <3> QED
      BY <2>2, <3>1 DEF Count, R
  <2>3. CASE x[1] # bracket
    <3>1. R = S
      BY <1>1, <2>1, <2>3
    <3> HIDE DEF R, S
    <3> QED
      BY <2>3, <3>1 DEF Count, R
  <2> QED
    BY <2>2, <2>3
<1> HIDE DEF S
<1>8. Cardinality(S \cup {n + 1}) = Cardinality(S) + 1
  BY <1>3, <1>5, FS_AddElement
<1>9. Count(g, n + 1, bracket) = Count(h, n, bracket) + (IF x[1] = bracket THEN 1 ELSE 0)
  BY <1>4, <1>6, <1>7, <1>8
<1> QED
  BY <1>2, <1>4, <1>6, <1>9 DEF n, g

(* A bundle, whose brackets are balanced at its end at the earliest. *)
Nested(h) ==
  /\ h # <<>> /\ h[1][1] = "["
  /\ \A k \in 1 .. Len(h) - 1 : Count(h, k, "[") > Count(h, k, "]")

(* A history that is a bundle was an open bundle before its last call. *)
LEMMA NestedGrows ==
  ASSUME NEW h, IsSeq(h), h # <<>>, NEW x, Nested(Append(h, x))
  PROVE  Nested(h) /\ Count(h, Len(h), "[") > Count(h, Len(h), "]")
<1> DEFINE n == Len(h)
           g == Append(h, x)
<1>1. n \in Nat /\ Len(g) = n + 1 /\ \A i \in 1 .. n : g[i] = h[i]
  BY SeqLen, AppendAt
<1>2. n >= 1
  <2>1. n = 0 => h = <<>>
    BY SeqShort, SameSeq
  <2> QED
    BY <1>1, <2>1
<1>3. \A k \in 0 .. n : Count(g, k, "[") = Count(h, k, "[") /\ Count(g, k, "]") = Count(h, k, "]")
  <2>1. \A k \in 0 .. n : Count(g, k, "[") = Count(h, k, "[")
    BY CountGrows
  <2>2. \A k \in 0 .. n : Count(g, k, "]") = Count(h, k, "]")
    BY CountGrows
  <2> QED
    BY <2>1, <2>2
<1>4. /\ g[1][1] = "["
      /\ \A k \in 1 .. Len(g) - 1 : Count(g, k, "[") > Count(g, k, "]")
  BY DEF Nested
<1> HIDE DEF g, n
<1>5. ASSUME NEW k \in 1 .. n PROVE Count(h, k, "[") > Count(h, k, "]")
  <2>1. k \in 1 .. Len(g) - 1 /\ k \in 0 .. n
    BY <1>1
  <2> QED
    BY <1>3, <1>4, <2>1
<1>6. h[1][1] = "["
  BY <1>1, <1>2, <1>4
<1>7. \A k \in 1 .. n - 1 : k \in 1 .. n
  BY <1>1
<1>8. n \in 1 .. n
  BY <1>1, <1>2
<1> QED
  BY <1>5, <1>6, <1>7, <1>8 DEF Nested, n

(* The messages of a history with one more call. *)
LEMMA MessagesGrow ==
  ASSUME NEW h, IsSeq(h), NEW x
  PROVE  /\ MessagesOf(Append(h, x)) = MessagesOf(h) \o MessageEnding(Append(h, x))
         /\ IsSeq(MessagesOf(h)) /\ IsSeq(MessageEnding(Append(h, x)))
<1> DEFINE n == Len(h)
           g == Append(h, x)
           A == [k \in 1 .. n |-> MessageEnding(SubSeq(h, 1, k))]
           B == [k \in 1 .. n + 1 |-> MessageEnding(SubSeq(g, 1, k))]
           y == MessageEnding(g)
<1>1. n \in Nat /\ IsSeq(g) /\ Len(g) = n + 1 /\ g[n + 1] = x /\ \A i \in 1 .. n : g[i] = h[i]
  BY SeqLen, AppendAt
<1>2. MessagesOf(h) = FlattenSeq(A) /\ MessagesOf(g) = FlattenSeq(B)
  <2>1. MessagesOf(h) = FlattenSeq(A)
    BY DEF MessagesOf
  <2>2. MessagesOf(g) = FlattenSeq(B)
    <3> HIDE DEF g, n
    <3> QED
      BY <1>1 DEF MessagesOf
  <2> QED
    BY <2>1, <2>2
<1>3. ASSUME NEW s PROVE IsSeq(MessageEnding(s))
  BY SeqShort DEF MessageEnding
<1> HIDE DEF g, n
<1>4. IsSeq(A) /\ Len(A) = n
  <2>1. A = [k \in 1 .. n |-> A[k]]
    OBVIOUS
  <2> HIDE DEF A
  <2> QED
    BY <1>1, <2>1, MadeAt
<1>5. AllSeqs(A)
  <2>1. \A k \in 1 .. n : A[k] = MessageEnding(SubSeq(h, 1, k))
    OBVIOUS
  <2> HIDE DEF A
  <2> QED
    BY <1>3, <1>4, <2>1 DEF AllSeqs
<1>6. ASSUME NEW k \in 1 .. n PROVE SubSeq(g, 1, k) = SubSeq(h, 1, k)
  <2> DEFINE p == SubSeq(g, 1, k)
             q == SubSeq(h, 1, k)
  <2>1. k \in Nat /\ 1 <= k + 1 /\ k <= n /\ k <= Len(g) /\ k + 1 - 1 = k
    BY <1>1
  <2>2. /\ IsSeq(p) /\ Len(p) = k + 1 - 1
        /\ \A i \in 1 .. k + 1 - 1 : p[i] = g[1 + i - 1]
    BY <1>1, <2>1, PartAt
  <2>3. /\ IsSeq(q) /\ Len(q) = k + 1 - 1
        /\ \A i \in 1 .. k + 1 - 1 : q[i] = h[1 + i - 1]
    BY <2>1, PartAt DEF n
  <2> HIDE DEF p, q
  <2>4. \A i \in 1 .. k : p[i] = q[i]
    <3> SUFFICES ASSUME NEW i \in 1 .. k PROVE p[i] = q[i]
      OBVIOUS
    <3>1. 1 + i - 1 = i /\ i \in 1 .. n
      BY <1>1, <2>1
    <3> QED
      BY <1>1, <2>1, <2>2, <2>3, <3>1
  <2>5. p = q
    BY <2>1, <2>2, <2>3, <2>4, SameSeq
  <2> QED
    BY <2>5 DEF p, q
<1>7. SubSeq(g, 1, n + 1) = g
  <2> DEFINE p == SubSeq(g, 1, n + 1)
             m == n + 1
  <2>1. m \in Nat /\ 1 <= m + 1 /\ m <= Len(g) /\ m + 1 - 1 = m /\ m = Len(g)
    BY <1>1
  <2> HIDE DEF m
  <2>2. /\ IsSeq(SubSeq(g, 1, m)) /\ Len(SubSeq(g, 1, m)) = m + 1 - 1
        /\ \A i \in 1 .. m + 1 - 1 : SubSeq(g, 1, m)[i] = g[1 + i - 1]
    BY <1>1, <2>1, PartAt
  <2>3. \A i \in 1 .. m : SubSeq(g, 1, m)[i] = g[i]
    <3>1. \A i \in 1 .. m : 1 + i - 1 = i
      BY <2>1
    <3> QED
      BY <2>1, <2>2, <3>1
  <2>4. SubSeq(g, 1, m) = g
    BY <1>1, <2>1, <2>2, <2>3, SameSeq
  <2> QED
    BY <2>4 DEF m
<1>8. B = Append(A, y)
  <2> DEFINE C == Append(A, y)
  <2>1. IsSeq(C) /\ Len(C) = n + 1 /\ C[n + 1] = y /\ \A i \in 1 .. n : C[i] = A[i]
    <3> HIDE DEF A, y
    <3> QED
      BY <1>4, AppendAt
  <2>2. IsSeq(B) /\ Len(B) = n + 1
    <3>1. B = [k \in 1 .. n + 1 |-> B[k]] /\ n + 1 \in Nat
      BY <1>1
    <3> HIDE DEF B
    <3> QED
      BY <3>1, MadeAt
  <2> HIDE DEF C
  <2>3. ASSUME NEW k \in 1 .. n + 1 PROVE B[k] = C[k]
    <3>1. B[k] = MessageEnding(SubSeq(g, 1, k))
      OBVIOUS
    <3>2. CASE k = n + 1
      BY <1>7, <2>1, <3>1, <3>2
    <3>3. CASE k # n + 1
      <4>1. k \in 1 .. n
        BY <1>1, <3>3
      <4>2. A[k] = MessageEnding(SubSeq(h, 1, k)) /\ C[k] = A[k]
        BY <2>1, <4>1
      <4> HIDE DEF A, B
      <4> QED
        BY <1>6, <3>1, <4>1, <4>2
    <3> QED
      BY <3>2, <3>3
  <2> HIDE DEF B
  <2>4. B = C
    BY <2>1, <2>2, <2>3, SameSeq
  <2> QED
    BY <2>4 DEF C
<1>9. IsSeq(y)
  BY <1>3
<1> HIDE DEF A, B, y
<1>10. FlattenSeq(B) = FlattenSeq(A) \o y /\ IsSeq(FlattenSeq(A))
  BY <1>5, <1>8, <1>9, FlattenMore
<1> QED
  BY <1>2, <1>9, <1>10 DEF g, y

(* A call that ends no message. *)
LEMMA NoMessageEnds ==
  ASSUME NEW h, IsSeq(h), NEW x, x[1] # ")"
  PROVE  MessagesOf(Append(h, x)) = MessagesOf(h)
<1> DEFINE g == Append(h, x)
<1>1. IsSeq(g) /\ Len(g) = Len(h) + 1 /\ g[Len(h) + 1] = x
  BY AppendAt
<1>2. MessagesOf(g) = MessagesOf(h) \o MessageEnding(g) /\ IsSeq(MessagesOf(h))
  BY MessagesGrow
<1> HIDE DEF g
<1>3. Last(g) = x
  BY <1>1 DEF Last
<1>4. MessageEnding(g) = <<>>
  BY <1>3 DEF MessageEnding
<1>5. MessagesOf(h) \o <<>> = MessagesOf(h)
  <2> DEFINE m == MessagesOf(h)
  <2>1. PICK V : m \in Seq(V)
    BY <1>2 DEF IsSeq
  <2> HIDE DEF m
  <2>2. m \o <<>> = m
    BY <2>1
  <2> QED
    BY <2>2 DEF m
<1> QED
  BY <1>2, <1>4, <1>5 DEF g

(* The end of a message gives it, with its arguments. *)
LEMMA MessageEnds ==
  ASSUME NEW H, IsSeq(H), NEW a, NEW args, Lawful(args),
         NEW h, h = H \o (<< <<"(", a>> >> \o args)
  PROVE  MessagesOf(Append(h, <<")">>)) = MessagesOf(h) \o << <<a, args>> >>
<1> DEFINE x == <<")">>
           g == Append(h, x)
           t == << <<"(", a>> >>
           n == Len(H)
           m == Len(args)
           N == Len(g)
           Begins(i) == g[i][1] = "(" /\ \A j \in i + 1 .. N : g[j][1] # "("
           begin == CHOOSE i \in 1 .. N : Begins(i)
<1>1. IsSeq(args) /\ n \in Nat /\ m \in Nat /\ IsSeq(t) /\ Len(t) = 1 /\ t[1] = <<"(", a>>
  BY SeqLen, SeqShort DEF Lawful
<1>2. x[1] = ")"
  OBVIOUS
<1> HIDE DEF x
<1>3. \A i \in 1 .. m : args[i][1] # "("
  <2>1. \A i \in 1 .. m : args[i][1] \in TypeTags
    BY DEF Lawful, Legal
  <2> HIDE DEF m
  <2> QED
    BY <2>1 DEF TypeTags, NoBytes, FourBytes, EightBytes, Texts
<1> HIDE DEF n, m, t
<1>4. /\ IsSeq(t \o args) /\ Len(t \o args) = 1 + m /\ (t \o args)[1] = <<"(", a>>
      /\ \A i \in 1 .. m : (t \o args)[1 + i] = args[i]
  <2>0. IsSeq(t) /\ IsSeq(args)
    BY <1>1
  <2>1. /\ IsSeq(t \o args) /\ Len(t \o args) = Len(t) + Len(args)
        /\ \A i \in 1 .. Len(t) : (t \o args)[i] = t[i]
        /\ \A i \in 1 .. Len(args) : (t \o args)[Len(t) + i] = args[i]
    BY ONLY <2>0, ConcatAt
  <2>2. 1 \in 1 .. Len(t)
    BY <1>1
  <2> QED
    BY <1>1, <2>1, <2>2 DEF m
<1> DEFINE u == t \o args
<1>5. h = H \o u
  BY DEF t
<1> HIDE DEF u
<1>6. /\ IsSeq(h) /\ Len(h) = n + (1 + m)
      /\ \A i \in 1 .. 1 + m : h[n + i] = u[i]
  <2>00. IsSeq(u) /\ Len(u) = 1 + m
    BY <1>4 DEF u
  <2>0. IsSeq(H) /\ IsSeq(u)
    BY <2>00
  <2>1. /\ IsSeq(H \o u) /\ Len(H \o u) = Len(H) + Len(u)
        /\ \A i \in 1 .. Len(H) : (H \o u)[i] = H[i]
        /\ \A i \in 1 .. Len(u) : (H \o u)[Len(H) + i] = u[i]
    BY ONLY <2>0, ConcatAt
  <2> QED
    BY <1>5, <2>00, <2>1 DEF n
<1>7. h[n + 1] = <<"(", a>> /\ \A i \in 1 .. m : h[n + 1 + i] = args[i]
  <2>1. 1 \in 1 .. 1 + m /\ \A i \in 1 .. m : 1 + i \in 1 .. 1 + m /\ n + (1 + i) = n + 1 + i
    BY <1>1
  <2>2. u[1] = <<"(", a>> /\ \A i \in 1 .. m : u[1 + i] = args[i]
    BY <1>4 DEF u
  <2>3. h[n + 1] = <<"(", a>>
    BY <1>6, <2>1, <2>2
  <2>4. ASSUME NEW i \in 1 .. m PROVE h[n + 1 + i] = args[i]
    <3>1. h[n + (1 + i)] = u[1 + i]
      BY <1>6, <2>1
    <3> QED
      BY <2>1, <2>2, <3>1
  <2> QED
    BY <2>3, <2>4
<1> HIDE DEF g
<1>8. /\ IsSeq(g) /\ Len(g) = n + m + 2 /\ g[n + m + 2] = x
      /\ \A i \in 1 .. n + m + 1 : g[i] = h[i]
  <2>3. IsSeq(h)
    BY <1>6
  <2>4. /\ Append(h, x) = h \o <<x>>
        /\ IsSeq(Append(h, x)) /\ Len(Append(h, x)) = Len(h) + 1
        /\ \A i \in 1 .. Len(h) : Append(h, x)[i] = h[i]
        /\ Append(h, x)[Len(h) + 1] = x
    BY ONLY <2>3, AppendAt
  <2>1. /\ IsSeq(g) /\ Len(g) = Len(h) + 1 /\ g[Len(h) + 1] = x
        /\ \A i \in 1 .. Len(h) : g[i] = h[i]
    BY ONLY <2>4 DEF g
  <2>2. Len(h) = n + m + 1 /\ n + m + 1 + 1 = n + m + 2
    BY <1>1, <1>6
  <2> QED
    BY <2>1, <2>2
<1>9. N = n + m + 2
  BY <1>8
<1>10. g[n + 1] = <<"(", a>> /\ \A i \in 1 .. m : g[n + 1 + i] = args[i]
  <2>1. n + 1 \in 1 .. n + m + 1 /\ \A i \in 1 .. m : n + 1 + i \in 1 .. n + m + 1
    BY <1>1
  <2> QED
    BY <1>7, <1>8, <2>1
<1> HIDE DEF N
<1>11. \A j \in n + 2 .. N : g[j][1] # "("
  <2> SUFFICES ASSUME NEW j \in n + 2 .. N PROVE g[j][1] # "("
    OBVIOUS
  <2>1. CASE j = N
    BY <1>2, <1>8, <1>9, <2>1
  <2>2. CASE j # N
    <3> DEFINE i == j - (n + 1)
    <3>1. i \in 1 .. m /\ n + 1 + i = j
      BY <1>1, <1>9, <2>2
    <3> HIDE DEF i
    <3> QED
      BY <1>3, <1>10, <3>1
  <2> QED
    BY <2>1, <2>2
<1>12. Begins(n + 1) /\ n + 1 \in 1 .. N
  <2>1. n + 1 + 1 = n + 2 /\ n + 1 \in 1 .. N
    BY <1>1, <1>9
  <2> QED
    BY <1>10, <1>11, <2>1
<1>13. ASSUME NEW i \in 1 .. N, Begins(i) PROVE i = n + 1
  <2>1. CASE i < n + 1
    <3>1. n + 1 \in i + 1 .. N
      BY <1>1, <1>9, <2>1
    <3> QED
      BY <1>10, <1>13, <3>1
  <2>2. CASE i > n + 1
    <3>1. i \in n + 2 .. N
      BY <1>1, <1>9, <2>2
    <3> QED
      BY <1>11, <1>13, <3>1
  <2> QED
    BY <1>1, <1>9, <2>1, <2>2
<1>14. begin = n + 1
  <2>1. begin \in 1 .. N /\ Begins(begin)
    <3> HIDE DEF Begins
    <3> QED
      BY <1>12
  <2> HIDE DEF begin, Begins
  <2> QED
    BY <1>13, <2>1
<1>15. MessageEnding(g) = IF Last(g)[1] # ")" THEN <<>>
                          ELSE << <<g[begin][2], SubSeq(g, begin + 1, N - 1)>> >>
  BY DEF MessageEnding, N
<1> HIDE DEF begin, Begins
<1>16. Last(g)[1] = ")"
  BY <1>2, <1>8, <1>9 DEF Last, N
<1>17. SubSeq(g, n + 2, N - 1) = args
  <2> DEFINE c == n + 2
             k == N - 1
  <2>1. c \in Nat /\ k \in Nat /\ 1 <= c /\ c <= k + 1 /\ k <= Len(g) /\ k + 1 - c = m
        /\ \A i \in 1 .. m : c + i - 1 = n + 1 + i
    BY <1>1, <1>8, <1>9
  <2> HIDE DEF c, k
  <2>2. /\ IsSeq(SubSeq(g, c, k)) /\ Len(SubSeq(g, c, k)) = k + 1 - c
        /\ \A i \in 1 .. k + 1 - c : SubSeq(g, c, k)[i] = g[c + i - 1]
    BY <1>8, <2>1, PartAt
  <2>3. \A i \in 1 .. m : SubSeq(g, c, k)[i] = args[i]
    BY <1>10, <2>1, <2>2
  <2>4. SubSeq(g, c, k) = args
    BY <1>1, <2>1, <2>2, <2>3, SameSeq DEF m
  <2> QED
    BY <2>4 DEF c, k
<1>18. g[n + 1][2] = a
  BY <1>10
<1>19. MessageEnding(g) = << <<a, args>> >>
  <2>1. n + 1 + 1 = n + 2
    BY <1>1
  <2> QED
    BY <1>14, <1>15, <1>16, <1>17, <1>18, <2>1
<1>20. MessagesOf(g) = MessagesOf(h) \o MessageEnding(g)
  BY <1>6, MessagesGrow DEF g
<1> QED
  BY <1>19, <1>20 DEF g, x

(***************************************************************************)
(* Open bundles, one in the other: opening one, and closing one.           *)
(***************************************************************************)

(* Where the slot of the i-th open bundle is. *)
SlotAt(c, i) == IF i = 0 THEN 0 ELSE c[i] - 1

(* n + 1 bundles are open, one in the other: the i-th starts at c[i], and  *)
(* all but the innermost hold the tokens P[i + 1] and messages Q[i + 1].   *)
Below(w, n, c, P, Q) ==
  /\ n \in Nat /\ c \in [0 .. n -> Nat] /\ c[0] = 0
  /\ AllSeqs(P) /\ Len(P) = n /\ AllSeqs(Q) /\ Len(Q) = n
  /\ \A i \in 1 .. n : /\ c[i] >= 1
                       /\ w[c[i]] = <<"link", SlotAt(c, i - 1)>>
                       /\ Partial(w, c[i - 1], c[i] - 1, P[i], Q[i])

(* The innermost holds T and M, and reaches to e. *)
Frames(w, n, c, P, Q, e, T, M) == Below(w, n, c, P, Q) /\ Partial(w, c[n], e, T, M)

(* Joining sequences is associative. *)
LEMMA SeqAssoc ==
  ASSUME NEW x, NEW y, NEW z, IsSeq(x), IsSeq(y), IsSeq(z)
  PROVE  x \o (y \o z) = (x \o y) \o z
<1>1. PICK V1 : x \in Seq(V1)
  BY DEF IsSeq
<1>2. PICK V2 : y \in Seq(V2)
  BY DEF IsSeq
<1>3. PICK V3 : z \in Seq(V3)
  BY DEF IsSeq
<1> DEFINE V == V1 \cup V2 \cup V3
<1>4. x \in Seq(V) /\ y \in Seq(V) /\ z \in Seq(V)
  BY <1>1, <1>2, <1>3
<1> HIDE DEF V
<1>5. IsSeq(x \o y) /\ IsSeq(y \o z)
  BY ConcatAt
<1> QED
  BY <1>4

(* Joined words are words. *)
LEMMA WordsTogether ==
  ASSUME NEW d, NEW e, WordsOK(d), WordsOK(e)
  PROVE  WordsOK(d \o e)
<1> DEFINE g == d \o e
           n == Len(d)
           m == Len(e)
<1>1. IsSeq(d) /\ IsSeq(e)
  BY DEF WordsOK
<1>2. /\ IsSeq(d \o e) /\ Len(d \o e) = Len(d) + Len(e)
      /\ \A i \in 1 .. Len(d) : (d \o e)[i] = d[i]
      /\ \A i \in 1 .. Len(e) : (d \o e)[Len(d) + i] = e[i]
  BY <1>1, ConcatAt
<1>3. n \in Nat /\ m \in Nat
  BY <1>1, SeqLen
<1>4. /\ IsSeq(g) /\ Len(g) = n + m
      /\ \A i \in 1 .. n : g[i] = d[i]
      /\ \A i \in 1 .. m : g[n + i] = e[i]
  BY <1>2
<1>5. \A i \in 1 .. n : d[i][1] = "size" => d[i][2] \in Nat
  BY DEF WordsOK
<1>6. \A i \in 1 .. m : e[i][1] = "size" => e[i][2] \in Nat
  BY DEF WordsOK
<1> HIDE DEF g, n, m
<1>7. ASSUME NEW j \in 1 .. Len(g), g[j][1] = "size" PROVE g[j][2] \in Nat
  <2>1. CASE j <= n
    <3>1. j \in 1 .. n
      BY <1>3, <1>4, <2>1
    <3> QED
      BY <1>4, <1>5, <1>7, <3>1
  <2>2. CASE j > n
    <3> DEFINE i == j - n
    <3>1. i \in 1 .. m /\ n + i = j
      BY <1>3, <1>4, <2>2
    <3> HIDE DEF i
    <3>2. g[j] = e[i]
      BY <1>4, <3>1
    <3> QED
      BY <1>6, <1>7, <3>1, <3>2
  <2> QED
    BY <1>3, <1>4, <2>1, <2>2
<1>8. WordsOK(g)
  BY <1>4, <1>7 DEF WordsOK
<1> QED
  BY <1>8 DEF g

(* The first words of a packet are words. *)
LEMMA WordsPart ==
  ASSUME NEW d, WordsOK(d), NEW k \in Nat, k <= Len(d)
  PROVE  /\ WordsOK(SubSeq(d, 1, k)) /\ Len(SubSeq(d, 1, k)) = k
         /\ \A i \in 1 .. k : SubSeq(d, 1, k)[i] = d[i]
<1> DEFINE g == SubSeq(d, 1, k)
<1>1. IsSeq(d) /\ Len(d) \in Nat
  BY SeqLen DEF WordsOK
<1>2. /\ IsSeq(SubSeq(d, 1, k)) /\ Len(SubSeq(d, 1, k)) = k + 1 - 1
      /\ \A i \in 1 .. k + 1 - 1 : SubSeq(d, 1, k)[i] = d[1 + i - 1]
  <2>1. 1 \in Nat /\ 1 <= 1 /\ 1 <= k + 1
    OBVIOUS
  <2> QED
    BY <1>1, <2>1, PartAt
<1>3. IsSeq(g) /\ Len(g) = k /\ \A i \in 1 .. k : g[i] = d[i]
  <2>1. k + 1 - 1 = k /\ \A i \in 1 .. k : 1 + i - 1 = i
    OBVIOUS
  <2> QED
    BY <1>2, <2>1
<1> HIDE DEF g
<1>4. \A i \in 1 .. k : i \in 1 .. Len(d)
  BY <1>1
<1>5. WordsOK(g)
  BY <1>3, <1>4 DEF WordsOK
<1> QED
  BY <1>3, <1>5 DEF g

(* x is d with a size in its k-th word. *)
Resized(x, d, k, n) == x = [d EXCEPT ![k] = <<"size", n>>]

(* Words with a size in one of them are words. *)
LEMMA WordsSet ==
  ASSUME NEW d, WordsOK(d), NEW k, NEW n \in Nat, NEW x, Resized(x, d, k, n)
  PROVE  /\ WordsOK(x) /\ Len(x) = Len(d)
         /\ \A j \in 1 .. Len(d) : x[j] = IF j = k THEN <<"size", n>> ELSE d[j]
<1> DEFINE s == <<"size", n>>
           g == [d EXCEPT ![k] = s]
<1>1. IsSeq(d) /\ Len(d) \in Nat /\ DOMAIN d = 1 .. Len(d)
  BY SeqLen DEF WordsOK
<1>2. s[1] = "size" /\ s[2] = n
  OBVIOUS
<1> HIDE DEF s
<1>3. IsSeq(g) /\ Len(g) = Len(d)
  BY <1>1, SeqSet
<1>4. \A j \in 1 .. Len(d) : g[j] = IF j = k THEN s ELSE d[j]
  BY <1>1
<1> HIDE DEF g
<1>5. \A j \in 1 .. Len(d) : d[j][1] = "size" => d[j][2] \in Nat
  BY DEF WordsOK
<1>6. WordsOK(g)
  <2>1. ASSUME NEW j \in 1 .. Len(g), g[j][1] = "size" PROVE g[j][2] \in Nat
    <3>1. CASE j = k
      BY <1>2, <1>3, <1>4, <3>1
    <3>2. CASE j # k
      BY <1>3, <1>4, <1>5, <2>1, <3>2
    <3> QED
      BY <3>1, <3>2
  <2> QED
    BY <1>3, <2>1 DEF WordsOK
<1> QED
  BY <1>3, <1>4, <1>6 DEF g, s, Resized

(* The open bundles lie one behind the start of the other, each with room  *)
(* for its head.                                                           *)
LEMMA FramesRise ==
  ASSUME NEW w, NEW n, NEW c, NEW P, NEW Q, NEW e, NEW T, NEW M, Frames(w, n, c, P, Q, e, T, M)
  PROVE  /\ n \in Nat /\ e \in Nat /\ IsSeq(T) /\ IsSeq(M) /\ Len(T) >= 1
         /\ \A i \in 0 .. n : c[i] \in Nat /\ c[i] + 4 <= e
         /\ \A i \in 1 .. n : c[i - 1] + 5 <= c[i]
<1>1. /\ n \in Nat /\ c \in [0 .. n -> Nat] /\ Partial(w, c[n], e, T, M)
      /\ \A i \in 1 .. n : Partial(w, c[i - 1], c[i] - 1, P[i], Q[i])
  BY DEF Frames, Below
<1>2. c[n] \in Nat /\ e \in Nat /\ c[n] + 4 <= e /\ IsSeq(T) /\ IsSeq(M) /\ Len(T) >= 1
  <2> DEFINE b == c[n]
  <2>1. Partial(w, b, e, T, M)
    BY <1>1
  <2> HIDE DEF b
  <2>2. b \in Nat /\ e \in Nat /\ b + 4 <= e /\ IsSeq(T) /\ IsSeq(M) /\ Len(T) >= 1
    BY <2>1, PartialFacts
  <2> QED
    BY <2>2 DEF b
<1>3. ASSUME NEW i \in 1 .. n PROVE c[i - 1] + 5 <= c[i]
  <2> DEFINE b == c[i - 1]
             x == c[i] - 1
             U == P[i]
             N == Q[i]
  <2>1. Partial(w, b, x, U, N)
    BY <1>1
  <2>2. i \in 0 .. n /\ c[i] \in Nat
    BY <1>1
  <2> HIDE DEF b, U, N, x
  <2>3. b \in Nat /\ b + 4 <= x
    BY <2>1, PartialFacts
  <2> QED
    BY <2>2, <2>3 DEF b, x
<1> DEFINE S == {j \in 0 .. n : \A i \in 0 .. j : c[i] <= c[j]}
<1>4. 0 \in S
  <2>1. 0 \in 0 .. n /\ c[0] \in Nat /\ \A i \in 0 .. 0 : i = 0
    BY <1>1
  <2> QED
    BY <2>1
<1>5. ASSUME NEW j \in 1 .. n, j - 1 \in S PROVE j \in S
  <2>1. \A i \in 0 .. j - 1 : c[i] <= c[j - 1]
    BY <1>5
  <2>2. c[j - 1] + 5 <= c[j] /\ j - 1 \in 0 .. n /\ j \in 0 .. n
    BY <1>1, <1>3
  <2>3. ASSUME NEW i \in 0 .. j PROVE c[i] <= c[j]
    <3>1. CASE i = j
      BY <1>1, <2>2, <3>1
    <3>2. CASE i # j
      <4>1. i \in 0 .. j - 1 /\ i \in 0 .. n
        BY <1>1, <3>2
      <4>2. c[i] \in Nat /\ c[j - 1] \in Nat /\ c[j] \in Nat
        BY <1>1, <2>2, <4>1
      <4> QED
        BY <2>1, <2>2, <4>1, <4>2
    <3> QED
      BY <3>1, <3>2
  <2> QED
    BY <2>2, <2>3
<1> HIDE DEF S
<1>6. \A j \in 0 .. n : j \in S
  BY ONLY <1>1, <1>4, <1>5, Counting
<1>7. n \in 0 .. n
  BY <1>1
<1>8. \A i \in 0 .. n : c[i] <= c[n]
  BY <1>6, <1>7 DEF S
<1>9. \A i \in 0 .. n : c[i] \in Nat /\ c[i] + 4 <= e
  BY <1>1, <1>2, <1>8
<1> QED
  BY <1>1, <1>2, <1>3, <1>9

(* The open bundles depend on the words up to e alone. *)
LEMMA FramesKept ==
  ASSUME NEW w, NEW x, NEW n, NEW c, NEW P, NEW Q, NEW e, NEW T, NEW M,
         Frames(w, n, c, P, Q, e, T, M), Agree(x, w, 0, e)
  PROVE  Frames(x, n, c, P, Q, e, T, M)
<1>1. /\ n \in Nat /\ e \in Nat
      /\ \A i \in 0 .. n : c[i] \in Nat /\ c[i] + 4 <= e
      /\ \A i \in 1 .. n : c[i - 1] + 5 <= c[i]
  BY FramesRise
<1>2. \A j \in 1 .. e : x[j] = w[j]
  BY DEF Agree
<1>3. Below(w, n, c, P, Q) /\ Partial(w, c[n], e, T, M)
  BY DEF Frames
<1>4. Partial(x, c[n], e, T, M)
  <2> DEFINE b == c[n]
  <2>1. b \in Nat
    BY <1>1
  <2>2. Partial(w, b, e, T, M)
    BY <1>3
  <2> HIDE DEF b
  <2>3. Agree(x, w, b, e)
    BY <1>1, <1>2, <2>1 DEF Agree
  <2>4. Partial(x, b, e, T, M)
    BY ONLY <2>2, <2>3, PartialKept
  <2> QED
    BY <2>4 DEF b
<1>5. ASSUME NEW i \in 1 .. n
      PROVE  /\ c[i] >= 1 /\ x[c[i]] = <<"link", SlotAt(c, i - 1)>>
             /\ Partial(x, c[i - 1], c[i] - 1, P[i], Q[i])
  <2> DEFINE b == c[i - 1]
             q == c[i] - 1
             U == P[i]
             N == Q[i]
  <2>1. Partial(w, b, q, U, N) /\ c[i] >= 1 /\ w[c[i]] = <<"link", SlotAt(c, i - 1)>>
    BY <1>3 DEF Below
  <2>2. b \in Nat /\ q \in Nat /\ q <= e /\ c[i] \in 1 .. e
    BY <1>1, <2>1
  <2> HIDE DEF b, q, U, N
  <2>3. Agree(x, w, b, q)
    BY <1>1, <1>2, <2>2 DEF Agree
  <2>4. Partial(x, b, q, U, N)
    BY ONLY <2>1, <2>3, PartialKept
  <2>5. x[c[i]] = w[c[i]]
    BY <1>2, <2>2
  <2> QED
    BY <2>1, <2>4, <2>5 DEF b, q, U, N
<1>6. Below(x, n, c, P, Q)
  BY <1>3, <1>5 DEF Below
<1> QED
  BY <1>4, <1>6 DEF Frames

(* The starts of the open bundles with one more, behind a slot at e. *)
Deeper(c, n, e) == [i \in 0 .. n + 1 |-> IF i = n + 1 THEN e + 1 ELSE c[i]]

(* The words behind e are a slot that links to the innermost bundle, and   *)
(* the head of a bundle.                                                   *)
Begun(w, n, c, e, time) ==
  w[e + 1] = <<"link", SlotAt(c, n)>> /\ Opens(w, e + 1, time)

(* Opening a bundle. *)
LEMMA FramesPush ==
  ASSUME NEW w, NEW n, NEW c, NEW P, NEW Q, NEW e, NEW T, NEW M,
         Frames(w, n, c, P, Q, e, T, M),
         NEW time, Begun(w, n, c, e, time)
  PROVE  /\ Frames(w, n + 1, Deeper(c, n, e), Append(P, T), Append(Q, M),
                   e + 5, << <<"[", time>> >>, <<>>)
         /\ SlotAt(Deeper(c, n, e), n + 1) = e
         /\ FlattenSeq(Append(P, T)) = FlattenSeq(P) \o T
         /\ FlattenSeq(Append(Q, M)) = FlattenSeq(Q) \o M
<1> DEFINE d == Deeper(c, n, e)
           P2 == Append(P, T)
           Q2 == Append(Q, M)
           t == << <<"[", time>> >>
           b == e + 1
<1>1. /\ n \in Nat /\ e \in Nat /\ IsSeq(T) /\ IsSeq(M)
      /\ \A i \in 0 .. n : c[i] \in Nat
  BY FramesRise
<1>2. Below(w, n, c, P, Q) /\ Partial(w, c[n], e, T, M)
  BY DEF Frames
<1>3. /\ c[0] = 0
      /\ AllSeqs(P) /\ Len(P) = n /\ AllSeqs(Q) /\ Len(Q) = n
      /\ \A i \in 1 .. n : /\ c[i] >= 1
                           /\ w[c[i]] = <<"link", SlotAt(c, i - 1)>>
                           /\ Partial(w, c[i - 1], c[i] - 1, P[i], Q[i])
  BY <1>2 DEF Below
<1>4. d \in [0 .. n + 1 -> Nat] /\ d[n + 1] = e + 1 /\ \A i \in 0 .. n : d[i] = c[i]
  BY <1>1 DEF Deeper
<1>5. /\ AllSeqs(P2) /\ FlattenSeq(P2) = FlattenSeq(P) \o T
      /\ AllSeqs(Q2) /\ FlattenSeq(Q2) = FlattenSeq(Q) \o M
  BY <1>1, <1>3, FlattenMore
<1>6. /\ Len(P2) = n + 1 /\ P2[n + 1] = T /\ \A i \in 1 .. n : P2[i] = P[i]
      /\ Len(Q2) = n + 1 /\ Q2[n + 1] = M /\ \A i \in 1 .. n : Q2[i] = Q[i]
  <2>1. IsSeq(P) /\ IsSeq(Q)
    BY <1>3 DEF AllSeqs
  <2> QED
    BY <1>3, <2>1, AppendAt
<1> HIDE DEF d, P2, Q2
<1>7. \A i \in 0 .. n : SlotAt(d, i) = SlotAt(c, i)
  BY <1>4 DEF SlotAt
<1>8. ASSUME NEW i \in 1 .. n + 1
      PROVE  /\ d[i] >= 1 /\ w[d[i]] = <<"link", SlotAt(d, i - 1)>>
             /\ Partial(w, d[i - 1], d[i] - 1, P2[i], Q2[i])
  <2>1. CASE i = n + 1
    <3>1. i - 1 = n /\ n \in 0 .. n /\ e + 1 - 1 = e /\ e + 1 >= 1
      BY <1>1, <2>1
    <3>4. d[n + 1] = e + 1 /\ d[n] = c[n] /\ P2[n + 1] = T /\ Q2[n + 1] = M
          /\ SlotAt(d, n) = SlotAt(c, n)
      BY <1>4, <1>6, <1>7, <3>1
    <3>2. d[i] = e + 1 /\ d[i - 1] = c[n] /\ d[i] - 1 = e /\ P2[i] = T /\ Q2[i] = M
          /\ SlotAt(d, i - 1) = SlotAt(c, n)
      <4>1. n \in Nat /\ e \in Nat
        BY <1>1
      <4>2. d[i] = e + 1 /\ d[i - 1] = c[n] /\ P2[i] = T /\ Q2[i] = M
            /\ SlotAt(d, i - 1) = SlotAt(c, n)
        BY ONLY <2>1, <3>1, <3>4
      <4>3. d[i] - 1 = e
        BY ONLY <4>1, <4>2
      <4> QED
        BY ONLY <4>2, <4>3
    <3> QED
      BY <1>2, <3>1, <3>2 DEF Begun
  <2>2. CASE i # n + 1
    <3>1. i \in 1 .. n /\ i \in 0 .. n /\ i - 1 \in 0 .. n
      BY <1>1, <2>2
    <3>2. d[i] = c[i] /\ d[i - 1] = c[i - 1] /\ P2[i] = P[i] /\ Q2[i] = Q[i]
          /\ SlotAt(d, i - 1) = SlotAt(c, i - 1)
      BY <1>4, <1>6, <1>7, <3>1
    <3> QED
      BY <1>3, <3>1, <3>2
  <2> QED
    BY <2>1, <2>2
<1>9. Below(w, n + 1, d, P2, Q2)
  <2>1. n + 1 \in Nat /\ 0 \in 0 .. n
    BY <1>1
  <2>2. d[0] = 0
    BY <1>3, <1>4, <2>1
  <2> QED
    BY <1>4, <1>5, <1>6, <1>8, <2>1, <2>2 DEF Below
<1>10. Partial(w, d[n + 1], e + 5, t, <<>>)
  <2>1. b \in Nat /\ b + 4 = e + 5 /\ Opens(w, b, time)
    BY <1>1 DEF Begun
  <2> HIDE DEF b
  <2>2. Partial(w, b, b + 4, << <<"[", time>> >>, <<>>)
    BY <2>1, PartialStarts
  <2>3. Partial(w, b, e + 5, << <<"[", time>> >>, <<>>)
    BY <2>1, <2>2
  <2> QED
    BY <1>4, <2>3 DEF b
<1>11. SlotAt(d, n + 1) = e
  <2>1. n + 1 # 0 /\ e + 1 - 1 = e
    BY <1>1
  <2>2. SlotAt(d, n + 1) = d[n + 1] - 1
    BY ONLY <2>1 DEF SlotAt
  <2>3. d[n + 1] = e + 1
    BY <1>4
  <2> QED
    BY ONLY <1>1, <2>1, <2>2, <2>3
<1>12. Frames(w, n + 1, d, P2, Q2, e + 5, t, <<>>)
  BY <1>9, <1>10 DEF Frames
<1> QED
  BY <1>5, <1>11, <1>12 DEF d, P2, Q2

(* A list of lists without its last one. *)
LEMMA LastOff ==
  ASSUME NEW P, AllSeqs(P), NEW n \in Nat, Len(P) = n, n >= 1
  PROVE  \E R : /\ AllSeqs(R) /\ Len(R) = n - 1 /\ \A i \in 1 .. n - 1 : R[i] = P[i]
                /\ FlattenSeq(P) = FlattenSeq(R) \o P[n]
                /\ IsSeq(FlattenSeq(R)) /\ IsSeq(P[n])
<1> DEFINE k == n - 1
           R == SubSeq(P, 1, k)
           x == P[n]
<1>1. IsSeq(P) /\ \A i \in 1 .. n : IsSeq(P[i])
  BY DEF AllSeqs
<1>2. k \in Nat /\ k <= Len(P) /\ 1 <= k + 1 /\ k + 1 - 1 = k /\ k + 1 = n /\ n \in 1 .. n
      /\ 1 \in Nat /\ 1 <= 1 /\ \A i \in 1 .. k : 1 + i - 1 = i /\ i \in 1 .. n
  OBVIOUS
<1>3. IsSeq(x)
  BY <1>1, <1>2
<1> HIDE DEF k
<1>4. /\ IsSeq(SubSeq(P, 1, k)) /\ Len(SubSeq(P, 1, k)) = k + 1 - 1
      /\ \A i \in 1 .. k + 1 - 1 : SubSeq(P, 1, k)[i] = P[1 + i - 1]
  BY <1>1, <1>2, PartAt
<1>5. IsSeq(R) /\ Len(R) = k /\ \A i \in 1 .. k : R[i] = P[i]
  BY <1>2, <1>4
<1> HIDE DEF R, x
<1>6. AllSeqs(R)
  BY <1>1, <1>2, <1>5 DEF AllSeqs
<1>7. /\ IsSeq(FlattenSeq(R)) /\ FlattenSeq(Append(R, x)) = FlattenSeq(R) \o x
  BY <1>3, <1>6, FlattenMore
<1>8. P = Append(R, x)
  <2> DEFINE S == Append(R, x)
  <2>1. IsSeq(S) /\ Len(S) = k + 1 /\ S[k + 1] = x /\ \A i \in 1 .. k : S[i] = R[i]
    BY <1>5, AppendAt
  <2> HIDE DEF S
  <2>2. ASSUME NEW i \in 1 .. n PROVE P[i] = S[i]
    <3>1. CASE i = n
      BY <1>2, <2>1, <3>1 DEF x
    <3>2. CASE i # n
      <4>1. i \in 1 .. k
        BY <1>2, <3>2
      <4> QED
        BY <1>5, <2>1, <4>1
    <3> QED
      BY <3>1, <3>2
  <2>3. Len(P) = Len(S) /\ \A i \in 1 .. Len(P) : P[i] = S[i]
    BY <1>2, <2>1, <2>2
  <2>4. P = S
    BY ONLY <1>1, <2>1, <2>3, SameSeq
  <2> QED
    BY <2>4 DEF S
<1> QED
  BY <1>3, <1>5, <1>6, <1>7, <1>8 DEF k, x

(* The starts of the open bundles without the innermost. *)
Shallower(c, n) == [i \in 0 .. n - 1 |-> c[i]]

(* x is w up to e, with the size of the innermost bundle in its slot. *)
Closed(x, w, n, c, e) ==
  /\ x[c[n]] = <<"size", 4 * (e - c[n])>>
  /\ \A j \in 1 .. e : j # c[n] => x[j] = w[j]

(* The innermost bundle has become an element of the one around it: what   *)
(* is open reads as before, with a closing bracket, and has given the same *)
(* messages.                                                               *)
Popped(x, n, c, P, Q, e, T, M) ==
  \E R, S, U, N :
    /\ Frames(x, n - 1, Shallower(c, n), R, S, e, U, N)
    /\ FlattenSeq(R) \o U = (FlattenSeq(P) \o T) \o << <<"]">> >>
    /\ FlattenSeq(S) \o N = FlattenSeq(Q) \o M

(* Closing one: it becomes an element of the bundle around it. *)
LEMMA FramesPop ==
  ASSUME NEW w, NEW n, NEW c, NEW P, NEW Q, NEW e, NEW T, NEW M,
         Frames(w, n, c, P, Q, e, T, M), n # 0,
         NEW x, Closed(x, w, n, c, e)
  PROVE  Popped(x, n, c, P, Q, e, T, M)
<1> DEFINE d == Shallower(c, n)
           b == c[n]
           q == c[n] - 1
           a == c[n - 1]
           close == << <<"]">> >>
           U1 == P[n]
           N1 == Q[n]
<1>1. /\ n \in Nat /\ e \in Nat /\ IsSeq(T) /\ IsSeq(M)
      /\ \A i \in 0 .. n : c[i] \in Nat /\ c[i] + 4 <= e
      /\ \A i \in 1 .. n : c[i - 1] + 5 <= c[i]
  BY FramesRise
<1>2. Below(w, n, c, P, Q) /\ Partial(w, b, e, T, M)
  BY DEF Frames
<1>3. /\ c[0] = 0
      /\ AllSeqs(P) /\ Len(P) = n /\ AllSeqs(Q) /\ Len(Q) = n
      /\ \A i \in 1 .. n : /\ c[i] >= 1
                           /\ w[c[i]] = <<"link", SlotAt(c, i - 1)>>
                           /\ Partial(w, c[i - 1], c[i] - 1, P[i], Q[i])
  BY <1>2 DEF Below
<1>4. n >= 1 /\ n \in 1 .. n /\ n \in 0 .. n /\ n - 1 \in 0 .. n /\ n - 1 \in Nat
      /\ n - 1 \in 0 .. n - 1 /\ 0 \in 0 .. n - 1
  BY <1>1
<1>5. /\ b \in Nat /\ q \in Nat /\ a \in Nat /\ q + 1 = b /\ b + 4 <= e /\ a + 4 <= q
      /\ e - q - 1 = e - b
  BY <1>1, <1>4
<1>6. Partial(w, a, q, U1, N1)
  BY <1>3, <1>4
<1>7. x[q + 1] = <<"size", 4 * (e - q - 1)>>
  BY <1>5 DEF Closed
<1> HIDE DEF b, q, a, U1, N1
<1>8. \A j \in 1 .. e : j # q + 1 => x[j] = w[j]
  BY <1>5 DEF b, Closed
<1>9. ReadsAs(w, b, e, T \o << <<"]">> >>, M)
  BY <1>2, PartialReads
<1> DEFINE V == T \o close
<1>10. ReadsAs(x, b, e, V, M)
  <2>1. Agree(x, w, b, e)
    BY <1>1, <1>5, <1>8 DEF Agree
  <2>2. ReadsAs(w, b, e, V, M)
    BY <1>9
  <2> HIDE DEF V
  <2> QED
    BY ONLY <2>1, <2>2, ReadsKept
<1>11. IsSeq(close) /\ IsSeq(V)
  <2>1. IsSeq(close)
    BY SeqShort
  <2> HIDE DEF close
  <2> QED
    BY <1>1, <2>1, ConcatAt
<1> HIDE DEF V, close
<1>12. Element(x, q, e, V, M)
  BY <1>5, <1>7, <1>10 DEF Element
<1>13. Partial(x, a, q, U1, N1)
  <2>1. Agree(x, w, a, q)
    BY <1>1, <1>5, <1>8 DEF Agree
  <2> QED
    BY ONLY <1>6, <2>1, PartialKept
<1>14. Partial(x, a, e, U1 \o V, N1 \o M)
  BY ONLY <1>12, <1>13, PartialGrows
<1>15. PICK R : /\ AllSeqs(R) /\ Len(R) = n - 1 /\ \A i \in 1 .. n - 1 : R[i] = P[i]
                /\ FlattenSeq(P) = FlattenSeq(R) \o P[n]
                /\ IsSeq(FlattenSeq(R)) /\ IsSeq(P[n])
  BY <1>1, <1>3, <1>4, LastOff
<1>16. PICK S : /\ AllSeqs(S) /\ Len(S) = n - 1 /\ \A i \in 1 .. n - 1 : S[i] = Q[i]
                /\ FlattenSeq(Q) = FlattenSeq(S) \o Q[n]
                /\ IsSeq(FlattenSeq(S)) /\ IsSeq(Q[n])
  BY <1>1, <1>3, <1>4, LastOff
<1>17. d \in [0 .. n - 1 -> Nat] /\ \A i \in 0 .. n - 1 : d[i] = c[i]
  <2>1. \A i \in 0 .. n - 1 : i \in 0 .. n
    BY <1>1
  <2> QED
    BY <1>1, <2>1 DEF Shallower
<1> HIDE DEF d
<1>18. ASSUME NEW i \in 1 .. n - 1
       PROVE  /\ d[i] >= 1 /\ x[d[i]] = <<"link", SlotAt(d, i - 1)>>
              /\ Partial(x, d[i - 1], d[i] - 1, R[i], S[i])
  <2> DEFINE ai == c[i - 1]
             qi == c[i] - 1
             Ui == P[i]
             Ni == Q[i]
  <2>1. i \in 1 .. n /\ i \in 0 .. n /\ i \in 0 .. n - 1 /\ i - 1 \in 0 .. n - 1 /\ i - 1 \in 0 .. n
    BY <1>1
  <2>2. d[i] = c[i] /\ d[i - 1] = c[i - 1] /\ R[i] = P[i] /\ S[i] = Q[i]
    BY <1>15, <1>16, <1>17, <2>1
  <2>3. SlotAt(d, i - 1) = SlotAt(c, i - 1)
    BY <2>2 DEF SlotAt
  <2>4. c[i] >= 1 /\ w[c[i]] = <<"link", SlotAt(c, i - 1)>> /\ Partial(w, ai, qi, Ui, Ni)
    BY <1>3, <2>1
  <2>5. c[i] <= a
    <3>1. Partial(w, c[n - 1], q, P[n], Q[n])
      BY <1>6 DEF a, U1, N1
    <3> DEFINE m == n - 1
    <3>2. m \in Nat /\ m \in 0 .. n /\ \A j \in 1 .. m : j \in 1 .. n /\ j \in 0 .. n /\ j - 1 \in 0 .. n
      BY <1>1, <1>4
    <3> DEFINE X == {j \in 0 .. m : i <= j => c[i] <= c[j]}
    <3>3. 0 \in X
      BY <2>1, <3>2
    <3>4. ASSUME NEW j \in 1 .. m, j - 1 \in X PROVE j \in X
      <4>1. c[j] \in Nat /\ c[j - 1] \in Nat /\ c[j - 1] + 5 <= c[j] /\ c[i] \in Nat
        BY <1>1, <2>1, <3>2
      <4>2. i <= j - 1 => c[i] <= c[j - 1]
        BY <3>4
      <4>3. i <= j => i <= j - 1 \/ i = j
        BY <2>1, <3>2
      <4> QED
        BY <3>2, <4>1, <4>2, <4>3
    <3> HIDE DEF X, m
    <3>5. \A j \in 0 .. m : j \in X
      BY ONLY <3>2, <3>3, <3>4, Counting
    <3>6. m \in X
      BY <3>2, <3>5
    <3>7. i <= m
      BY <1>1 DEF m
    <3> QED
      BY <3>6, <3>7 DEF X, m, a
  <2>6. ai \in Nat /\ qi \in Nat /\ c[i] \in 1 .. e /\ c[i] # q + 1 /\ qi <= q /\ q <= e
    BY <1>1, <1>5, <2>1, <2>4, <2>5
  <2>7. x[c[i]] = w[c[i]]
    BY <1>8, <2>6
  <2> HIDE DEF ai, qi, Ui, Ni
  <2>8. Agree(x, w, ai, qi)
    BY <1>1, <1>5, <1>8, <2>6 DEF Agree
  <2>9. Partial(x, ai, qi, Ui, Ni)
    BY ONLY <2>4, <2>8, PartialKept
  <2> QED
    BY <2>2, <2>3, <2>4, <2>7, <2>9 DEF ai, qi, Ui, Ni
<1>19. Below(x, n - 1, d, R, S)
  BY <1>3, <1>4, <1>15, <1>16, <1>17, <1>18 DEF Below
<1>20. Frames(x, n - 1, d, R, S, e, U1 \o V, N1 \o M)
  BY <1>4, <1>14, <1>17, <1>19 DEF Frames, a
<1>21. FlattenSeq(R) \o (U1 \o V) = (FlattenSeq(P) \o T) \o close
  <2> DEFINE F == FlattenSeq(R)
  <2>1. IsSeq(F) /\ IsSeq(U1) /\ FlattenSeq(P) = F \o U1
    BY <1>15 DEF U1
  <2> HIDE DEF F
  <2>2. F \o (U1 \o V) = (F \o U1) \o V
    BY ONLY <1>11, <2>1, SeqAssoc
  <2> DEFINE G == F \o U1
  <2>3. IsSeq(G)
    BY <2>1, ConcatAt
  <2> HIDE DEF G
  <2>4. G \o (T \o close) = (G \o T) \o close
    BY ONLY <1>1, <1>11, <2>3, SeqAssoc
  <2> QED
    BY <2>1, <2>2, <2>4 DEF F, G, V
<1>22. FlattenSeq(S) \o (N1 \o M) = FlattenSeq(Q) \o M
  <2> DEFINE F == FlattenSeq(S)
  <2>1. IsSeq(F) /\ IsSeq(N1) /\ FlattenSeq(Q) = F \o N1
    BY <1>16 DEF N1
  <2> HIDE DEF F
  <2>2. F \o (N1 \o M) = (F \o N1) \o M
    BY ONLY <1>1, <2>1, SeqAssoc
  <2> QED
    BY <2>1, <2>2 DEF F
<1> QED
  BY <1>20, <1>21, <1>22 DEF d, close, Popped

(* The last words of a packet are words. *)
LEMMA WordsRest ==
  ASSUME NEW d, WordsOK(d), NEW k \in Nat, k <= Len(d)
  PROVE  /\ WordsOK(SubSeq(d, k + 1, Len(d))) /\ Len(SubSeq(d, k + 1, Len(d))) = Len(d) - k
         /\ \A i \in 1 .. Len(d) - k : SubSeq(d, k + 1, Len(d))[i] = d[k + i]
<1> DEFINE a == k + 1
           n == Len(d)
           g == SubSeq(d, a, n)
<1>1. IsSeq(d) /\ n \in Nat
  BY SeqLen DEF WordsOK
<1>2. a \in Nat /\ 1 <= a /\ a <= n + 1 /\ n <= Len(d) /\ n + 1 - a = n - k
      /\ \A i \in 1 .. n - k : a + i - 1 = k + i /\ k + i \in 1 .. n
  BY <1>1
<1> HIDE DEF a, n
<1>3. /\ IsSeq(SubSeq(d, a, n)) /\ Len(SubSeq(d, a, n)) = n + 1 - a
      /\ \A i \in 1 .. n + 1 - a : SubSeq(d, a, n)[i] = d[a + i - 1]
  BY ONLY <1>1, <1>2, PartAt
<1>4. IsSeq(g) /\ Len(g) = n - k /\ \A i \in 1 .. n - k : g[i] = d[k + i]
  BY <1>2, <1>3
<1> HIDE DEF g
<1>5. \A j \in 1 .. n : d[j][1] = "size" => d[j][2] \in Nat
  BY DEF WordsOK, n
<1>6. WordsOK(g)
  BY <1>2, <1>4, <1>5 DEF WordsOK
<1> QED
  BY <1>4, <1>6 DEF g, a, n

(* d is x, y and z joined. *)
Joins(d, x, y, z) == d = x \o y \o z

(* Where the words of three joined stretches are. *)
LEMMA Joined ==
  ASSUME NEW x, NEW y, NEW z, WordsOK(x), WordsOK(y), WordsOK(z), NEW d, Joins(d, x, y, z)
  PROVE  /\ WordsOK(d) /\ Len(d) = Len(x) + Len(y) + Len(z)
         /\ Len(x) \in Nat /\ Len(y) \in Nat /\ Len(z) \in Nat
         /\ \A i \in 1 .. Len(x) : d[i] = x[i]
         /\ Has(d, Len(x), y)
         /\ Has(d, Len(x) + Len(y), z)
<1> DEFINE u == x \o y
<1>1. IsSeq(x) /\ IsSeq(y) /\ IsSeq(z)
  BY DEF WordsOK
<1>2. Len(x) \in Nat /\ Len(y) \in Nat /\ Len(z) \in Nat
  BY <1>1, SeqLen
<1>3. /\ IsSeq(u) /\ Len(u) = Len(x) + Len(y)
      /\ \A i \in 1 .. Len(x) : u[i] = x[i]
      /\ \A i \in 1 .. Len(y) : u[Len(x) + i] = y[i]
  BY <1>1, ConcatAt
<1>4. WordsOK(u)
  BY WordsTogether
<1> HIDE DEF u
<1>5. d = u \o z
  BY DEF u, Joins
<1>6. /\ IsSeq(u \o z) /\ Len(u \o z) = Len(u) + Len(z)
      /\ \A i \in 1 .. Len(u) : (u \o z)[i] = u[i]
      /\ \A i \in 1 .. Len(z) : (u \o z)[Len(u) + i] = z[i]
  BY ONLY <1>1, <1>3, ConcatAt
<1>7. WordsOK(d)
  BY <1>4, <1>5, WordsTogether
<1>8. /\ Len(d) = Len(x) + Len(y) + Len(z)
      /\ \A i \in 1 .. Len(x) + Len(y) : d[i] = u[i]
      /\ \A i \in 1 .. Len(z) : d[Len(x) + Len(y) + i] = z[i]
  BY <1>2, <1>3, <1>5, <1>6
<1>9. \A i \in 1 .. Len(x) : i \in 1 .. Len(x) + Len(y)
  BY <1>2
<1>10. \A i \in 1 .. Len(y) : Len(x) + i \in 1 .. Len(x) + Len(y)
  BY <1>2
<1>11. \A i \in 1 .. Len(x) : d[i] = x[i]
  BY <1>3, <1>8, <1>9
<1>12. Has(d, Len(x), y)
  BY <1>3, <1>8, <1>10 DEF Has
<1>13. Has(d, Len(x) + Len(y), z)
  BY <1>8 DEF Has
<1> QED
  BY <1>2, <1>7, <1>8, <1>11, <1>12, <1>13

(* The words of a string are words. *)
LEMMA TextOK ==
  ASSUME NEW s \in DOMAIN TextLength
  PROVE  WordsOK(TextWords(s))
<1> DEFINE d == TextWords(s)
<1>1. IsSeq(d) /\ \A k \in 1 .. Len(d) : d[k] = <<"text", s, k>>
  BY TextAre
<1> HIDE DEF d
<1>2. \A k \in 1 .. Len(d) : d[k][1] # "size"
  BY <1>1
<1>3. WordsOK(d)
  BY <1>1, <1>2 DEF WordsOK
<1> QED
  BY <1>3 DEF d

(* The words of a tag string are words. *)
LEMMA TagsOK ==
  ASSUME NEW tags, IsSeq(tags)
  PROVE  WordsOK(TagWords(tags))
<1> DEFINE d == TagWords(tags)
<1>1. IsSeq(d) /\ \A k \in 1 .. Len(d) : d[k][1] = "tags"
  BY TagsAre
<1> HIDE DEF d
<1>2. WordsOK(d)
  BY <1>1 DEF WordsOK
<1> QED
  BY <1>2 DEF d

(* The words of the head of a bundle. *)
LEMMA BundleAre ==
  ASSUME NEW time
  PROVE  /\ WordsOK(Bundle(time)) /\ Len(Bundle(time)) = 4
         /\ Bundle(time)[1] = <<"text", "#bundle", 1>>
         /\ Bundle(time)[2] = <<"text", "#bundle", 2>>
         /\ Bundle(time)[3] = <<"num", time, 1>>
         /\ Bundle(time)[4] = <<"num", time, 2>>
<1> DEFINE a == << <<"text", "#bundle", 1>>, <<"text", "#bundle", 2>> >>
           b == << <<"num", time, 1>>, <<"num", time, 2>> >>
<1>1. /\ IsSeq(a) /\ Len(a) = 2 /\ a[1] = <<"text", "#bundle", 1>> /\ a[2] = <<"text", "#bundle", 2>>
      /\ IsSeq(b) /\ Len(b) = 2 /\ b[1] = <<"num", time, 1>> /\ b[2] = <<"num", time, 2>>
  BY SeqShort
<1>2. Bundle(time) = a \o b
  BY DEF Bundle, FromUInt64
<1> HIDE DEF a, b
<1> DEFINE d == Bundle(time)
<1>3. /\ IsSeq(a \o b) /\ Len(a \o b) = Len(a) + Len(b)
      /\ \A i \in 1 .. Len(a) : (a \o b)[i] = a[i]
      /\ \A i \in 1 .. Len(b) : (a \o b)[Len(a) + i] = b[i]
  BY ONLY <1>1, ConcatAt
<1>4. 1 \in 1 .. 2 /\ 2 \in 1 .. 2 /\ 2 + 1 = 3 /\ 2 + 2 = 4
  OBVIOUS
<1> HIDE DEF d
<1>5. IsSeq(d) /\ Len(d) = 4 /\ d[1] = a[1] /\ d[2] = a[2] /\ d[3] = b[1] /\ d[4] = b[2]
  BY <1>1, <1>2, <1>3, <1>4 DEF d
<1>6. WordsOK(d)
  <2>1. ASSUME NEW j \in 1 .. Len(d) PROVE d[j][1] # "size"
    <3>1. j = 1 \/ j = 2 \/ j = 3 \/ j = 4
      BY <1>5
    <3>2. d[1][1] = "text" /\ d[2][1] = "text" /\ d[3][1] = "num" /\ d[4][1] = "num"
      BY <1>1, <1>5
    <3> QED
      BY <3>1, <3>2
  <2> QED
    BY <1>5, <2>1 DEF WordsOK
<1> QED
  BY <1>1, <1>5, <1>6 DEF d

(* A slot with a link in it, and nothing, are words. *)
LEMMA LinkOK ==
  ASSUME NEW n
  PROVE  WordsOK(<< <<"link", n>> >>) /\ WordsOK(<<>>)
<1> DEFINE d == << <<"link", n>> >>
<1>1. IsSeq(d) /\ Len(d) = 1 /\ d[1][1] = "link" /\ IsSeq(<<>>) /\ Len(<<>>) = 0
  BY SeqShort
<1> HIDE DEF d
<1>2. WordsOK(d) /\ WordsOK(<<>>)
  BY <1>1 DEF WordsOK
<1> QED
  BY <1>2 DEF d

(* The words of an argument are words. *)
LEMMA ArgOK ==
  ASSUME NEW tag, NEW v, Legal(tag, v)
  PROVE  WordsOK(ArgWords(tag, v))
<1>1. tag \in TypeTags /\ (tag \in Texts => v \in Strings) /\ (tag = "b" => v \in DOMAIN BlobLength)
  BY DEF Legal
<1> DEFINE d == ArgWords(tag, v)
<1>2. CASE tag \in NoBytes
  <2>1. d = <<>>
    BY <1>2 DEF ArgWords
  <2> QED
    BY <2>1, LinkOK
<1>3. CASE tag \in FourBytes
  <2>1. d = << <<"num", v, 1>> >>
    BY <1>1, <1>3, TagKinds DEF ArgWords, FromUInt32
  <2> DEFINE g == << <<"num", v, 1>> >>
  <2>2. IsSeq(g) /\ Len(g) = 1 /\ g[1][1] = "num"
    BY SeqShort
  <2> HIDE DEF g
  <2>3. WordsOK(g)
    BY <2>2 DEF WordsOK
  <2> QED
    BY <2>1, <2>3 DEF g
<1>4. CASE tag \in EightBytes
  <2>1. d = << <<"num", v, 1>>, <<"num", v, 2>> >>
    BY <1>1, <1>4, TagKinds DEF ArgWords, FromUInt64
  <2> DEFINE g == << <<"num", v, 1>>, <<"num", v, 2>> >>
  <2>2. IsSeq(g) /\ Len(g) = 2 /\ g[1][1] = "num" /\ g[2][1] = "num"
    BY SeqShort
  <2> HIDE DEF g
  <2>3. \A j \in 1 .. 2 : j = 1 \/ j = 2
    OBVIOUS
  <2>4. WordsOK(g)
    BY <2>2, <2>3 DEF WordsOK
  <2> QED
    BY <2>1, <2>4 DEF g
<1>5. CASE tag \in Texts
  <2>1. d = TextWords(v)
    BY <1>1, <1>5, TagKinds DEF ArgWords
  <2>2. v \in DOMAIN TextLength
    BY <1>1, <1>5 DEF Strings
  <2> QED
    BY <2>1, <2>2, TextOK
<1>6. CASE tag = "b"
  <2> DEFINE b == BlobWords(v)
             n == BlobLength[v]
             s == << <<"size", n>> >>
  <2>1. d = s \o b
    BY <1>1, <1>6, TagKinds DEF ArgWords
  <2>2. IsSeq(b) /\ (\A k \in 1 .. Len(b) : b[k] = <<"raw", v, k>>) /\ n \in Nat
    BY <1>1, <1>6, BlobAre
  <2>3. IsSeq(s) /\ Len(s) = 1 /\ s[1] = <<"size", n>>
    BY SeqShort
  <2> HIDE DEF b, s, n
  <2>4. \A k \in 1 .. Len(b) : b[k][1] # "size"
    BY <2>2
  <2>5. WordsOK(b)
    BY <2>2, <2>4 DEF WordsOK
  <2>6. \A k \in 1 .. Len(s) : s[k][2] \in Nat
    BY <2>2, <2>3
  <2>7. WordsOK(s)
    BY <2>3, <2>6 DEF WordsOK
  <2>8. WordsOK(s \o b)
    BY ONLY <2>5, <2>7, WordsTogether
  <2> QED
    BY <2>1, <2>8
<1> QED
  BY <1>1, <1>2, <1>3, <1>4, <1>5, <1>6, TagKinds

(* One more argument. *)
LEMMA ArgumentMore ==
  ASSUME NEW args, Lawful(args), NEW tag, NEW v, Legal(tag, v)
  PROVE  /\ Lawful(Append(args, <<tag, v>>))
         /\ Tagged(Append(args, <<tag, v>>)) = Append(Tagged(args), tag)
<1> DEFINE m == Len(args)
           arg == <<tag, v>>
           g == Append(args, arg)
           t == Tagged(args)
<1>1. IsSeq(args) /\ m \in Nat /\ \A i \in 1 .. m : args[i] = <<args[i][1], args[i][2]>>
                                                    /\ Legal(args[i][1], args[i][2])
  BY SeqLen DEF Lawful
<1>2. /\ IsSeq(Append(args, arg)) /\ Len(Append(args, arg)) = Len(args) + 1
      /\ \A i \in 1 .. Len(args) : Append(args, arg)[i] = args[i]
      /\ Append(args, arg)[Len(args) + 1] = arg
  BY <1>1, AppendAt
<1>3. IsSeq(g) /\ Len(g) = m + 1 /\ g[m + 1] = arg /\ \A i \in 1 .. m : g[i] = args[i]
  BY <1>2
<1>4. arg[1] = tag /\ arg[2] = v /\ arg = <<arg[1], arg[2]>>
  OBVIOUS
<1>5. IsSeq(t) /\ Len(t) = m /\ \A i \in 1 .. m : t[i] = args[i][1]
  BY TaggedAre
<1> HIDE DEF g, t
<1>6. \A i \in 1 .. m + 1 : i \in 1 .. m \/ i = m + 1
  BY <1>1
<1>7. Lawful(g)
  <2> SUFFICES ASSUME NEW i \in 1 .. m + 1
               PROVE  g[i] = <<g[i][1], g[i][2]>> /\ Legal(g[i][1], g[i][2])
    BY <1>3 DEF Lawful
  <2>1. CASE i = m + 1
    <3>1. g[i] = arg
      BY <1>3, <2>1
    <3>2. g[i][1] = tag /\ g[i][2] = v
      BY <1>4, <3>1
    <3> QED
      BY <3>1, <3>2
  <2>2. CASE i \in 1 .. m
    <3>1. g[i] = args[i]
      BY <1>3, <2>2
    <3> QED
      BY <1>1, <2>2, <3>1
  <2> QED
    BY <1>6, <2>1, <2>2
<1>8. Tagged(g) = Append(t, tag)
  <2> DEFINE x == Tagged(g)
             y == Append(t, tag)
  <2>1. IsSeq(x) /\ Len(x) = m + 1 /\ \A i \in 1 .. m + 1 : x[i] = g[i][1]
    <3>1. /\ IsSeq(Tagged(g)) /\ Len(Tagged(g)) = Len(g) /\ Len(g) \in Nat
          /\ \A i \in 1 .. Len(g) : Tagged(g)[i] = g[i][1] /\ g[i][1] \in TypeTags
      BY ONLY <1>7, TaggedAre
    <3> QED
      BY <1>3, <3>1
  <2>2. IsSeq(y) /\ Len(y) = m + 1 /\ y[m + 1] = tag /\ \A i \in 1 .. m : y[i] = t[i]
    <3>1. /\ Append(t, tag) = t \o <<tag>>
          /\ IsSeq(Append(t, tag)) /\ Len(Append(t, tag)) = Len(t) + 1
          /\ \A i \in 1 .. Len(t) : Append(t, tag)[i] = t[i]
          /\ Append(t, tag)[Len(t) + 1] = tag
      BY ONLY <1>5, AppendAt
    <3>2. Len(t) = m
      BY <1>5
    <3> QED
      BY ONLY <3>1, <3>2
  <2> HIDE DEF x, y
  <2>3. ASSUME NEW i \in 1 .. m + 1 PROVE x[i] = y[i]
    <3>1. CASE i = m + 1
      BY <1>3, <1>4, <2>1, <2>2, <3>1
    <3>2. CASE i \in 1 .. m
      BY <1>3, <1>5, <2>1, <2>2, <3>2
    <3> QED
      BY <1>6, <3>1, <3>2
  <2>4. x = y
    BY <2>1, <2>2, <2>3, SameSeq
  <2> QED
    BY <2>4 DEF x, y
<1> QED
  BY <1>7, <1>8 DEF g, t

(* The stretch of the arguments with one more. *)
LEMMA StretchMore ==
  ASSUME NEW w, WordsOK(w), NEW args, Lawful(args), NEW f, NEW first,
         Stretch(w, args, f, first, Len(w)), NEW tag, NEW v, Legal(tag, v),
         NEW x, x = w \o ArgWords(tag, v)
  PROVE  Stretch(x, Append(args, <<tag, v>>),
                 [i \in 0 .. Len(args) + 1 |-> IF i = Len(args) + 1 THEN Len(x) ELSE f[i]],
                 first, Len(x))
<1> DEFINE m == Len(args)
           arg == <<tag, v>>
           d == ArgWords(tag, v)
           g == Append(args, arg)
           e == Len(w)
           h == [i \in 0 .. m + 1 |-> IF i = m + 1 THEN Len(x) ELSE f[i]]
<1>1. IsSeq(args) /\ m \in Nat
  BY SeqLen DEF Lawful
<1>2. IsSeq(g) /\ Len(g) = m + 1 /\ g[m + 1] = arg /\ \A i \in 1 .. m : g[i] = args[i]
  <2>1. /\ IsSeq(Append(args, arg)) /\ Len(Append(args, arg)) = Len(args) + 1
        /\ \A i \in 1 .. Len(args) : Append(args, arg)[i] = args[i]
        /\ Append(args, arg)[Len(args) + 1] = arg
    BY <1>1, AppendAt
  <2> QED
    BY <2>1
<1>3. WordsOf(arg) = d
  BY DEF WordsOf
<1>4. IsSeq(w) /\ e \in Nat /\ IsSeq(d) /\ Len(d) \in Nat
  <2>1. WordsOK(d)
    BY ArgOK
  <2> HIDE DEF d
  <2> QED
    BY <2>1, SeqLen DEF WordsOK
<1> HIDE DEF g, arg, d
<1>5. /\ IsSeq(w \o d) /\ Len(w \o d) = Len(w) + Len(d)
      /\ \A i \in 1 .. Len(w) : (w \o d)[i] = w[i]
      /\ \A i \in 1 .. Len(d) : (w \o d)[Len(w) + i] = d[i]
  BY ONLY <1>4, ConcatAt
<1>6. Len(x) = e + Len(d) /\ (\A i \in 1 .. e : x[i] = w[i]) /\ Has(x, e, d)
  BY <1>5 DEF d, Has
<1> HIDE DEF e
<1>7. /\ f \in [0 .. m -> Nat] /\ f[0] = first /\ f[m] = e
      /\ \A i \in 1 .. m : f[i] = f[i - 1] + Len(WordsOf(args[i])) /\ Has(w, f[i - 1], WordsOf(args[i]))
  BY DEF Stretch, e
<1>8. \A i \in 0 .. m : f[i] \in Nat /\ f[i] <= e
  BY StretchRises DEF e
<1>9. Len(x) \in Nat
  BY <1>4, <1>6
<1>10. h \in [0 .. m + 1 -> Nat] /\ h[m + 1] = Len(x) /\ \A i \in 0 .. m : h[i] = f[i]
  BY <1>1, <1>7, <1>9
<1> HIDE DEF h
<1>11. ASSUME NEW i \in 1 .. m + 1
       PROVE  h[i] = h[i - 1] + Len(WordsOf(g[i])) /\ Has(x, h[i - 1], WordsOf(g[i]))
  <2>1. CASE i = m + 1
    <3>1. i - 1 = m /\ m \in 0 .. m
      BY <1>1, <2>1
    <3>2. h[i] = Len(x) /\ h[i - 1] = e /\ WordsOf(g[i]) = d
      BY <1>2, <1>3, <1>7, <1>10, <2>1, <3>1
    <3> QED
      BY <1>6, <3>2
  <2>2. CASE i # m + 1
    <3>1. i \in 1 .. m /\ i \in 0 .. m /\ i - 1 \in 0 .. m
      BY <1>1, <2>2
    <3> DEFINE u == WordsOf(args[i])
    <3>2. h[i] = f[i] /\ h[i - 1] = f[i - 1] /\ WordsOf(g[i]) = u
      BY <1>2, <1>10, <3>1
    <3>3. f[i] = f[i - 1] + Len(u) /\ Has(w, f[i - 1], u)
      BY <1>7, <3>1
    <3>4. f[i] \in Nat /\ f[i - 1] \in Nat /\ f[i] <= e
      BY <1>8, <3>1
    <3>5. Len(u) \in Nat
      <4>1. Legal(args[i][1], args[i][2])
        BY <3>1 DEF Lawful
      <4> QED
        BY <4>1, ArgWordsAre DEF WordsOf
    <3> HIDE DEF u
    <3>6. \A j \in 1 .. Len(u) : f[i - 1] + j \in 1 .. e
      BY <1>4, <3>3, <3>4, <3>5
    <3>7. Has(x, f[i - 1], u)
      BY <1>6, <3>3, <3>6 DEF Has
    <3> QED
      BY <3>2, <3>3, <3>7
  <2> QED
    BY <2>1, <2>2
<1>12. h[0] = first
  BY <1>1, <1>7, <1>10
<1>13. Stretch(x, g, h, first, Len(x))
  BY <1>2, <1>10, <1>11, <1>12 DEF Stretch
<1> QED
  BY <1>13 DEF g, arg, h

(***************************************************************************)
(* The invariant of the stream.                                            *)
(***************************************************************************)

(* Between elements. *)
Between(n, c, P, Q, e, T, M) ==
  /\ Frames(data, n, c, P, Q, e, T, M)
  /\ messageCursor = e /\ elementSize = SlotAt(c, n)
  /\ put = FlattenSeq(P) \o T
  /\ MessagesOf(put) = FlattenSeq(Q) \o M

(* Within a message to a. *)
Within(n, c, P, Q, e, T, M, a, args, f) ==
  /\ Frames(data, n, c, P, Q, e, T, M)
  /\ elementSize = e /\ data[e + 1] = <<"link", SlotAt(c, n)>>
  /\ a \in Strings /\ Has(data, e + 1, TextWords(a))
  /\ messageCursor = e + 1 + Len(TextWords(a))
  /\ Lawful(args) /\ typeTags = Tagged(args)
  /\ Stretch(data, args, f, messageCursor, Len(data))
  /\ put = (FlattenSeq(P) \o T) \o (<< <<"(", a>> >> \o args)
  /\ MessagesOf(put) = FlattenSeq(Q) \o M

(* n bundles are open around the innermost one. *)
Deep(h, n) == Count(h, Len(h), "[") = Count(h, Len(h), "]") + n + 1

(* Every bundle has ended. *)
Ended(h) == ~ (Count(h, Len(h), "[") > Count(h, Len(h), "]"))

(* A bundle is open, and no message in it. *)
OpenBetween ==
  /\ ~inMessage /\ WordsOK(data)
  /\ \E n, c, P, Q, e, T, M : Deep(put, n) /\ Between(n, c, P, Q, e, T, M)

(* A bundle is open, and a message in it. *)
OpenWithin ==
  /\ inMessage /\ WordsOK(data)
  /\ \E n, c, P, Q, e, T, M, a, args, f :
       Deep(put, n) /\ Within(n, c, P, Q, e, T, M, a, args, f)

(* The outermost bundle has ended and reads as what was put. *)
Whole ==
  /\ ~inMessage /\ elementSize = None /\ WordsOK(data)
  /\ ReadsAs(data, 0, messageCursor, put, MessagesOf(put))
  /\ messageCursor >= 1 /\ data[1] = <<"text", "#bundle", 1>>
  /\ Ended(put)

(* What is in the buffer. Nothing before the first call; and as long as    *)
(* the history can still become one bundle, or is one, the words in the    *)
(* buffer are the open bundles one in the other, with the message that is  *)
(* being written, or the bundle as a whole.                                *)
CodecOK ==
  /\ BufferOK /\ IsSeq(put)
  /\ put = <<>> => messageCursor = 0 /\ elementSize = None /\ ~inMessage
  /\ put # <<>> /\ Nested(put) => OpenBetween \/ OpenWithin \/ Whole

(* How the depth follows the brackets that are put. *)
LEMMA DeepGrows ==
  ASSUME NEW h, IsSeq(h), NEW x, NEW g, g = Append(h, x), NEW n \in Nat, Deep(h, n)
  PROVE  /\ x[1] = "[" => Deep(g, n + 1)
         /\ x[1] = "]" /\ n # 0 => Deep(g, n - 1)
         /\ x[1] = "]" /\ n = 0 => Ended(g)
         /\ x[1] # "[" /\ x[1] # "]" => Deep(g, n)
<1> DEFINE o == Count(h, Len(h), "[")
           c == Count(h, Len(h), "]")
           o2 == Count(g, Len(g), "[")
           c2 == Count(g, Len(g), "]")
<1>1. Len(g) = Len(h) + 1
  BY AppendAt
<1>2. o2 = o + (IF x[1] = "[" THEN 1 ELSE 0) /\ o \in Nat
  BY <1>1, CountGrows
<1>3. c2 = c + (IF x[1] = "]" THEN 1 ELSE 0) /\ c \in Nat
  BY <1>1, CountGrows
<1>4. o = c + n + 1
  BY DEF Deep
<1>5. (\A k : Deep(g, k) <=> o2 = c2 + k + 1) /\ (Ended(g) <=> ~ (o2 > c2))
  BY DEF Deep, Ended
<1> HIDE DEF o, c, o2, c2
<1>6. ASSUME x[1] = "[" PROVE o2 = c2 + (n + 1) + 1
  <2>1. x[1] # "]"
    BY <1>6
  <2> QED
    BY <1>2, <1>3, <1>4, <1>6, <2>1
<1>7. ASSUME x[1] = "]" PROVE (n # 0 => o2 = c2 + (n - 1) + 1) /\ (n = 0 => ~ (o2 > c2))
  <2>1. x[1] # "["
    BY <1>7
  <2> QED
    BY <1>2, <1>3, <1>4, <1>7, <2>1
<1>8. ASSUME x[1] # "[", x[1] # "]" PROVE o2 = c2 + n + 1
  BY <1>2, <1>3, <1>4, <1>8
<1> QED
  BY <1>5, <1>6, <1>7, <1>8

(* The history after the first call. *)
LEMMA FirstOpens ==
  ASSUME NEW x, NEW g, g = Append(<<>>, x)
  PROVE  /\ IsSeq(g) /\ g # <<>> /\ g = <<x>>
         /\ x[1] = "[" => Deep(g, 0)
         /\ x[1] # ")" => MessagesOf(g) = <<>>
         /\ Nested(g) => x[1] = "["
<1>1. IsSeq(<<>>) /\ Len(<<>>) = 0
  BY SeqShort
<1> DEFINE z == <<>>
<1>11. IsSeq(z) /\ Len(z) = 0 /\ g = Append(z, x)
  BY <1>1
<1>3. g = <<x>>
  OBVIOUS
<1> HIDE DEF z
<1>12. /\ Append(z, x) = z \o <<x>>
       /\ IsSeq(Append(z, x)) /\ Len(Append(z, x)) = Len(z) + 1
       /\ \A i \in 1 .. Len(z) : Append(z, x)[i] = z[i]
       /\ Append(z, x)[Len(z) + 1] = x
  BY ONLY <1>11, AppendAt
<1>2. /\ IsSeq(g) /\ Len(g) = 1 /\ g[1] = x
  <2>1. 0 + 1 = 1
    OBVIOUS
  <2> QED
    BY ONLY <1>11, <1>12, <2>1
<1>4. \A b : Count(<<>>, 0, b) = 0
  <2>1. \A b : {i \in 1 .. 0 : <<>>[i][1] = b} = {}
    OBVIOUS
  <2> QED
    BY <2>1, FS_EmptySet DEF Count
<1>5. \A b : Count(g, 1, b) = IF x[1] = b THEN 1 ELSE 0
  <2> TAKE b
  <2>0. IsSeq(z)
    BY <1>11
  <2>1. /\ \A k \in 0 .. Len(z) : Count(Append(z, x), k, b) = Count(z, k, b)
        /\ Count(Append(z, x), Len(z) + 1, b)
             = Count(z, Len(z), b) + (IF x[1] = b THEN 1 ELSE 0)
        /\ Count(z, Len(z), b) \in Nat
    BY ONLY <2>0, CountGrows
  <2>2. Count(z, 0, b) = 0
    BY <1>4 DEF z
  <2>3. Count(g, 0 + 1, b) = 0 + (IF x[1] = b THEN 1 ELSE 0)
    BY ONLY <1>11, <2>1, <2>2
  <2> QED
    BY ONLY <2>3
<1>6. x[1] = "[" => Deep(g, 0)
  <2> SUFFICES ASSUME x[1] = "[" PROVE Deep(g, 0)
    OBVIOUS
  <2>1. Count(g, 1, "[") = 1 /\ Count(g, 1, "]") = 0
    BY <1>5
  <2> QED
    BY <1>2, <2>1 DEF Deep
<1>7. MessagesOf(<<>>) = <<>>
  <2> DEFINE A == [k \in 1 .. Len(<<>>) |-> MessageEnding(SubSeq(<<>>, 1, k))]
  <2>1. A = [k \in 1 .. 0 |-> A[k]]
    BY <1>1
  <2>2. MessagesOf(<<>>) = FlattenSeq(A)
    BY DEF MessagesOf
  <2> HIDE DEF A
  <2>3. IsSeq(A) /\ Len(A) = 0
    BY <2>1, MadeAt
  <2>4. A = <<>>
    BY <1>1, <2>3, SameSeq
  <2> QED
    BY <2>2, <2>4, FlattenNone
<1>8. x[1] # ")" => MessagesOf(g) = <<>>
  <2> SUFFICES ASSUME x[1] # ")" PROVE MessagesOf(g) = <<>>
    OBVIOUS
  <2>0. x[1] # ")"
    OBVIOUS
  <2>1. MessagesOf(Append(z, x)) = MessagesOf(z)
    BY ONLY <1>11, <2>0, NoMessageEnds
  <2> QED
    BY <1>7, <1>11, <2>1 DEF z
<1>9. Nested(g) => x[1] = "["
  BY <1>2 DEF Nested
<1>10. g # <<>>
  BY ONLY <1>1, <1>2
<1> QED
  BY <1>2, <1>3, <1>6, <1>8, <1>9, <1>10

(* What is put into a bundle that has ended is no bundle any more. *)
LEMMA StillOpen ==
  ASSUME CodecOK, put # <<>>, NEW x, Nested(Append(put, x))
  PROVE  OpenBetween \/ OpenWithin
<1>1. IsSeq(put) /\ (Nested(put) => OpenBetween \/ OpenWithin \/ Whole)
  BY DEF CodecOK
<1>2. Nested(put) /\ Count(put, Len(put), "[") > Count(put, Len(put), "]")
  BY <1>1, NestedGrows
<1>3. ~ Whole
  BY <1>2 DEF Whole, Ended
<1> QED
  BY <1>1, <1>2, <1>3

(* One call keeps the invariant when what it leaves open is described. *)
LEMMA PutGrows ==
  ASSUME CodecOK, NEW x, put' = Append(put, x), BufferOK',
         Nested(Append(put, x)) => OpenBetween' \/ OpenWithin' \/ Whole'
  PROVE  CodecOK'
<1>1. IsSeq(put) /\ Len(put) \in Nat
  BY SeqLen DEF CodecOK
<1>2. IsSeq(put') /\ Len(put') = Len(put) + 1
  BY <1>1, AppendAt
<1>3. put' # <<>>
  BY <1>1, <1>2, SeqShort
<1> QED
  BY <1>2, <1>3 DEF CodecOK

(* A step that changes nothing keeps it. *)
LEMMA CodecStays ==
  ASSUME CodecOK, UNCHANGED vars
  PROVE  CodecOK'
<1>1. /\ data' = data /\ messageCursor' = messageCursor /\ typeTags' = typeTags
      /\ elementSize' = elementSize /\ inMessage' = inMessage /\ put' = put
  BY DEF vars
<1>2. BufferOK'
  BY UnchangedStep DEF CodecOK
<1>3. OpenBetween => OpenBetween'
  BY <1>1 DEF OpenBetween, Between
<1>4. OpenWithin => OpenWithin'
  <2> SUFFICES ASSUME OpenWithin PROVE OpenWithin'
    OBVIOUS
  <2>1. PICK n, c, P, Q, e, T, M, a, args, f :
               Deep(put, n) /\ Within(n, c, P, Q, e, T, M, a, args, f)
    BY DEF OpenWithin
  <2>2. Within(n, c, P, Q, e, T, M, a, args, f)'
    BY <1>1, <2>1 DEF Within
  <2>3. inMessage' /\ WordsOK(data') /\ Deep(put', n)
    BY <1>1, <2>1 DEF OpenWithin
  <2> QED
    BY <2>2, <2>3 DEF OpenWithin
<1>5. Whole => Whole'
  BY <1>1 DEF Whole
<1> QED
  BY <1>1, <1>2, <1>3, <1>4, <1>5 DEF CodecOK

(* What a step that writes behind messageCursor alone leaves as it was. *)
LEMMA BehindStays ==
  ASSUME CodecOK, ~inMessage, NEW words, WordsOK(words), data' = data \o words,
         UNCHANGED <<messageCursor, elementSize, inMessage, put>>, BufferOK'
  PROVE  CodecOK'
<1>0. BufferOK
  BY DEF CodecOK
<1>1. messageCursor \in Nat /\ messageCursor <= Len(data) /\ Len(data) \in Nat
  BY <1>0, BufferFacts
<1>2. ASSUME WordsOK(data) PROVE WordsOK(data') /\ Agree(data', data, 0, messageCursor)
  <2>1. IsSeq(data) /\ IsSeq(words)
    BY <1>2 DEF WordsOK
  <2>2. \A i \in 1 .. Len(data) : data'[i] = data[i]
    BY <2>1, ConcatAt
  <2>3. WordsOK(data')
    BY <1>2, WordsTogether
  <2> QED
    BY <1>1, <2>2, <2>3 DEF Agree
<1>3. OpenBetween => OpenBetween'
  <2> SUFFICES ASSUME OpenBetween PROVE OpenBetween'
    OBVIOUS
  <2>1. PICK n, c, P, Q, e, T, M : Deep(put, n) /\ Between(n, c, P, Q, e, T, M)
    BY DEF OpenBetween
  <2>2. WordsOK(data') /\ Agree(data', data, 0, messageCursor)
    BY <1>2 DEF OpenBetween
  <2>3. Frames(data, n, c, P, Q, e, T, M) /\ messageCursor = e
    BY <2>1 DEF Between
  <2>4. Frames(data', n, c, P, Q, e, T, M)
    BY <2>2, <2>3, FramesKept
  <2>5. Between(n, c, P, Q, e, T, M)'
    BY <2>1, <2>4 DEF Between
  <2> QED
    BY <2>1, <2>2, <2>5 DEF OpenBetween
<1>4. Whole => Whole'
  <2> SUFFICES ASSUME Whole PROVE Whole'
    OBVIOUS
  <2>1. WordsOK(data') /\ Agree(data', data, 0, messageCursor)
    BY <1>2 DEF Whole
  <2>2. ReadsAs(data', 0, messageCursor, put, MessagesOf(put))
    BY <2>1, ReadsKept DEF Whole
  <2>3. data'[1] = data[1]
    <3>1. 1 \in 0 + 1 .. messageCursor
      BY <1>1 DEF Whole
    <3> QED
      BY <2>1, <3>1 DEF Agree
  <2> QED
    BY <2>1, <2>2, <2>3 DEF Whole
<1>5. ~ OpenWithin
  BY DEF OpenWithin
<1> QED
  BY <1>3, <1>4, <1>5 DEF CodecOK

(* BeginElement: the words behind messageCursor are a slot that links to   *)
(* the one before, and the words of the element.                           *)
LEMMA ElementStarts ==
  ASSUME BufferOK, WordsOK(data), NEW words, WordsOK(words), IsBundleInProgress,
         BeginElement(words)
  PROVE  /\ WordsOK(data') /\ Len(data') = messageCursor + 1 + Len(words)
         /\ elementSize' = messageCursor
         /\ Agree(data', data, 0, messageCursor)
         /\ data'[messageCursor + 1] = <<"link", elementSize>>
         /\ Has(data', messageCursor + 1, words)
<1> DEFINE x == SubSeq(data, 1, messageCursor)
           y == << <<"link", elementSize>> >>
<1>1. messageCursor \in Nat /\ messageCursor <= Len(data) /\ Len(data) \in Nat
  BY BufferFacts
<1>2. data' = x \o y \o words /\ elementSize' = messageCursor
  BY DEF BeginElement
<1>3. WordsOK(x) /\ Len(x) = messageCursor /\ \A i \in 1 .. messageCursor : x[i] = data[i]
  BY <1>1, WordsPart
<1>4. WordsOK(y) /\ Len(y) = 1 /\ y[1] = <<"link", elementSize>>
  BY LinkOK, SeqShort
<1> HIDE DEF x, y
<1>5. /\ WordsOK(data') /\ Len(data') = Len(x) + Len(y) + Len(words)
      /\ \A i \in 1 .. Len(x) : data'[i] = x[i]
      /\ Has(data', Len(x), y)
      /\ Has(data', Len(x) + Len(y), words)
  <2> DEFINE d == data'
  <2>1. WordsOK(x) /\ WordsOK(y) /\ WordsOK(words) /\ Joins(d, x, y, words)
    BY <1>2, <1>3, <1>4 DEF Joins
  <2> HIDE DEF d
  <2>2. /\ WordsOK(d) /\ Len(d) = Len(x) + Len(y) + Len(words)
        /\ Len(x) \in Nat /\ Len(y) \in Nat /\ Len(words) \in Nat
        /\ \A i \in 1 .. Len(x) : d[i] = x[i]
        /\ Has(d, Len(x), y)
        /\ Has(d, Len(x) + Len(y), words)
    BY ONLY <2>1, Joined
  <2> QED
    BY <2>2 DEF d
<1>6. data'[messageCursor + 1] = <<"link", elementSize>>
  BY <1>3, <1>4, <1>5 DEF Has
<1>7. Agree(data', data, 0, messageCursor)
  BY <1>1, <1>3, <1>5 DEF Agree
<1> QED
  BY <1>1, <1>2, <1>3, <1>4, <1>5, <1>6, <1>7

(* The words that BeginBundle writes are the head of a bundle. *)
LEMMA BundleOpens ==
  ASSUME NEW w, NEW b \in Nat, NEW time, Has(w, b, Bundle(time))
  PROVE  Opens(w, b, time)
<1> DEFINE d == Bundle(time)
<1>1. /\ Len(d) = 4 /\ d[1] = <<"text", "#bundle", 1>> /\ d[2] = <<"text", "#bundle", 2>>
      /\ d[3] = <<"num", time, 1>> /\ d[4] = <<"num", time, 2>>
  BY BundleAre
<1> HIDE DEF d
<1>2. \A j \in 1 .. 4 : w[b + j] = d[j]
  BY <1>1 DEF Has, d
<1>3. 1 \in 1 .. 4 /\ 2 \in 1 .. 4 /\ 3 \in 1 .. 4 /\ 4 \in 1 .. 4
  OBVIOUS
<1> QED
  BY <1>1, <1>2, <1>3 DEF Opens

(* What the steps need of the invariant first. *)
LEMMA CodecFacts ==
  ASSUME CodecOK
  PROVE  /\ messageCursor \in Nat /\ messageCursor <= Len(data) /\ Len(data) \in Nat
         /\ IsSeq(put) /\ BufferOK
         /\ put = <<>> => messageCursor = 0 /\ elementSize = None /\ ~inMessage
<1>1. BufferOK
  BY DEF CodecOK
<1> QED
  BY <1>1, BufferFacts DEF CodecOK

(* The slot of an open bundle is a place in the buffer. *)
LEMMA SlotIsPlace ==
  ASSUME NEW w, NEW n, NEW c, NEW P, NEW Q, NEW e, NEW T, NEW M, Frames(w, n, c, P, Q, e, T, M)
  PROVE  SlotAt(c, n) \in Nat
<1>1. /\ n \in Nat /\ e \in Nat
      /\ \A i \in 0 .. n : c[i] \in Nat /\ c[i] + 4 <= e
      /\ \A i \in 1 .. n : c[i - 1] + 5 <= c[i]
  BY FramesRise
<1>2. CASE n = 0
  BY <1>2 DEF SlotAt
<1>3. CASE n # 0
  <2>1. n \in 1 .. n /\ n \in 0 .. n /\ n - 1 \in 0 .. n
    BY <1>1, <1>3
  <2>2. c[n - 1] \in Nat /\ c[n] \in Nat /\ c[n - 1] + 5 <= c[n]
    BY <1>1, <2>1
  <2>3. c[n] - 1 \in Nat
    BY <2>2
  <2> QED
    BY <1>3, <2>3 DEF SlotAt
<1> QED
  BY <1>2, <1>3

(* << BeginBundle: the first, and one within another. *)
LEMMA FirstBundleStep ==
  ASSUME CodecOK, put = <<>>, NEW time, BeginElement(Bundle(time)),
         messageCursor' = Len(data'), put' = Append(put, <<"[", time>>), inMessage' = inMessage,
         BufferOK'
  PROVE  CodecOK'
<1> DEFINE x == <<"[", time>>
           d == data'
           s == SubSeq(data, 1, messageCursor)
           words == Bundle(time)
           t == << <<"[", time>> >>
           c == [i \in 0 .. 0 |-> 0]
<1>1. messageCursor = 0 /\ elementSize = None /\ ~inMessage /\ IsSeq(data)
  BY CodecFacts DEF BufferOK
<1>2. elementSize' = 0 /\ d = s \o <<>> \o words
  BY <1>1 DEF BeginElement, IsBundleInProgress
<1>3. IsSeq(s) /\ Len(s) = 0
  <2>1. BufferOK
    BY CodecFacts
  <2> QED
    BY <1>1, <2>1, BufferFacts
<1>4. WordsOK(words) /\ Len(words) = 4
  BY BundleAre
<1> DEFINE y == <<>>
<1>5. IsSeq(y) /\ Len(y) = 0 /\ Joins(d, s, y, words)
  BY <1>2, SeqShort DEF Joins
<1> HIDE DEF s, d, words, y
<1>6. WordsOK(s) /\ WordsOK(y)
  BY <1>3, <1>5 DEF WordsOK
<1>7. /\ WordsOK(d) /\ Len(d) = Len(s) + Len(y) + Len(words)
      /\ Len(s) \in Nat /\ Len(y) \in Nat /\ Len(words) \in Nat
      /\ \A i \in 1 .. Len(s) : d[i] = s[i]
      /\ Has(d, Len(s), y)
      /\ Has(d, Len(s) + Len(y), words)
  BY ONLY <1>4, <1>5, <1>6, Joined
<1>8. Len(d) = 4 /\ Has(d, 0, words)
  BY <1>3, <1>4, <1>5, <1>7
<1> DEFINE b == 0
<1>9. b \in Nat /\ Has(d, b, Bundle(time)) /\ b + 4 = 4
  BY <1>8 DEF words
<1> HIDE DEF b
<1>10. Opens(d, b, time)
  BY ONLY <1>9, BundleOpens
<1>11. Partial(d, b, b + 4, << <<"[", time>> >>, <<>>)
  BY ONLY <1>9, <1>10, PartialStarts
<1>12. Partial(d, 0, 4, t, <<>>)
  BY <1>9, <1>11 DEF b
<1>13. c \in [0 .. 0 -> Nat] /\ c[0] = 0
  OBVIOUS
<1> HIDE DEF c, t
<1>14. Frames(d, 0, c, <<>>, <<>>, 4, t, <<>>)
  <2>1. AllSeqs(<<>>) /\ Len(<<>>) = 0
    BY FlattenNone
  <2>2. Below(d, 0, c, <<>>, <<>>)
    BY <1>13, <2>1 DEF Below
  <2> QED
    BY <1>12, <1>13, <2>2 DEF Frames
<1> DEFINE g == put'
<1>15. g = Append(<<>>, x) /\ x[1] = "["
  OBVIOUS
<1> HIDE DEF g, x
<1>16. x[1] # ")"
  BY <1>15
<1>17. g = <<x>> /\ Deep(g, 0) /\ MessagesOf(g) = <<>>
  BY ONLY <1>15, <1>16, FirstOpens
<1>18. Between(0, c, <<>>, <<>>, 4, t, <<>>)'
  <2>1. SlotAt(c, 0) = 0
    BY DEF SlotAt
  <2>2. FlattenSeq(<<>>) = <<>>
    BY FlattenNone
  <2>3. g = FlattenSeq(<<>>) \o t
    BY <1>17, <2>2 DEF x, t
  <2>4. MessagesOf(g) = FlattenSeq(<<>>) \o <<>>
    BY <1>17, <2>2
  <2> QED
    BY <1>2, <1>8, <1>14, <2>1, <2>3, <2>4 DEF Between, d, g
<1>19. OpenBetween'
  BY <1>1, <1>7, <1>17, <1>18 DEF OpenBetween, d, g
<1> QED
  BY <1>19, PutGrows DEF x

(* << BeginBundle within another bundle. *)
LEMMA NextBundleStep ==
  ASSUME CodecOK, put # <<>>, ~inMessage, NEW time, BeginElement(Bundle(time)),
         messageCursor' = Len(data'), put' = Append(put, <<"[", time>>), inMessage' = inMessage,
         BufferOK'
  PROVE  CodecOK'
<1> DEFINE x == <<"[", time>>
           y == data'
           words == Bundle(time)
           t == << <<"[", time>> >>
<1>0. x[1] = "[" /\ x[1] # ")" /\ put' = Append(put, x)
  OBVIOUS
<1> HIDE DEF x
<1> SUFFICES ASSUME Nested(Append(put, x)) PROVE OpenBetween'
  BY <1>0, PutGrows
<1>1. OpenBetween
  BY StillOpen DEF OpenWithin
<1>2. PICK n, c, P, Q, e, T, M : Deep(put, n) /\ Between(n, c, P, Q, e, T, M)
  BY <1>1 DEF OpenBetween
<1>3. /\ Frames(data, n, c, P, Q, e, T, M) /\ messageCursor = e /\ elementSize = SlotAt(c, n)
      /\ put = FlattenSeq(P) \o T /\ MessagesOf(put) = FlattenSeq(Q) \o M
  BY <1>2 DEF Between
<1>4. /\ n \in Nat /\ e \in Nat /\ IsSeq(T) /\ IsSeq(M)
      /\ \A i \in 0 .. n : c[i] \in Nat /\ c[i] + 4 <= e
      /\ \A i \in 1 .. n : c[i - 1] + 5 <= c[i]
  BY <1>3, FramesRise
<1>5. SlotAt(c, n) \in Nat
  BY <1>3, SlotIsPlace
<1>6. IsBundleInProgress
  BY <1>3, <1>5 DEF IsBundleInProgress, None
<1>7. BufferOK /\ WordsOK(data) /\ WordsOK(words) /\ Len(words) = 4
  BY <1>1, CodecFacts, BundleAre DEF OpenBetween
<1>8. /\ WordsOK(y) /\ Len(y) = e + 1 + Len(words)
      /\ elementSize' = e
      /\ Agree(y, data, 0, e)
      /\ y[e + 1] = <<"link", SlotAt(c, n)>>
      /\ Has(y, e + 1, words)
  BY <1>3, <1>6, <1>7, ElementStarts
<1> HIDE DEF y
<1>9. Frames(y, n, c, P, Q, e, T, M)
  BY ONLY <1>3, <1>8, FramesKept
<1> DEFINE b == e + 1
<1>10. b \in Nat /\ Has(y, b, Bundle(time))
  BY <1>4, <1>8
<1> HIDE DEF b, words
<1>11. Opens(y, b, time)
  BY ONLY <1>10, BundleOpens
<1>12. Opens(y, e + 1, time)
  BY <1>11 DEF b
<1>22. Begun(y, n, c, e, time)
  BY <1>8, <1>12 DEF Begun
<1>23. /\ Frames(y, n + 1, Deeper(c, n, e), Append(P, T), Append(Q, M),
                 e + 5, << <<"[", time>> >>, <<>>)
       /\ SlotAt(Deeper(c, n, e), n + 1) = e
       /\ FlattenSeq(Append(P, T)) = FlattenSeq(P) \o T
       /\ FlattenSeq(Append(Q, M)) = FlattenSeq(Q) \o M
  BY ONLY <1>9, <1>22, FramesPush
<1> DEFINE d == Deeper(c, n, e)
<1>13. /\ Frames(y, n + 1, d, Append(P, T), Append(Q, M), e + 5, t, <<>>)
       /\ SlotAt(d, n + 1) = e
       /\ FlattenSeq(Append(P, T)) = FlattenSeq(P) \o T
       /\ FlattenSeq(Append(Q, M)) = FlattenSeq(Q) \o M
  BY ONLY <1>23
<1> DEFINE g == put'
<1>14. IsSeq(put) /\ g = Append(put, x)
  BY <1>0, CodecFacts
<1> HIDE DEF d, g
<1>15. Deep(g, n + 1)
  BY <1>0, <1>2, <1>4, <1>14, DeepGrows
<1>16. MessagesOf(g) = MessagesOf(put)
  BY <1>0, <1>14, NoMessageEnds
<1>17. g = (FlattenSeq(P) \o T) \o t
  <2>1. Append(put, x) = put \o <<x>>
    BY <1>14, AppendAt
  <2> QED
    BY <1>3, <1>14, <2>1 DEF x
<1>18. MessagesOf(g) = (FlattenSeq(Q) \o M) \o <<>>
  <2> DEFINE z == MessagesOf(g)
  <2>1. z = FlattenSeq(Q) \o M
    BY <1>3, <1>16
  <2>2. IsSeq(MessagesOf(put))
    BY <1>14, MessagesGrow
  <2>3. PICK V : z \in Seq(V)
    BY <1>16, <2>2 DEF IsSeq
  <2> HIDE DEF z
  <2>4. z \o <<>> = z
    BY <2>3
  <2> QED
    BY <2>1, <2>4 DEF z
<1>19. Len(y) = e + 5
  BY <1>4, <1>7, <1>8 DEF words
<1> DEFINE P2 == Append(P, T)
           Q2 == Append(Q, M)
           k == n + 1
           r == e + 5
<1>20. /\ Frames(y, k, d, P2, Q2, r, t, <<>>)
       /\ Len(y) = r /\ elementSize' = SlotAt(d, k)
       /\ g = FlattenSeq(P2) \o t /\ MessagesOf(g) = FlattenSeq(Q2) \o <<>> /\ Deep(g, k)
  BY <1>8, <1>13, <1>15, <1>17, <1>18, <1>19
<1> HIDE DEF P2, Q2, k, r
<1>21. Between(k, d, P2, Q2, r, t, <<>>)'
  BY <1>20 DEF Between, y, g
<1> QED
  BY <1>8, <1>20, <1>21 DEF OpenBetween, y, g

(* << BeginBundle keeps the invariant. *)
LEMMA BundleBeginsStep ==
  ASSUME CodecOK, NEW time, BundleInitiator(time)
  PROVE  CodecOK'
<1>1. CASE UNCHANGED vars
  BY <1>1, CodecStays
<1>2. CASE ~ UNCHANGED vars
  <2>1. /\ ~inMessage /\ BeginElement(Bundle(time)) /\ messageCursor' = Len(data')
        /\ put' = Append(put, <<"[", time>>) /\ inMessage' = inMessage
    BY <1>2 DEF BundleInitiator, Throw, IsMessageInProgress
  <2>2. BufferOK'
    BY CodecFacts, BeginBundleStep
  <2>3. CASE put = <<>>
    BY <2>1, <2>2, <2>3, FirstBundleStep
  <2>4. CASE put # <<>>
    BY <2>1, <2>2, <2>4, NextBundleStep
  <2> QED
    BY <2>3, <2>4
<1> QED
  BY <1>1, <1>2

(* << EndBundle *)
LEMMA BundleEndsStep ==
  ASSUME CodecOK, ~inMessage, elementSize # None, EndElement(data, messageCursor),
         put' = Append(put, <<"]">>), messageCursor' = messageCursor, inMessage' = inMessage,
         BufferOK'
  PROVE  CodecOK'
<1> DEFINE x == <<"]">>
           y == data'
           words == data
           close == << <<"]">> >>
<1>0. x[1] = "]" /\ x[1] # ")" /\ x[1] # "[" /\ put' = Append(put, x) /\ close = <<x>>
  OBVIOUS
<1> HIDE DEF x, close
<1> SUFFICES ASSUME Nested(Append(put, x)) PROVE OpenBetween' \/ Whole'
  BY <1>0, PutGrows
<1>1. OpenBetween
  <2>1. put # <<>>
    BY CodecFacts
  <2> QED
    BY <2>1, StillOpen DEF OpenWithin
<1>2. PICK n, c, P, Q, e, T, M : Deep(put, n) /\ Between(n, c, P, Q, e, T, M)
  BY <1>1 DEF OpenBetween
<1>3. /\ Frames(data, n, c, P, Q, e, T, M) /\ messageCursor = e /\ elementSize = SlotAt(c, n)
      /\ put = FlattenSeq(P) \o T /\ MessagesOf(put) = FlattenSeq(Q) \o M
  BY <1>2 DEF Between
<1>4. /\ n \in Nat /\ e \in Nat /\ IsSeq(T) /\ IsSeq(M)
      /\ \A i \in 0 .. n : c[i] \in Nat /\ c[i] + 4 <= e
      /\ \A i \in 1 .. n : c[i - 1] + 5 <= c[i]
  BY <1>3, FramesRise
<1>5. WordsOK(data) /\ e <= Len(data) /\ IsSeq(put)
  BY <1>1, <1>3, CodecFacts DEF OpenBetween
<1>6. WordsOK(words) /\ e <= Len(words) /\ \A i \in 1 .. e : words[i] = data[i]
  BY <1>5
<1>7. Below(data, n, c, P, Q) /\ Partial(data, c[n], e, T, M)
  BY <1>3 DEF Frames
<1>8. EndElement(words, e)
  BY <1>3
<1> HIDE DEF words, y
<1> DEFINE g == put'
<1>9. g = Append(put, x)
  BY <1>0
<1>10. g = put \o close
  <2>1. Append(put, x) = put \o <<x>>
    BY <1>5, AppendAt
  <2> QED
    BY <1>0, <1>9, <2>1
<1> HIDE DEF g
<1>11. MessagesOf(g) = MessagesOf(put)
  BY <1>0, <1>5, <1>9, NoMessageEnds
<1>12. (n # 0 => Deep(g, n - 1)) /\ (n = 0 => Ended(g))
  BY <1>0, <1>2, <1>4, <1>5, <1>9, DeepGrows
<1>13. CASE n = 0
  <2>1. elementSize = 0
    BY <1>3, <1>13 DEF SlotAt
  <2>2. elementSize' = None /\ y = words
    BY <1>8, <2>1 DEF EndElement, y
  <2>3. c[0] = 0 /\ P = <<>> /\ Q = <<>>
    <3>1. c[0] = 0 /\ IsSeq(P) /\ Len(P) = 0 /\ IsSeq(Q) /\ Len(Q) = 0
      BY <1>7, <1>13 DEF Below, AllSeqs
    <3> QED
      BY <3>1, SeqShort, SameSeq
  <2>4. Partial(data, 0, e, T, M)
    BY <1>7, <1>13, <2>3
  <2>5. ReadsAs(data, 0, e, T \o << <<"]">> >>, M)
    BY <2>4, PartialReads
  <2>6. put = T /\ MessagesOf(put) = M
    <3>1. PICK V : T \in Seq(V)
      BY <1>4 DEF IsSeq
    <3>2. PICK W : M \in Seq(W)
      BY <1>4 DEF IsSeq
    <3>3. <<>> \o T = T /\ <<>> \o M = M
      BY <3>1, <3>2
    <3> QED
      BY <1>3, <2>3, <3>3, FlattenNone
  <2>7. ReadsAs(data, 0, e, g, MessagesOf(g))
    BY <1>10, <1>11, <2>5, <2>6 DEF close
  <2>8. Agree(y, data, 0, e)
    BY <1>6, <2>2 DEF Agree
  <2>9. ReadsAs(y, 0, e, g, MessagesOf(g))
    BY ONLY <2>7, <2>8, ReadsKept
  <2>10. WordsOK(y)
    BY <1>6, <2>2
  <2>11. e >= 1 /\ y[1] = <<"text", "#bundle", 1>>
    <3>1. e >= 4
      <4>1. c[0] \in Nat /\ c[0] + 4 <= e
        BY <1>4, <1>13
      <4> QED
        BY <1>4, <2>3, <4>1
    <3>2. \E time : Opens(data, 0, time)
      BY <2>4 DEF Partial, PartialBy
    <3>3. 0 + 1 = 1 /\ 1 \in 1 .. e
      BY <1>4, <3>1
    <3>4. data[1] = <<"text", "#bundle", 1>>
      BY <3>2, <3>3 DEF Opens
    <3> QED
      BY <1>4, <1>6, <2>2, <3>1, <3>3, <3>4
  <2> QED
    BY <1>3, <1>12, <1>13, <2>2, <2>9, <2>10, <2>11 DEF Whole, y, g
<1>14. CASE n # 0
  <2> DEFINE s == c[n] - 1
             m == 4 * (e - c[n])
             k == c[n]
  <2>1. n \in 1 .. n /\ n \in 0 .. n /\ n - 1 \in 0 .. n /\ n - 1 \in Nat /\ n - 1 \in 0 .. n - 1
    BY <1>4, <1>14
  <2>2. c[n - 1] \in Nat /\ k \in Nat /\ c[n - 1] + 5 <= k /\ k + 4 <= e
    BY <1>4, <2>1
  <2>3. elementSize = s /\ s # 0 /\ s + 1 = k /\ m \in Nat
        /\ 4 * (e - s) - 4 = m /\ k \in 1 .. e
    <3>1. elementSize = s
      BY <1>3, <1>14 DEF SlotAt
    <3>2. s \in Nat /\ s # 0 /\ s + 1 = k
      BY <2>2
    <3>3. m = 4 * (e - k) /\ m \in Nat
      BY <1>4, <2>2
    <3>4. e - s = e - k + 1
      BY <1>4, <2>2
    <3>5. k \in 1 .. e
      BY <1>4, <2>2
    <3> DEFINE r == e - k
    <3>6. r \in Nat /\ m = 4 * r /\ e - s = r + 1
      BY <1>4, <2>2, <3>3, <3>4
    <3> HIDE DEF r, s, m
    <3>7. 4 * (e - s) - 4 = m
      BY ONLY <3>6
    <3> QED
      BY ONLY <3>1, <3>2, <3>3, <3>5, <3>7
  <2>4. words[k] = <<"link", SlotAt(c, n - 1)>>
    BY <1>6, <1>7, <2>1, <2>3 DEF Below
  <2> HIDE DEF s, m, k
  <2>5. elementSize' = words[k][2] /\ y = [words EXCEPT ![k] = <<"size", m>>]
    BY <1>6, <1>8, <2>3 DEF EndElement, y
  <2>6. elementSize' = SlotAt(c, n - 1)
    BY <2>4, <2>5
  <2>7. /\ WordsOK(y) /\ Len(y) = Len(words)
        /\ \A j \in 1 .. e : y[j] = IF j = k THEN <<"size", m>> ELSE words[j]
    <3>1. WordsOK(words) /\ m \in Nat /\ Resized(y, words, k, m)
      BY <1>6, <2>3, <2>5 DEF Resized
    <3>2. /\ WordsOK(y) /\ Len(y) = Len(words)
          /\ \A j \in 1 .. Len(words) : y[j] = IF j = k THEN <<"size", m>> ELSE words[j]
      BY ONLY <3>1, WordsSet
    <3>3. Len(words) \in Nat /\ \A j \in 1 .. e : j \in 1 .. Len(words)
      BY <1>4, <1>6, SeqLen DEF WordsOK
    <3> QED
      BY <3>2, <3>3
  <2>8. y[c[n]] = <<"size", 4 * (e - c[n])>> /\ \A j \in 1 .. e : j # c[n] => y[j] = data[j]
    BY <1>6, <2>3, <2>7 DEF k, m
  <2>15. Frames(data, n, c, P, Q, e, T, M) /\ n # 0
    BY <1>3, <1>14
  <2>14. Closed(y, data, n, c, e)
    BY <2>8 DEF Closed
  <2>9. Popped(y, n, c, P, Q, e, T, M)
    BY ONLY <2>14, <2>15, FramesPop
  <2> DEFINE d == Shallower(c, n)
  <2>10. PICK R, S, U, N :
           /\ Frames(y, n - 1, d, R, S, e, U, N)
           /\ FlattenSeq(R) \o U = (FlattenSeq(P) \o T) \o << <<"]">> >>
           /\ FlattenSeq(S) \o N = FlattenSeq(Q) \o M
    BY <2>9 DEF Popped
  <2>11. d[n - 1] = c[n - 1]
    BY <2>1 DEF Shallower
  <2> HIDE DEF d
  <2>12. SlotAt(d, n - 1) = SlotAt(c, n - 1)
    BY <2>11 DEF SlotAt
  <2>13. Between(n - 1, d, R, S, e, U, N)'
    <3>1. g = FlattenSeq(R) \o U /\ MessagesOf(g) = FlattenSeq(S) \o N
      BY <1>3, <1>10, <1>11, <2>10 DEF close, x
    <3>2. messageCursor' = e
      BY <1>3
    <3> QED
      BY <2>6, <2>10, <2>12, <3>1, <3>2 DEF Between, y, g
  <2> QED
    BY <1>12, <1>14, <2>7, <2>13 DEF OpenBetween, y, g
<1> QED
  BY <1>13, <1>14

(* << EndBundle keeps the invariant, whether the stream throws or not. *)
LEMMA BundleTerminatorStep ==
  ASSUME CodecOK, BundleTerminator
  PROVE  CodecOK'
<1>1. CASE UNCHANGED vars
  BY <1>1, CodecStays
<1>2. CASE ~ UNCHANGED vars
  <2>1. /\ ~inMessage /\ elementSize # None /\ EndElement(data, messageCursor)
        /\ put' = Append(put, <<"]">>) /\ messageCursor' = messageCursor /\ inMessage' = inMessage
    BY <1>2 DEF BundleTerminator, Throw, IsMessageInProgress, IsBundleInProgress
  <2>2. BufferOK'
    BY CodecFacts, EndBundleStep
  <2> QED
    BY <2>1, <2>2, BundleEndsStep
<1> QED
  BY <1>1, <1>2

(* No arguments yet. *)
LEMMA NoArguments ==
  ASSUME NEW w, NEW first \in Nat
  PROVE  /\ Lawful(<<>>) /\ Tagged(<<>>) = <<>>
         /\ Stretch(w, <<>>, [i \in 0 .. 0 |-> first], first, first)
<1> DEFINE z == <<>>
           f == [i \in 0 .. 0 |-> first]
<1>1. IsSeq(z) /\ Len(z) = 0
  BY SeqShort
<1>2. f \in [0 .. 0 -> Nat] /\ f[0] = first
  OBVIOUS
<1> HIDE DEF z, f
<1>3. Lawful(z)
  BY <1>1 DEF Lawful
<1>4. IsSeq(Tagged(z)) /\ Len(Tagged(z)) = Len(z)
  BY <1>3, TaggedAre
<1>5. Tagged(z) = z
  BY <1>1, <1>4, SameSeq
<1>6. Stretch(w, z, f, first, first)
  BY <1>1, <1>2 DEF Stretch
<1> QED
  BY <1>3, <1>5, <1>6 DEF z, f

(* The arguments, moved up. *)
LEMMA StretchMoves ==
  ASSUME NEW w, NEW args, Lawful(args), NEW f, NEW first, NEW e, Stretch(w, args, f, first, e),
         NEW K \in Nat, NEW v, \A r \in first + 1 .. e : v[K + r] = w[r]
  PROVE  \E h : Stretch(v, args, h, first + K, e + K)
<1> DEFINE m == Len(args)
           h == [i \in 0 .. m |-> f[i] + K]
<1>1. IsSeq(args) /\ m \in Nat
  BY SeqLen DEF Lawful
<1>2. /\ f \in [0 .. m -> Nat] /\ f[0] = first /\ f[m] = e
      /\ \A i \in 1 .. m : f[i] = f[i - 1] + Len(WordsOf(args[i])) /\ Has(w, f[i - 1], WordsOf(args[i]))
  BY DEF Stretch
<1>3. /\ \A i \in 0 .. m : f[i] \in Nat /\ first <= f[i] /\ f[i] <= e
      /\ first \in Nat /\ e \in Nat
  BY StretchRises
<1> HIDE DEF m
<1>4. h \in [0 .. m -> Nat] /\ \A i \in 0 .. m : h[i] = f[i] + K
  BY <1>3
<1> HIDE DEF h
<1>5. h[0] = first + K /\ h[m] = e + K
  BY <1>1, <1>2, <1>4
<1>6. ASSUME NEW i \in 1 .. m
      PROVE  h[i] = h[i - 1] + Len(WordsOf(args[i])) /\ Has(v, h[i - 1], WordsOf(args[i]))
  <2> DEFINE u == WordsOf(args[i])
             p == f[i - 1]
  <2>1. i \in 0 .. m /\ i - 1 \in 0 .. m
    BY <1>1
  <2>2. f[i] = p + Len(u) /\ Has(w, p, u)
    BY <1>2
  <2>3. f[i] \in Nat /\ p \in Nat /\ first <= p /\ f[i] <= e /\ h[i] = f[i] + K /\ h[i - 1] = p + K
    BY <1>3, <1>4, <2>1
  <2>4. Len(u) \in Nat
    <3>1. Legal(args[i][1], args[i][2])
      BY DEF Lawful, m
    <3> QED
      BY <3>1, ArgWordsAre DEF WordsOf
  <2> HIDE DEF u, p
  <2>5. h[i] = h[i - 1] + Len(u)
    BY <2>2, <2>3, <2>4
  <2>6. ASSUME NEW j \in 1 .. Len(u) PROVE v[p + K + j] = u[j]
    <3>1. p + j \in first + 1 .. e /\ K + (p + j) = p + K + j
      BY <1>3, <2>2, <2>3, <2>4
    <3>2. v[K + (p + j)] = w[p + j]
      BY <3>1
    <3> QED
      BY <2>2, <3>1, <3>2 DEF Has
  <2>7. Has(v, h[i - 1], u)
    BY <2>3, <2>6 DEF Has
  <2> QED
    BY <2>5, <2>7 DEF u
<1>7. Stretch(v, args, h, first + K, e + K)
  BY <1>4, <1>5, <1>6 DEF Stretch, m
<1> QED
  BY <1>7

(* << BeginMessage *)
LEMMA MessageBegins ==
  ASSUME CodecOK, ~inMessage, NEW a \in Strings, BeginElement(TextWords(a)),
         messageCursor' = Len(data'), typeTags' = <<>>, inMessage' = TRUE,
         put' = Append(put, <<"(", a>>), BufferOK'
  PROVE  CodecOK'
<1> DEFINE x == <<"(", a>>
           y == data'
           words == TextWords(a)
           t == << <<"(", a>> >>
<1>0. x[1] = "(" /\ x[1] # "[" /\ x[1] # "]" /\ x[1] # ")" /\ put' = Append(put, x) /\ t = <<x>>
  OBVIOUS
<1> HIDE DEF x
<1> SUFFICES ASSUME Nested(Append(put, x)) PROVE OpenWithin'
  BY <1>0, PutGrows
<1>1. OpenBetween
  <2>1. put # <<>>
    <3> SUFFICES ASSUME put = <<>> PROVE FALSE
      OBVIOUS
    <3>1. Nested(Append(<<>>, x))
      OBVIOUS
    <3> QED
      BY <1>0, <3>1, FirstOpens
  <2> QED
    BY <2>1, StillOpen DEF OpenWithin
<1>2. PICK n, c, P, Q, e, T, M : Deep(put, n) /\ Between(n, c, P, Q, e, T, M)
  BY <1>1 DEF OpenBetween
<1>3. /\ Frames(data, n, c, P, Q, e, T, M) /\ messageCursor = e /\ elementSize = SlotAt(c, n)
      /\ put = FlattenSeq(P) \o T /\ MessagesOf(put) = FlattenSeq(Q) \o M
  BY <1>2 DEF Between
<1>4. n \in Nat /\ e \in Nat
  BY <1>3, FramesRise
<1>5. IsBundleInProgress
  <2>1. SlotAt(c, n) \in Nat
    BY <1>3, SlotIsPlace
  <2> QED
    BY <1>3, <2>1 DEF IsBundleInProgress, None
<1>6. a \in DOMAIN TextLength
  BY DEF Strings
<1>7. BufferOK /\ WordsOK(data) /\ WordsOK(words) /\ IsSeq(put)
  BY <1>1, <1>6, CodecFacts, TextOK DEF OpenBetween
<1>8. /\ WordsOK(y) /\ Len(y) = e + 1 + Len(words)
      /\ elementSize' = e
      /\ Agree(y, data, 0, e)
      /\ y[e + 1] = <<"link", SlotAt(c, n)>>
      /\ Has(y, e + 1, words)
  BY <1>3, <1>5, <1>7, ElementStarts
<1> DEFINE first == Len(y)
<1>9. first \in Nat
  BY <1>8, SeqLen DEF WordsOK
<1>10. messageCursor' = first
  OBVIOUS
<1> HIDE DEF y, words, first
<1>11. Frames(y, n, c, P, Q, e, T, M)
  <2>1. Frames(data, n, c, P, Q, e, T, M)
    BY <1>3
  <2> QED
    BY ONLY <1>8, <2>1, FramesKept
<1>12. /\ Lawful(<<>>) /\ Tagged(<<>>) = <<>>
       /\ Stretch(y, <<>>, [i \in 0 .. 0 |-> first], first, first)
  BY ONLY <1>9, NoArguments
<1>13. PICK f : Stretch(y, <<>>, f, first, first)
  BY <1>12
<1> DEFINE g == put'
<1>14. g = Append(put, x)
  BY <1>0
<1> HIDE DEF g
<1>15. Deep(g, n)
  BY <1>0, <1>2, <1>4, <1>7, <1>14, DeepGrows
<1>16. MessagesOf(g) = FlattenSeq(Q) \o M
  <2>1. MessagesOf(g) = MessagesOf(put)
    BY <1>0, <1>7, <1>14, NoMessageEnds
  <2> QED
    BY <1>3, <2>1
<1>17. g = (FlattenSeq(P) \o T) \o (t \o <<>>)
  <2>1. Append(put, x) = put \o <<x>>
    BY <1>7, AppendAt
  <2>2. t \o <<>> = t
    OBVIOUS
  <2> QED
    BY <1>0, <1>3, <1>14, <2>1, <2>2
<1>18. Within(n, c, P, Q, e, T, M, a, <<>>, f)'
  BY <1>8, <1>10, <1>11, <1>12, <1>13, <1>16, <1>17 DEF Within, y, g, words, first
<1> QED
  BY <1>8, <1>15, <1>18 DEF OpenWithin, y, g

(* << BeginMessage keeps the invariant, whether the stream throws or not. *)
LEMMA MessageBeginsStep ==
  ASSUME CodecOK, NEW a \in Strings, BeginMessage(a)
  PROVE  CodecOK'
<1>1. CASE UNCHANGED vars
  BY <1>1, CodecStays
<1>2. CASE ~ UNCHANGED vars
  <2>1. /\ ~inMessage /\ BeginElement(TextWords(a)) /\ messageCursor' = Len(data')
        /\ typeTags' = <<>> /\ inMessage' = TRUE /\ put' = Append(put, <<"(", a>>)
    BY <1>2 DEF BeginMessage, Throw, IsMessageInProgress
  <2>2. BufferOK'
    <3>1. a \in DOMAIN TextLength
      BY DEF Strings
    <3> QED
      BY <3>1, CodecFacts, BeginMessageStep
  <2> QED
    BY <2>1, <2>2, MessageBegins
<1> QED
  BY <1>1, <1>2

(* << EndMessage, for the words: the tags are put in front of the arguments, *)
(* and the slot gets the message's size.                                     *)
Ending(y, d, words, mc, tags, e) ==
  /\ Joins(words, SubSeq(d, 1, mc), TagWords(tags), SubSeq(d, mc + 1, Len(d)))
  /\ Resized(y, words, e + 1, 4 * (Len(words) - e) - 4)

(* A message to a that is being written behind the slot at e. *)
Writing(d, e, a, mc, args, f) ==
  /\ WordsOK(d) /\ e \in Nat /\ a \in Strings /\ Has(d, e + 1, TextWords(a))
  /\ mc = e + 1 + Len(TextWords(a)) /\ mc <= Len(d)
  /\ Lawful(args) /\ Stretch(d, args, f, mc, Len(d))

(* The words of y from e on are an element that reads as the message. *)
Finished(y, d, words, e, a, args) ==
  /\ WordsOK(y) /\ Len(y) = Len(words) /\ Agree(y, d, 0, e)
  /\ words[e + 1] = d[e + 1]
  /\ Element(y, e, Len(words),
             << <<"(", a>> >> \o args \o << <<")">> >>, << <<a, args>> >>)

(* The words of a message whose tags have been put in are an element. *)
LEMMA MessageFinished ==
  ASSUME NEW d, NEW e, NEW a, NEW mc, NEW args, NEW f, Writing(d, e, a, mc, args, f),
         NEW y, NEW words, Ending(y, d, words, mc, Tagged(args), e)
  PROVE  Finished(y, d, words, e, a, args)
<1> DEFINE tags == Tagged(args)
           x == SubSeq(d, 1, mc)
           u == TagWords(tags)
           z == SubSeq(d, mc + 1, Len(d))
           t == TextWords(a)
           K == Len(u)
           L == Len(d)
           E == Len(words)
           size == 4 * (Len(words) - e) - 4
           p == e + 1
<1>0. /\ WordsOK(d) /\ e \in Nat /\ a \in Strings /\ Has(d, e + 1, TextWords(a))
      /\ mc = e + 1 + Len(TextWords(a)) /\ mc <= Len(d)
      /\ Lawful(args) /\ Stretch(d, args, f, mc, Len(d))
  BY DEF Writing
<1>1. IsSeq(tags) /\ a \in DOMAIN TextLength
  BY <1>0, TaggedAre DEF Strings
<1>2. WordsOK(u) /\ K \in Nat /\ K >= 1
  BY <1>1, TagsOK, TagsAre
<1>3. Len(t) \in Nat /\ Len(t) >= 1
  BY <1>1, TextAre
<1>4. L \in Nat /\ mc \in Nat
  BY <1>0, <1>3, SeqLen DEF WordsOK
<1>5. WordsOK(x) /\ Len(x) = mc /\ \A i \in 1 .. mc : x[i] = d[i]
  BY <1>0, <1>4, WordsPart
<1>6. WordsOK(z) /\ Len(z) = L - mc /\ \A i \in 1 .. L - mc : z[i] = d[mc + i]
  BY <1>0, <1>4, WordsRest
<1>7. Joins(words, x, u, z) /\ Resized(y, words, p, size)
  BY DEF Ending
<1> HIDE DEF tags, x, u, z, t, size
<1>8. /\ WordsOK(words) /\ Len(words) = Len(x) + Len(u) + Len(z)
      /\ Len(x) \in Nat /\ Len(u) \in Nat /\ Len(z) \in Nat
      /\ \A i \in 1 .. Len(x) : words[i] = x[i]
      /\ Has(words, Len(x), u)
      /\ Has(words, Len(x) + Len(u), z)
  BY ONLY <1>2, <1>5, <1>6, <1>7, Joined
<1> HIDE DEF K, L, E, p
<1>9. E = L + K /\ E \in Nat /\ K = Len(u)
  BY <1>2, <1>4, <1>5, <1>6, <1>8 DEF K, E
<1>10. /\ \A i \in 1 .. mc : words[i] = d[i]
       /\ \A i \in 1 .. K : words[mc + i] = u[i]
       /\ \A i \in 1 .. L - mc : words[mc + K + i] = d[mc + i]
  BY <1>5, <1>6, <1>8, <1>9 DEF Has
<1>11. e \in Nat /\ p \in Nat /\ p = e + 1 /\ mc = p + Len(t) /\ p < mc /\ mc <= L /\ p \in 1 .. mc /\ p \in 1 .. E
  BY <1>0, <1>2, <1>3, <1>4, <1>9 DEF p, t, L
<1>12. size \in Nat /\ size = 4 * (E - e - 1)
  <2>0. e \in Nat /\ E \in Nat /\ e + 1 <= E
    BY <1>9, <1>11
  <2>1. E - e - 1 \in Nat
    BY ONLY <2>0
  <2>2. size = 4 * (E - e) - 4
    BY DEF size, E
  <2> DEFINE r == E - e - 1
  <2>3. E - e = r + 1 /\ r \in Nat
    BY ONLY <2>0
  <2> HIDE DEF r
  <2>4. size = 4 * r /\ size \in Nat
    BY ONLY <2>2, <2>3
  <2> QED
    BY <2>4 DEF r
<1>13. /\ WordsOK(y) /\ Len(y) = Len(words)
       /\ \A j \in 1 .. Len(words) : y[j] = IF j = p THEN <<"size", size>> ELSE words[j]
  <2>1. WordsOK(words) /\ size \in Nat /\ Resized(y, words, p, size)
    BY <1>7, <1>8, <1>12
  <2> QED
    BY ONLY <2>1, WordsSet
<1>14. y[p] = <<"size", size>> /\ \A j \in 1 .. E : j # p => y[j] = words[j]
  BY <1>11, <1>13 DEF E
<1>15. Agree(y, d, 0, e)
  <2>0. e \in Nat /\ p = e + 1 /\ mc \in Nat /\ E \in Nat /\ p < mc /\ mc <= E
    BY <1>2, <1>4, <1>9, <1>11
  <2>1. \A j \in 0 + 1 .. e : j \in 1 .. mc /\ j \in 1 .. E /\ j # p
    BY ONLY <2>0
  <2> QED
    BY <1>10, <1>14, <2>1 DEF Agree
<1>16. Has(y, p, t)
  <2>1. ASSUME NEW j \in 1 .. Len(t) PROVE y[p + j] = t[j]
    <3>0. p \in Nat /\ mc \in Nat /\ E \in Nat /\ mc = p + Len(t) /\ mc <= E
          /\ Len(t) \in Nat /\ j \in 1 .. Len(t)
      BY <1>2, <1>3, <1>4, <1>9, <1>11
    <3>1. p + j \in 1 .. mc /\ p + j \in 1 .. E /\ p + j # p
      BY ONLY <3>0
    <3>2. d[p + j] = t[j]
      BY <1>0 DEF Has, p, t
    <3> QED
      BY <1>10, <1>14, <3>1, <3>2
  <2> QED
    BY <2>1 DEF Has
<1>17. Has(y, mc, u)
  <2>1. ASSUME NEW j \in 1 .. Len(u) PROVE y[mc + j] = u[j]
    <3>1. mc + j \in 1 .. E /\ mc + j # p /\ j \in 1 .. K
      BY <1>2, <1>4, <1>9, <1>11
    <3> QED
      BY <1>10, <1>14, <3>1
  <2> QED
    BY <2>1 DEF Has
<1>18. \A r \in mc + 1 .. L : y[K + r] = d[r]
  <2> SUFFICES ASSUME NEW r \in mc + 1 .. L PROVE y[K + r] = d[r]
    OBVIOUS
  <2> DEFINE i == r - mc
  <2>1. i \in 1 .. L - mc /\ mc + i = r /\ mc + K + i = K + r /\ K + r \in 1 .. E /\ K + r # p
    <3>1. /\ p \in Nat /\ mc \in Nat /\ L \in Nat /\ K \in Nat /\ E = L + K /\ p < mc
          /\ r \in mc + 1 .. L
      BY <1>2, <1>4, <1>9, <1>11
    <3> QED
      BY ONLY <3>1
  <2> HIDE DEF i
  <2> QED
    BY <1>10, <1>14, <2>1
<1>19. \E h : Stretch(y, args, h, mc + K, L + K)
  <2>1. Lawful(args) /\ Stretch(d, args, f, mc, L) /\ K \in Nat
    BY <1>0, <1>2 DEF L
  <2> QED
    BY ONLY <1>18, <2>1, StretchMoves
<1>20. MessageAt(y, p, E, a, args)
  <2>1. Has(y, p, TextWords(a)) /\ mc = p + Len(TextWords(a))
    BY <1>11, <1>16 DEF t
  <2>2. Has(y, mc, TagWords(Tagged(args))) /\ K = Len(TagWords(Tagged(args)))
    BY <1>9, <1>17 DEF u, tags
  <2> QED
    BY <1>0, <1>9, <1>11, <1>19, <2>1, <2>2 DEF MessageAt
<1>21. p <= E
  BY <1>9, <1>11
<1>22. ReadsAs(y, p, E, << <<"(", a>> >> \o args \o << <<")">> >>, << <<a, args>> >>)
  BY ONLY <1>20, <1>21, MessageIsElement
<1>23. Element(y, e, E, << <<"(", a>> >> \o args \o << <<")">> >>, << <<a, args>> >>)
  <2>1. e \in Nat /\ y[e + 1] = <<"size", 4 * (E - e - 1)>>
    BY <1>11, <1>12, <1>14
  <2> DEFINE U == << <<"(", a>> >> \o args \o << <<")">> >>
             N == << <<a, args>> >>
  <2>2. ReadsAs(y, e + 1, E, U, N)
    BY <1>11, <1>22
  <2> HIDE DEF U, N
  <2>3. Element(y, e, E, U, N)
    BY ONLY <2>1, <2>2 DEF Element
  <2> QED
    BY <2>3 DEF U, N
<1>24. words[e + 1] = d[e + 1]
  BY <1>10, <1>11
<1> QED
  BY <1>13, <1>15, <1>23, <1>24 DEF E, Finished

(* The closing parenthesis goes behind the last argument. *)
LEMMA MessageEndsTokens ==
  ASSUME NEW H, IsSeq(H), NEW x, NEW args, IsSeq(args), NEW z
  PROVE  Append(H \o (<<x>> \o args), z) = H \o (<<x>> \o args \o <<z>>)
<1> DEFINE t == <<x>>
           r == <<z>>
           v == t \o args
           h == H \o v
<1>1. IsSeq(t) /\ IsSeq(r)
  BY SeqShort
<1> HIDE DEF t
<1>2. IsSeq(v)
  BY <1>1, ConcatAt
<1> HIDE DEF v
<1>3. IsSeq(h)
  BY <1>2, ConcatAt
<1> HIDE DEF h
<1>4. Append(h, z) = h \o r
  BY <1>3, AppendAt
<1> HIDE DEF r
<1>5. H \o (v \o r) = (H \o v) \o r
  BY <1>1, <1>2, SeqAssoc
<1> QED
  BY <1>4, <1>5 DEF h, v, t, r

(* << EndMessage within an open bundle. *)
LEMMA MessageCloses ==
  ASSUME CodecOK, inMessage,
         NEW words, words = SubSeq(data, 1, messageCursor) \o TagWords(typeTags)
                            \o SubSeq(data, messageCursor + 1, Len(data)),
         EndElement(words, Len(words)), messageCursor' = Len(words), inMessage' = FALSE,
         put' = Append(put, <<")">>), BufferOK'
  PROVE  CodecOK'
<1> DEFINE x == <<")">>
           y == data'
<1>0. x[1] = ")" /\ x[1] # "[" /\ x[1] # "]" /\ put' = Append(put, x)
  OBVIOUS
<1>30. Joins(words, SubSeq(data, 1, messageCursor), TagWords(typeTags),
             SubSeq(data, messageCursor + 1, Len(data)))
  BY DEF Joins
<1> SUFFICES ASSUME Nested(Append(put, x)) PROVE OpenBetween'
  BY <1>0, PutGrows
<1>1. OpenWithin
  <2>1. put # <<>>
    BY CodecFacts
  <2> QED
    BY <2>1, StillOpen DEF OpenBetween
<1>2. PICK n, c, P, Q, e, T, M, a, args, f :
         Deep(put, n) /\ Within(n, c, P, Q, e, T, M, a, args, f)
  BY <1>1 DEF OpenWithin
<1>3. /\ Frames(data, n, c, P, Q, e, T, M)
      /\ elementSize = e /\ data[e + 1] = <<"link", SlotAt(c, n)>>
      /\ a \in Strings /\ Has(data, e + 1, TextWords(a))
      /\ messageCursor = e + 1 + Len(TextWords(a))
      /\ Lawful(args) /\ typeTags = Tagged(args)
      /\ Stretch(data, args, f, messageCursor, Len(data))
      /\ put = (FlattenSeq(P) \o T) \o (<< <<"(", a>> >> \o args)
      /\ MessagesOf(put) = FlattenSeq(Q) \o M
  BY <1>2 DEF Within
<1>31. Frames(data, n, c, P, Q, e, T, M)
  BY <1>3
<1>4. /\ n \in Nat /\ e \in Nat /\ IsSeq(T) /\ IsSeq(M)
      /\ \A i \in 0 .. n : c[i] \in Nat /\ c[i] + 4 <= e
  BY ONLY <1>31, FramesRise
<1>5. WordsOK(data) /\ IsSeq(put) /\ messageCursor <= Len(data)
  BY <1>1, CodecFacts DEF OpenWithin
<1>6. e # 0
  <2>1. n \in 0 .. n
    BY <1>4
  <2>2. c[n] \in Nat /\ c[n] + 4 <= e
    BY <1>4, <2>1
  <2> QED
    BY <1>4, <2>2
<1>7. elementSize' = words[e + 1][2] /\ Resized(y, words, e + 1, 4 * (Len(words) - e) - 4)
  BY <1>3, <1>6 DEF EndElement, Resized
<1> HIDE DEF y, x
<1>8. Ending(y, data, words, messageCursor, Tagged(args), e)
  BY <1>3, <1>7, <1>30 DEF Ending
<1> DEFINE mc == messageCursor
           w == data
           U == << <<"(", a>> >> \o args \o << <<")">> >>
           N == << <<a, args>> >>
           E == Len(words)
<1>9. Writing(w, e, a, mc, args, f) /\ Ending(y, w, words, mc, Tagged(args), e)
  BY <1>3, <1>4, <1>5, <1>8 DEF Writing
<1> HIDE DEF mc, w
<1>32. Finished(y, w, words, e, a, args)
  BY ONLY <1>9, MessageFinished
<1>10. /\ WordsOK(y) /\ Len(y) = Len(words) /\ Agree(y, w, 0, e)
       /\ words[e + 1] = w[e + 1]
       /\ Element(y, e, Len(words), << <<"(", a>> >> \o args \o << <<")">> >>, << <<a, args>> >>)
  BY <1>32 DEF Finished
<1>11. Element(y, e, E, U, N) /\ IsSeq(U) /\ IsSeq(N)
  <2>1. Element(y, e, E, U, N)
    BY <1>10
  <2> HIDE DEF E, U, N
  <2> QED
    BY <2>1 DEF Element, ReadsAs
<1> HIDE DEF E, U, N
<1>12. Frames(y, n, c, P, Q, e, T, M)
  <2>1. Frames(w, n, c, P, Q, e, T, M) /\ Agree(y, w, 0, e)
    BY <1>10, <1>31 DEF w
  <2> QED
    BY ONLY <2>1, FramesKept
<1>13. Frames(y, n, c, P, Q, E, T \o U, M \o N)
  <2> DEFINE b == c[n]
  <2>1. Below(y, n, c, P, Q) /\ Partial(y, b, e, T, M)
    BY <1>12 DEF Frames
  <2> HIDE DEF b
  <2>2. Element(y, e, E, U, N)
    BY <1>11
  <2>3. Partial(y, b, E, T \o U, M \o N)
    BY ONLY <2>1, <2>2, PartialGrows
  <2> QED
    BY <2>1, <2>3 DEF Frames, b
<1>14. elementSize' = SlotAt(c, n)
  <2>1. data[e + 1] = <<"link", SlotAt(c, n)>>
    BY <1>3
  <2>2. words[e + 1] = <<"link", SlotAt(c, n)>>
    BY <1>10, <2>1 DEF w
  <2>3. elementSize' = words[e + 1][2]
    BY <1>7
  <2> QED
    BY ONLY <2>2, <2>3
<1> DEFINE g == put'
           F == FlattenSeq(P)
           G == FlattenSeq(Q)
           H == F \o T
<1>15. g = Append(put, x)
  BY <1>0
<1> HIDE DEF g
<1>16. Deep(g, n)
  BY <1>0, <1>2, <1>4, <1>5, <1>15, DeepGrows
<1>17. IsSeq(F) /\ IsSeq(G)
  BY <1>4, <1>31, FlattenMore DEF Frames, Below
<1>18. IsSeq(H) /\ put = H \o (<< <<"(", a>> >> \o args) /\ MessagesOf(put) = G \o M
  <2>1. put = H \o (<< <<"(", a>> >> \o args) /\ MessagesOf(put) = G \o M
    BY <1>3
  <2> HIDE DEF F, G
  <2>2. IsSeq(H)
    BY <1>4, <1>17, ConcatAt
  <2> QED
    BY <2>1, <2>2
<1> HIDE DEF F, G
<1>19. g = F \o (T \o U)
  <2>1. IsSeq(args)
    BY <1>3 DEF Lawful
  <2>2. Append(H \o (<< <<"(", a>> >> \o args), <<")">>)
          = H \o (<< <<"(", a>> >> \o args \o << <<")">> >>)
    <3>1. IsSeq(H) /\ IsSeq(args)
      BY <1>18, <2>1
    <3> HIDE DEF H
    <3> QED
      BY ONLY <3>1, MessageEndsTokens
  <2>3. g = H \o U
    BY <1>15, <1>18, <2>2 DEF x, U
  <2>5. IsSeq(F) /\ IsSeq(T) /\ IsSeq(U)
    BY <1>4, <1>11, <1>17
  <2>4. F \o (T \o U) = (F \o T) \o U
    BY ONLY <2>5, SeqAssoc
  <2> QED
    BY <2>3, <2>4
<1> HIDE DEF H
<1>20. MessagesOf(g) = G \o (M \o N)
  <2>1. MessagesOf(Append(put, <<")">>)) = MessagesOf(put) \o << <<a, args>> >>
    <3> DEFINE h == put
    <3>1. IsSeq(H) /\ Lawful(args) /\ h = H \o (<< <<"(", a>> >> \o args)
      BY <1>3, <1>18
    <3> HIDE DEF h
    <3>2. MessagesOf(Append(h, <<")">>)) = MessagesOf(h) \o << <<a, args>> >>
      BY ONLY <3>1, MessageEnds
    <3> QED
      BY <3>2 DEF h
  <2>2. MessagesOf(g) = (G \o M) \o N
    BY <1>15, <1>18, <2>1 DEF x, N
  <2>3. G \o (M \o N) = (G \o M) \o N
    <3>1. IsSeq(G) /\ IsSeq(M) /\ IsSeq(N)
      BY <1>4, <1>11, <1>17
    <3> QED
      BY ONLY <3>1, SeqAssoc
  <2> QED
    BY <2>2, <2>3
<1> DEFINE T2 == T \o U
           M2 == M \o N
<1>21. Frames(y, n, c, P, Q, E, T2, M2) /\ messageCursor' = E
       /\ g = FlattenSeq(P) \o T2 /\ MessagesOf(g) = FlattenSeq(Q) \o M2
  BY <1>13, <1>19, <1>20 DEF E, F, G
<1> HIDE DEF T2, M2
<1>22. Between(n, c, P, Q, E, T2, M2)'
  BY <1>14, <1>21 DEF Between, y, g
<1> QED
  BY <1>10, <1>16, <1>22 DEF OpenBetween, y, g

(* << EndMessage keeps the invariant, whether the stream throws or not. *)
LEMMA MessageTerminatorStep ==
  ASSUME CodecOK, MessageTerminator
  PROVE  CodecOK'
<1>1. CASE UNCHANGED vars
  BY <1>1, CodecStays
<1>2. CASE ~ UNCHANGED vars
  <2> DEFINE words == SubSeq(data, 1, messageCursor) \o TagWords(typeTags)
                      \o SubSeq(data, messageCursor + 1, Len(data))
  <2>1. /\ inMessage /\ EndElement(words, Len(words)) /\ messageCursor' = Len(words)
        /\ inMessage' = FALSE /\ put' = Append(put, <<")">>)
    BY <1>2 DEF MessageTerminator, Throw, IsMessageInProgress
  <2>2. BufferOK'
    BY CodecFacts, EndMessageStep
  <2> QED
    BY <2>1, <2>2, MessageCloses
<1> QED
  BY <1>1, <1>2

(***************************************************************************)
(* Arguments, and the theorems.                                            *)
(***************************************************************************)

(* An argument within a message. *)
LEMMA ArgumentPut ==
  ASSUME CodecOK, inMessage, NEW tag, NEW value, Legal(tag, value),
         data' = data \o ArgWords(tag, value), typeTags' = Append(typeTags, tag),
         put' = Append(put, <<tag, value>>),
         UNCHANGED <<messageCursor, elementSize, inMessage>>, BufferOK'
  PROVE  CodecOK'
<1> DEFINE x == <<tag, value>>
           y == data'
           d == ArgWords(tag, value)
<1>0. x[1] # "[" /\ x[1] # "]" /\ x[1] # ")" /\ put' = Append(put, x)
  <2>1. tag \in TypeTags
    BY DEF Legal
  <2> QED
    BY <2>1 DEF TypeTags, NoBytes, FourBytes, EightBytes, Texts
<1> HIDE DEF x
<1> SUFFICES ASSUME Nested(Append(put, x)) PROVE OpenWithin'
  BY <1>0, PutGrows
<1>1. OpenWithin
  <2>1. put # <<>>
    BY CodecFacts
  <2> QED
    BY <2>1, StillOpen DEF OpenBetween
<1>2. PICK n, c, P, Q, e, T, M, a, args, f :
         Deep(put, n) /\ Within(n, c, P, Q, e, T, M, a, args, f)
  BY <1>1 DEF OpenWithin
<1>3. /\ Frames(data, n, c, P, Q, e, T, M)
      /\ elementSize = e /\ data[e + 1] = <<"link", SlotAt(c, n)>>
      /\ a \in Strings /\ Has(data, e + 1, TextWords(a))
      /\ messageCursor = e + 1 + Len(TextWords(a))
      /\ Lawful(args) /\ typeTags = Tagged(args)
      /\ Stretch(data, args, f, messageCursor, Len(data))
      /\ put = (FlattenSeq(P) \o T) \o (<< <<"(", a>> >> \o args)
      /\ MessagesOf(put) = FlattenSeq(Q) \o M
  BY <1>2 DEF Within
<1>31. Frames(data, n, c, P, Q, e, T, M)
  BY <1>3
<1>4. n \in Nat /\ e \in Nat /\ IsSeq(T) /\ IsSeq(M)
  BY ONLY <1>31, FramesRise
<1>5. WordsOK(data) /\ IsSeq(put) /\ messageCursor <= Len(data) /\ messageCursor \in Nat
      /\ Len(data) \in Nat
  BY <1>1, CodecFacts DEF OpenWithin
<1>6. WordsOK(d)
  BY ArgOK
<1>7. y = data \o d
  OBVIOUS
<1> HIDE DEF y, d
<1>8. WordsOK(y) /\ \A i \in 1 .. Len(data) : y[i] = data[i]
  <2>1. WordsOK(y)
    BY <1>5, <1>6, <1>7, WordsTogether
  <2>2. IsSeq(data) /\ IsSeq(d)
    BY <1>5, <1>6 DEF WordsOK
  <2>3. \A i \in 1 .. Len(data) : y[i] = data[i]
    BY <1>7, <2>2, ConcatAt
  <2> QED
    BY <2>1, <2>3
<1> DEFINE t == TextWords(a)
           K == Len(t)
<1>9. K \in Nat /\ K >= 1
  BY <1>3, TextAre DEF Strings
<1>10. messageCursor = e + 1 + K
  BY <1>3
<1> HIDE DEF t, K
<1>11. y[e + 1] = <<"link", SlotAt(c, n)>> /\ Has(y, e + 1, t) /\ Agree(y, data, 0, e)
  <2>1. e + 1 \in 1 .. Len(data) /\ (\A j \in 1 .. K : e + 1 + j \in 1 .. Len(data))
        /\ \A j \in 0 + 1 .. e : j \in 1 .. Len(data)
    BY <1>4, <1>5, <1>9, <1>10
  <2>2. y[e + 1] = <<"link", SlotAt(c, n)>>
    BY <1>3, <1>8, <2>1
  <2>3. \A j \in 1 .. K : data[e + 1 + j] = t[j]
    BY <1>3 DEF Has, t, K
  <2>4. Has(y, e + 1, t)
    BY <1>8, <2>1, <2>3 DEF Has, K
  <2>5. Agree(y, data, 0, e)
    BY <1>8, <2>1 DEF Agree
  <2> QED
    BY <2>2, <2>4, <2>5
<1>12. Frames(y, n, c, P, Q, e, T, M)
  BY ONLY <1>11, <1>31, FramesKept
<1> DEFINE more == Append(args, x)
<1>13. Lawful(more) /\ Tagged(more) = Append(Tagged(args), tag)
  <2>1. Lawful(args) /\ Legal(tag, value)
    BY <1>3
  <2>2. /\ Lawful(Append(args, <<tag, value>>))
        /\ Tagged(Append(args, <<tag, value>>)) = Append(Tagged(args), tag)
    BY ONLY <2>1, ArgumentMore
  <2> QED
    BY <2>2 DEF x
<1>14. PICK h : Stretch(y, more, h, messageCursor, Len(y))
  <2> DEFINE w == data
             mc == messageCursor
  <2>1. WordsOK(w) /\ Lawful(args) /\ Stretch(w, args, f, mc, Len(w)) /\ Legal(tag, value)
        /\ y = w \o ArgWords(tag, value)
    BY <1>3, <1>5, <1>7 DEF d
  <2> HIDE DEF w, mc
  <2>2. Stretch(y, Append(args, <<tag, value>>),
                 [i \in 0 .. Len(args) + 1 |-> IF i = Len(args) + 1 THEN Len(y) ELSE f[i]],
                 mc, Len(y))
    BY ONLY <2>1, StretchMore
  <2> QED
    BY <2>2 DEF x, mc
<1> DEFINE g == put'
<1>15. g = Append(put, x)
  BY <1>0
<1> HIDE DEF g
<1>16. Deep(g, n)
  BY <1>0, <1>2, <1>4, <1>5, <1>15, DeepGrows
<1>17. MessagesOf(g) = FlattenSeq(Q) \o M
  <2>1. MessagesOf(g) = MessagesOf(put)
    BY <1>0, <1>5, <1>15, NoMessageEnds
  <2> QED
    BY <1>3, <2>1
<1>18. g = (FlattenSeq(P) \o T) \o (<< <<"(", a>> >> \o more)
  <2> DEFINE H == FlattenSeq(P) \o T
             b == << <<"(", a>> >>
             r == <<x>>
             v == b \o args
  <2>1. IsSeq(b) /\ IsSeq(r) /\ IsSeq(args)
    BY <1>3, SeqShort DEF Lawful
  <2>2. IsSeq(H)
    <3> DEFINE F == FlattenSeq(P)
    <3>1. IsSeq(F) /\ IsSeq(T)
      BY <1>4, <1>31, FlattenMore DEF Frames, Below
    <3> HIDE DEF F
    <3>2. IsSeq(F \o T)
      BY ONLY <3>1, ConcatAt
    <3> QED
      BY <3>2 DEF F
  <2>3. put = H \o v
    BY <1>3
  <2>4. Append(put, x) = put \o r
    BY <1>5, AppendAt
  <2>5. more = args \o r
    <3>1. Append(args, x) = args \o <<x>>
      BY <2>1, AppendAt
    <3> QED
      BY <3>1
  <2> HIDE DEF H, b, r, more
  <2>6. IsSeq(v)
    BY <2>1, ConcatAt
  <2>7. b \o (args \o r) = (b \o args) \o r
    BY ONLY <2>1, SeqAssoc
  <2> HIDE DEF v
  <2>9. IsSeq(H) /\ IsSeq(v) /\ IsSeq(r)
    BY <2>1, <2>2, <2>6
  <2>8. H \o (v \o r) = (H \o v) \o r
    BY ONLY <2>9, SeqAssoc
  <2>10. b \o more = v \o r
    BY <2>5, <2>7 DEF v
  <2>11. g = (H \o v) \o r
    BY <1>15, <2>3, <2>4
  <2>12. g = H \o (b \o more)
    BY ONLY <2>8, <2>10, <2>11
  <2> QED
    BY <2>12 DEF H, b
<1> HIDE DEF more
<1>19. Within(n, c, P, Q, e, T, M, a, more, h)'
  <2>1. typeTags' = Tagged(more) /\ elementSize' = e /\ messageCursor' = e + 1 + Len(TextWords(a))
        /\ a \in Strings
    BY <1>3, <1>13
  <2> QED
    BY <1>11, <1>12, <1>13, <1>14, <1>17, <1>18, <2>1 DEF Within, y, g, t
<1> QED
  BY <1>8, <1>16, <1>19 DEF OpenWithin, y, g

(* An argument keeps the invariant, whether the stream throws or not. *)
LEMMA ArgumentStep ==
  ASSUME CodecOK, NEW tag, NEW value, Legal(tag, value), NEW words, words = ArgWords(tag, value),
         Put(tag, value, words)
  PROVE  CodecOK'
<1>1. CASE UNCHANGED vars
  BY <1>1, CodecStays
<1>2. CASE ~ UNCHANGED vars
  <2>1. /\ typeTags' = Append(typeTags, tag) /\ data' = data \o words
        /\ put' = IF inMessage THEN Append(put, <<tag, value>>) ELSE put
        /\ UNCHANGED <<messageCursor, elementSize, inMessage>>
    BY <1>2 DEF Put, Throw
  <2>2. WordsOK(words)
    BY ArgOK
  <2>3. BufferOK'
    <3>1. BufferOK /\ IsSeq(words)
      BY <2>2, CodecFacts DEF WordsOK
    <3> QED
      BY <3>1, PutStep
  <2>4. CASE inMessage
    BY <2>1, <2>3, <2>4, ArgumentPut
  <2>5. CASE ~inMessage
    <3>1. UNCHANGED <<messageCursor, elementSize, inMessage, put>> /\ data' = data \o words
      BY <2>1, <2>5
    <3> QED
      BY <2>2, <2>3, <2>5, <3>1, BehindStays
  <2> QED
    BY <2>4, <2>5
<1> QED
  BY <1>1, <1>2

(* Every step of the stream keeps the invariant. *)
LEMMA CodecNext == CodecOK /\ [Next]_vars => CodecOK'
<1> SUFFICES ASSUME CodecOK, [Next]_vars PROVE CodecOK'
  OBVIOUS
<1>1. ASSUME NEW time, BundleInitiator(time) PROVE CodecOK'
  BY <1>1, BundleBeginsStep
<1>2. CASE BundleTerminator
  BY <1>2, BundleTerminatorStep
<1>3. ASSUME NEW address \in Strings, BeginMessage(address) PROVE CodecOK'
  BY <1>3, MessageBeginsStep
<1>4. CASE MessageTerminator
  BY <1>4, MessageTerminatorStep
<1>5. CASE PutNumber
  <2>1. ASSUME NEW tag, tag \in FourBytes, NEW v, Put(tag, v, FromUInt32(v)) PROVE CodecOK'
    <3>1. tag \in TypeTags
      BY <2>1 DEF TypeTags
    <3>2. Legal(tag, v)
      BY <2>1, <3>1, TagKinds DEF Legal, FourBytes, NoBytes
    <3>3. FromUInt32(v) = ArgWords(tag, v)
      BY <2>1, <3>1, TagKinds DEF ArgWords
    <3> QED
      BY <2>1, <3>2, <3>3, ArgumentStep
  <2>2. ASSUME NEW tag, tag \in EightBytes, NEW v, Put(tag, v, FromUInt64(v)) PROVE CodecOK'
    <3>1. tag \in TypeTags
      BY <2>2 DEF TypeTags
    <3>2. Legal(tag, v)
      BY <2>2, <3>1, TagKinds DEF Legal, EightBytes, NoBytes
    <3>3. FromUInt64(v) = ArgWords(tag, v)
      BY <2>2, <3>1, TagKinds DEF ArgWords
    <3> QED
      BY <2>2, <3>2, <3>3, ArgumentStep
  <2>3. {"i", "f", "c", "r", "m"} = FourBytes /\ {"h", "t", "d"} = EightBytes
    BY DEF FourBytes, EightBytes
  <2>4. PICK v \in Numbers :
          \/ PutInt32(v) \/ PutFloat(v) \/ PutChar(v) \/ PutRgbaColor(v)
          \/ PutMidi(v) \/ PutInt64(v) \/ PutTimeTag(v) \/ PutDouble(v)
    BY <1>5 DEF PutNumber
  <2>5. \/ \E tag \in FourBytes : Put(tag, v, FromUInt32(v))
        \/ \E tag \in EightBytes : Put(tag, v, FromUInt64(v))
    BY <2>3, <2>4 DEF PutInt32, PutFloat, PutChar, PutRgbaColor, PutMidi, PutInt64, PutTimeTag,
                      PutDouble, FromInt32, FromInt64
  <2> QED
    BY <2>1, <2>2, <2>5
<1>6. CASE PutFlag
  <2>1. ASSUME NEW tag, NEW v, Legal(tag, v), tag \in NoBytes, Put(tag, v, <<>>) PROVE CodecOK'
    <3>1. <<>> = ArgWords(tag, v)
      BY <2>1 DEF ArgWords
    <3> QED
      BY <2>1, <3>1, ArgumentStep
  <2>2. /\ Legal("T", TRUE) /\ Legal("F", FALSE) /\ Legal("N", "nil") /\ Legal("I", "infinitum")
        /\ {"T", "F", "N", "I"} = NoBytes
    BY DEF Legal, TypeTags, NoBytes, Texts
  <2>3. \/ Put("T", TRUE, <<>>) \/ Put("F", FALSE, <<>>) \/ Put("N", "nil", <<>>)
        \/ Put("I", "infinitum", <<>>)
    BY <1>6 DEF PutFlag, PutBool, PutNil, PutInfinitum
  <2> QED
    BY <2>1, <2>2, <2>3
<1>7. CASE PutText
  <2>1. ASSUME NEW tag, tag \in Texts, NEW v \in Strings, Put(tag, v, TextWords(v)) PROVE CodecOK'
    <3>1. tag \in TypeTags
      BY <2>1 DEF TypeTags
    <3>2. Legal(tag, v)
      BY <2>1, <3>1, TagKinds DEF Legal, Texts, NoBytes
    <3>3. TextWords(v) = ArgWords(tag, v)
      BY <2>1, <3>1, TagKinds DEF ArgWords
    <3> QED
      BY <2>1, <3>2, <3>3, ArgumentStep
  <2>2. PICK s \in Strings : PutString(s) \/ PutSymbol(s)
    BY <1>7 DEF PutText
  <2>3. "s" \in Texts /\ "S" \in Texts
    BY DEF Texts
  <2> QED
    BY <2>1, <2>2, <2>3 DEF PutString, PutSymbol
<1>8. ASSUME NEW b \in DOMAIN BlobLength, PutBlob(b) PROVE CodecOK'
  <2>1. "b" \in TypeTags
    BY DEF TypeTags
  <2>2. Legal("b", b)
    BY <2>1 DEF Legal, Texts
  <2>3. << <<"size", BlobLength[b]>> >> \o BlobWords(b) = ArgWords("b", b)
    BY <2>1, TagKinds DEF ArgWords
  <2>4. Put("b", b, << <<"size", BlobLength[b]>> >> \o BlobWords(b))
    BY <1>8 DEF PutBlob
  <2> QED
    BY <2>2, <2>3, <2>4, ArgumentStep
<1>9. CASE Clear
  <2>1. /\ messageCursor' = 0 /\ elementSize' = None /\ inMessage' = FALSE /\ put' = <<>>
    BY <1>9 DEF Clear
  <2>2. BufferOK'
    BY CodecFacts, BufferNext
  <2> QED
    BY <2>1, <2>2, SeqShort DEF CodecOK
<1>10. CASE UNCHANGED vars
  BY <1>10, CodecStays
<1> QED
  BY <1>1, <1>2, <1>3, <1>4, <1>5, <1>6, <1>7, <1>8, <1>9, <1>10 DEF Next

(* An empty buffer has it. *)
LEMMA CodecEmpty == Empty => CodecOK
<1> SUFFICES ASSUME Empty PROVE CodecOK
  OBVIOUS
<1>1. BufferOK
  BY EmptyIsOK
<1>2. messageCursor = 0 /\ elementSize = None /\ ~inMessage /\ put = <<>>
  BY DEF Empty
<1> QED
  BY <1>1, <1>2, SeqShort DEF CodecOK

(* In every state the words in the buffer of the OutboundPacketStream are  *)
(* what CodecOK says: the slots of open bundles and messages link to each  *)
(* other, every finished element holds its size, and what is finished      *)
(* reads as it was put, whatever follows it.                               *)
THEOREM CodecCorrect == Spec => []CodecOK
<1>1. Init => CodecOK
  BY CodecEmpty DEF Init
<1> QED
  BY <1>1, CodecNext, PTL DEF Spec

(* A finished bundle lies in the buffer from its first word. *)
LEMMA FinishedIsWhole ==
  ASSUME CodecOK, IsReady, OneBundle
  PROVE  Whole /\ Len(data) = messageCursor /\ Size = 4 * Len(data) /\ Len(data) \in Nat
<1>1. ~inMessage /\ elementSize = None
  BY DEF IsReady, IsMessageInProgress, IsBundleInProgress
<1>2. put # <<>> /\ Nested(put) /\ Len(data) = messageCursor
  BY DEF OneBundle, Nested
<1>3. OpenBetween \/ Whole
  BY <1>1, <1>2 DEF CodecOK, OpenWithin
<1>4. ~ OpenBetween
  <2> SUFFICES ASSUME OpenBetween PROVE FALSE
    OBVIOUS
  <2>1. PICK n, c, P, Q, e, T, M : Between(n, c, P, Q, e, T, M)
    BY DEF OpenBetween
  <2>2. Frames(data, n, c, P, Q, e, T, M) /\ elementSize = SlotAt(c, n)
    BY <2>1 DEF Between
  <2>3. SlotAt(c, n) \in Nat
    BY <2>2, SlotIsPlace
  <2> QED
    BY <1>1, <2>2, <2>3 DEF None
<1>5. Len(data) \in Nat
  BY CodecFacts
<1>6. Size = 4 * Len(data)
  BY <1>1, <1>5 DEF Size, IsMessageInProgress
<1> QED
  BY <1>2, <1>3, <1>4, <1>5, <1>6

(* A finished bundle, read from its first word. *)
LEMMA WholeReads ==
  ASSUME CodecOK, IsReady, OneBundle
  PROVE  /\ PrintPart(data, 0, Size) = put
         /\ ProcessPart(data, 0, Size) = Quietly(MessagesOf(put))
<1>1. Whole /\ Len(data) = messageCursor /\ Size = 4 * Len(data) /\ Len(data) \in Nat
  BY FinishedIsWhole
<1> DEFINE e == messageCursor
           w == data
           M == MessagesOf(put)
           T == put
<1>2. WordsOK(w) /\ ReadsAs(w, 0, e, T, M) /\ e <= Len(w) /\ Agree(w, w, 0, e)
  BY <1>1 DEF Whole, Agree
<1>3. 4 * (e - 0) = Size
  BY <1>1
<1> HIDE DEF w, e, M, T
<1>4. PrintPart(w, 0, 4 * (e - 0)) = T /\ ProcessPart(w, 0, 4 * (e - 0)) = Quietly(M)
  BY <1>2 DEF ReadsAs
<1> QED
  BY <1>3, <1>4 DEF w, M, T

(* What is printed of a bundle that has ended is what was put. *)
LEMMA WholeIsPrinted == CodecOK => ReadsWhatWasPut
<1> SUFFICES ASSUME CodecOK, IsReady, OneBundle PROVE PrintPacket(Packet) = put
  BY DEF ReadsWhatWasPut
<1>1. PrintPart(data, 0, Size) = put
  BY WholeReads
<1>2. Packet.w = data /\ Packet.bytes = Size
  BY DEF Packet
<1> QED
  BY <1>1, <1>2 DEF PrintPacket, PrintPart

(* What the stream wrote for one bundle, and its size,                     *)
(* OscPrintReceivedElements prints as the calls that were made: brackets,  *)
(* time tags, addresses and arguments, at every depth of nesting.          *)
THEOREM BundlesReadBack == Spec => []ReadsWhatWasPut
BY WholeIsPrinted, CodecCorrect, PTL

(* A bundle that is not a number of words is malformed as a whole. *)
LEMMA CutIsNothing ==
  ASSUME NEW w, WordsOK(w), ElementIsBundle(w, 0),
         NEW bytes \in Nat, bytes % 4 # 0, Len(w) = bytes \div 4
  PROVE  ProcessPacket([w |-> w, bytes |-> bytes]) = Nothing
<1> DEFINE p == [w |-> w, bytes |-> bytes]
<1>1. p.w = w /\ p.bytes = bytes
  OBVIOUS
<1> HIDE DEF p
<1>2. <<0, bytes>> \in Extents(w)
  <2> DEFINE x == <<0, bytes>>
             n == Len(w)
  <2>1. n \in Nat /\ n = bytes \div 4 /\ bytes \in 0 .. 4 * n + 3 /\ 0 \in 0 .. n
    <3>1. n = bytes \div 4
      OBVIOUS
    <3> HIDE DEF n
    <3> QED
      BY <3>1
  <2>2. x \in (0 .. n) \X (0 .. 4 * n + 3) /\ x[1] = 0 /\ x[2] = bytes
    BY <2>1
  <2>3. x[1] + x[2] \div 4 <= n
    BY <2>1, <2>2
  <2> HIDE DEF x, n
  <2>4. x \in Extents(w)
    BY <2>2, <2>3 DEF Extents, n
  <2> QED
    BY <2>4 DEF x
<1>3. PICK f : \A x \in Extents(w) : ProcessBundle(w, x[1], x[2]) = f[x]
                                     /\ f[x] = ProcessElements(f, w, x[1], x[2])
  BY ProcessUnfolds
<1>4. ProcessBundle(w, 0, bytes) = ProcessElements(f, w, 0, bytes)
  BY <1>2, <1>3
<1>5. Elements(w, 0, bytes) = <<NoEnd>>
  BY DEF Elements
<1>6. ProcessElements(f, w, 0, bytes) = Throwing("MalformedBundle")
  BY <1>5 DEF ProcessElements
<1>7. ProcessPacket(p) = [messages |-> Throwing("MalformedBundle").messages,
                          escapes |-> Throwing("MalformedBundle").throws = "MalformedMessage"]
  BY <1>1, <1>4, <1>6 DEF ProcessPacket
<1>8. ProcessPacket(p) = Nothing
  BY <1>7 DEF Throwing, Nothing
<1> QED
  BY <1>8 DEF p

(* A bundle that has ended gives its messages, or none if it is cut. *)
LEMMA CutIsNotRead == CodecOK => CutIsDropped
<1> SUFFICES ASSUME CodecOK, IsReady, OneBundle
             PROVE  ProcessPacket(Received) =
                      IF Size <= MaxBufferSize
                      THEN [messages |-> MessagesOf(put), escapes |-> FALSE]
                      ELSE Nothing
  BY DEF CutIsDropped
<1> DEFINE n == Len(data)
<1>1. Whole /\ Size = 4 * n /\ n \in Nat /\ n >= 1
  BY FinishedIsWhole DEF Whole
<1>2. WordsOK(data) /\ data[1] = <<"text", "#bundle", 1>>
  BY <1>1 DEF Whole
<1>3. MaxBufferSize \in Nat /\ MaxBufferSize >= 4 /\ MaxBufferSize % 4 # 0
  BY BufferAssumption
<1> HIDE DEF n
<1>4. CASE Size <= MaxBufferSize
  <2>1. Size \div 4 = n
    BY <1>1
  <2>2. SubSeq(data, 1, n) = data
    <3>1. IsSeq(data) /\ n <= Len(data)
      BY <1>1, <1>2 DEF WordsOK, n
    <3>2. /\ WordsOK(SubSeq(data, 1, n)) /\ Len(SubSeq(data, 1, n)) = n
          /\ \A i \in 1 .. n : SubSeq(data, 1, n)[i] = data[i]
      BY <1>1, <1>2, <3>1, WordsPart
    <3> DEFINE s == SubSeq(data, 1, n)
    <3>3. IsSeq(s) /\ Len(s) = Len(data) /\ \A i \in 1 .. Len(s) : s[i] = data[i]
      BY <3>2 DEF WordsOK, n
    <3> HIDE DEF s
    <3>4. s = data
      BY ONLY <3>1, <3>3, SameSeq
    <3> QED
      BY <3>4 DEF s
  <2>3. Received = [w |-> data, bytes |-> Size]
    BY <1>4, <2>1, <2>2 DEF Received
  <2>4. Received.w = data /\ Received.bytes = Size
    BY <2>3
  <2>5. ProcessPart(data, 0, Size) = Quietly(MessagesOf(put))
    BY WholeReads
  <2>6. ProcessPacket(Received)
          = [messages |-> Quietly(MessagesOf(put)).messages,
             escapes |-> Quietly(MessagesOf(put)).throws = "MalformedMessage"]
    BY <2>4, <2>5 DEF ProcessPacket, ProcessPart
  <2>7. ProcessPacket(Received) = [messages |-> MessagesOf(put), escapes |-> FALSE]
    BY <2>6 DEF Quietly
  <2> QED
    BY <1>4, <2>7
<1>5. CASE ~ (Size <= MaxBufferSize)
  <2> DEFINE m == MaxBufferSize \div 4
             w == SubSeq(data, 1, m)
  <2>1. m \in Nat /\ m >= 1 /\ m <= n
    BY <1>1, <1>3, <1>5
  <2>2. WordsOK(w) /\ Len(w) = m /\ w[1] = data[1]
    <3>1. m \in Nat /\ m <= Len(data) /\ 1 \in 1 .. m
      BY <2>1 DEF n
    <3> HIDE DEF m
    <3> QED
      BY <1>2, <3>1, WordsPart
  <2>3. Received = [w |-> w, bytes |-> MaxBufferSize]
    BY <1>5 DEF Received
  <2>4. ElementIsBundle(w, 0)
    <3>1. 0 + 1 = 1
      OBVIOUS
    <3> QED
      BY <1>2, <2>2, <3>1 DEF ElementIsBundle, Word
  <2> HIDE DEF w
  <2>5. Len(w) = MaxBufferSize \div 4
    BY <2>2
  <2>6. ProcessPacket([w |-> w, bytes |-> MaxBufferSize]) = Nothing
    BY <1>3, <2>2, <2>4, <2>5, CutIsNothing
  <2> QED
    BY <1>5, <2>3, <2>6
<1> QED
  BY <1>4, <1>5

(* A bundle that the receiving socket cuts to its buffer gives no message  *)
(* at all, for the buffer is not a number of words; any other gives all    *)
(* its messages, in order and with their arguments.                        *)
THEOREM CutBundlesAreDropped == Spec => []CutIsDropped
BY CutIsNotRead, CodecCorrect, PTL

-----------------------------------------------------------------------------
(***************************************************************************)
(* The transports together.  A behaviour of Transports is one of its part: *)
(* the others stay as they began, so what is proved of a part holds.       *)
(***************************************************************************)

(* A step of the transports is one of each part, or leaves it alone. *)
LEMMA PartsStep ==
  [TransportsNext]_<<tvars, uvars, vars>> => [TcpNext]_tvars /\ [UdpNext]_uvars /\ [Next]_vars
BY DEF TransportsNext

(* Where every part begins. *)
LEMMA PartsInit == TransportsInit => TcpInit /\ UdpOff /\ Empty
BY DEF TransportsInit, Init, Off

(* The senders' and receivers' threads and the packets, as the programs    *)
(* have them: packets fit, read back and are dropped when they are cut,    *)
(* clients are watched, and a frame that meets no change of the list       *)
(* reaches all.                                                            *)
THEOREM TransportsAreSafe ==
  TransportsSpec =>
    /\ [](FitsTheBuffer /\ ReadsWhatWasPut /\ CutIsDropped /\ ClientListOK)
    /\ CalmFrameReachesAll
<1>1. TransportsInit => ListOK /\ FrameOK /\ CodecOK
  BY PartsInit, ListInit, FrameInit, CodecEmpty
<1>2. ListOK /\ [TransportsNext]_<<tvars, uvars, vars>> => ListOK'
  BY PartsStep, ListNext
<1>3. ListOK /\ FrameOK /\ [TransportsNext]_<<tvars, uvars, vars>> => FrameOK'
  BY PartsStep, FrameNext
<1>4. CodecOK /\ [TransportsNext]_<<tvars, uvars, vars>> => CodecOK'
  BY PartsStep, CodecNext
<1>5. TransportsSpec => [](ListOK /\ FrameOK /\ CodecOK)
  BY <1>1, <1>2, <1>3, <1>4, PTL DEF TransportsSpec
<1>6. CodecOK => FitsTheBuffer /\ ReadsWhatWasPut /\ CutIsDropped
  BY BufferFits, WholeIsPrinted, CutIsNotRead DEF CodecOK
<1>7. TransportsSpec => CalmFrameReachesAll
  <2>1. TransportsSpec => [][TcpNext]_tvars
    BY PartsStep, PTL DEF TransportsSpec
  <2> QED
    BY <1>5, <2>1, CalmFrameIsComplete, PTL DEF CalmFrameReachesAll
<1> QED
  BY <1>5, <1>6, <1>7, ListIsWatched, PTL

(***************************************************************************)
(* A break of the UDP receiver.  That the thread it was meant for leaves   *)
(* Run() some day is BreakEndsRun, a liveness property; the safety that it *)
(* rests on is that nobody clears the flag before that thread has seen it, *)
(* and that until then the thread takes no further datagram.               *)
(***************************************************************************)

(* Unless Run() is entered after its own break or beside another thread,   *)
(* the flag stays set while a thread that was told to leave is in it.      *)
BreakIsKept == ~lost => \A t \in asked : Running(t) => break_ = TRUE

(* A thread that was told to leave does not go to read another datagram.   *)
AskedReadNoMore ==
  [][~lost' => \A t \in asked : pc[t] # "receive" => pc'[t] # "receive"]_uvars

(* Where a thread of the multiplexer can be, and what the threads share. *)
RunLabels == {"none", "called", "test", "select", "receive", "process", "pipe", "done"}

UdpTypes == pc \in [Runners -> RunLabels] /\ asked \subseteq Runners

(* Only threads that have called Run() are told to leave, and none calls   *)
(* it again.                                                               *)
AskedHaveCalled == \A t \in asked : pc[t] # "none"

UdpOK == UdpTypes /\ AskedHaveCalled /\ BreakIsKept

(* Before anything is made nobody was told to leave. *)
LEMMA UdpStart == UdpOff => UdpOK
BY DEF UdpOff, UdpOK, UdpTypes, RunLabels, AskedHaveCalled, BreakIsKept

(* Only EnterRun clears the flag, and then it is lost to whoever is in the *)
(* loop.                                                                   *)
LEMMA UdpStep == UdpOK /\ [UdpNext]_uvars => UdpOK'
<1> SUFFICES ASSUME UdpOK, [UdpNext]_uvars PROVE UdpOK'
  OBVIOUS
<1> USE DEF UdpOK, UdpTypes, RunLabels, AskedHaveCalled, BreakIsKept, Running
<1>1. CASE UNCHANGED <<break_, pc, asked, lost>>
  BY <1>1
<1>2. ASSUME NEW t \in Runners, NEW lk \in BOOLEAN, ConnectReceiver(t, lk) PROVE UdpOK'
  <2>1. pc[t] = "none" /\ pc' = [pc EXCEPT ![t] = "called"] /\ UNCHANGED <<break_, asked, lost>>
    BY <1>2 DEF ConnectReceiver
  <2> QED
    BY <2>1
<1>3. ASSUME DisconnectReceiver PROVE UdpOK'
  BY <1>3 DEF DisconnectReceiver
<1>4. ASSUME NEW t \in Runners, EnterRun(t) PROVE UdpOK'
  <2>1. /\ pc[t] = "called" /\ pc' = [pc EXCEPT ![t] = "test"] /\ asked' = asked
        /\ lost' = (lost \/ t \in asked \/ \E x \in Runners \ {t} : Running(x))
    BY <1>4 DEF EnterRun, Steps, receiver
  <2>2. ASSUME ~lost', NEW x \in asked, pc'[x] \notin {"none", "done"} PROVE FALSE
    BY <2>1, <2>2
  <2> QED
    BY <2>1, <2>2
<1>5. ASSUME NEW t \in Runners, NEW from, NEW to \in RunLabels \ {"none"}, from \notin {"none", "done"},
             Steps(t, from, to), UNCHANGED <<break_, asked, lost>>
      PROVE  UdpOK'
  <2>1. pc[t] = from /\ pc' = [pc EXCEPT ![t] = to]
    BY <1>5 DEF Steps
  <2>2. \A x \in Runners : Running(x)' => Running(x)
    BY <1>5, <2>1
  <2> QED
    BY <1>5, <2>1, <2>2
<1>6. ASSUME NEW t \in Runners, RunStep(t) \/ Interrupted(t) PROVE UdpOK'
  <2>1. CASE EnterRun(t)
    BY <1>4, <2>1
  <2>2. CASE TestBreak(t)
    BY <1>5, <2>2 DEF TestBreak, receiver
  <2>3. CASE Select(t)
    BY <1>5, <2>3 DEF Select, receiver
  <2>4. CASE ReceiveFrom(t)
    BY <1>5, <2>4 DEF ReceiveFrom, receiver
  <2>5. CASE ProcessDatagram(t)
    BY <1>5, <2>5 DEF ProcessDatagram, receiver
  <2>6. CASE Interrupted(t)
    BY <1>5, <2>6 DEF Interrupted, receiver
  <2> QED
    BY <1>6, <2>1, <2>2, <2>3, <2>4, <2>5, <2>6 DEF RunStep
<1>7. CASE UNCHANGED uvars
  BY <1>1, <1>7 DEF uvars, receiver
<1>8. ASSUME BindReceiver \/ DeleteReceiver \/ \E t \in Runners : LockedReturns(t) PROVE UdpOK'
  BY <1>1, <1>8 DEF BindReceiver, DeleteReceiver, LockedReturns
<1>9. ASSUME NEW size, SenderMade(size) \/ SendPacket(size) PROVE UdpOK'
  BY <1>1, <1>9 DEF SenderMade, SendPacket, receiver
<1> QED
  BY <1>2, <1>3, <1>6, <1>7, <1>8, <1>9
     DEF UdpNext, MakeLocalSender, MakeSender, MakeSizedSender

(* A thread comes to "receive" from select() alone, which looks at the     *)
(* flag.                                                                   *)
LEMMA AskedStep ==
  UdpOK /\ [UdpNext]_uvars =>
    [~lost' => \A t \in asked : pc[t] # "receive" => pc'[t] # "receive"]_uvars
<1> SUFFICES ASSUME UdpOK, UdpNext, ~lost', NEW x \in asked, pc[x] # "receive", pc'[x] = "receive"
             PROVE  FALSE
  OBVIOUS
<1>1. pc \in [Runners -> RunLabels] /\ x \in Runners
  BY DEF UdpOK, UdpTypes
<1>2. pc' # pc
  OBVIOUS
<1>3. Select(x)
  <2>1. ASSUME NEW t \in Runners, NEW lk \in BOOLEAN, ConnectReceiver(t, lk) PROVE FALSE
    BY <1>1, <2>1 DEF ConnectReceiver
  <2>2. ASSUME NEW t \in Runners, NEW from, NEW to, Steps(t, from, to), to # "receive" PROVE FALSE
    BY <1>1, <2>2 DEF Steps
  <2>3. PICK t \in Runners : RunStep(t) \/ Interrupted(t)
    BY <1>2, <2>1 DEF UdpNext, BindReceiver, LockedReturns, DisconnectReceiver, DeleteReceiver,
       MakeLocalSender, MakeSender, MakeSizedSender, SenderMade, SendPacket
  <2>4. Select(t)
    BY <2>2, <2>3 DEF RunStep, EnterRun, TestBreak, ReceiveFrom, ProcessDatagram, Interrupted
  <2> QED
    BY <1>1, <2>4 DEF Select, Steps
<1>4. pc[x] = "select" /\ break_ # TRUE /\ lost' = lost
  BY <1>1, <1>3 DEF Select, Steps
<1> QED
  BY <1>4 DEF UdpOK, BreakIsKept, Running

(* SocketReceiveMultiplexer, for any number of threads: a break is not     *)
(* undone before the threads it was meant for have left Run(), and none of *)
(* them reads a datagram that it had not gone to read before; unless Run() *)
(* was entered late, or by two.                                            *)
THEOREM BreaksAreKept == TransportsSpec => []BreakIsKept /\ AskedReadNoMore
<1>1. TransportsInit => UdpOK
  BY PartsInit, UdpStart
<1>2. UdpOK /\ [TransportsNext]_<<tvars, uvars, vars>> => UdpOK'
  BY PartsStep, UdpStep
<1>3. UdpOK => BreakIsKept
  BY DEF UdpOK
<1>4. TransportsSpec => [][UdpNext]_uvars
  BY PartsStep, PTL DEF TransportsSpec
<1> QED
  BY <1>1, <1>2, <1>3, <1>4, AskedStep, PTL DEF TransportsSpec, AskedReadNoMore

===============================================================================
