---------------------------- MODULE SettingsProofs ---------------------------
(***************************************************************************)
(* Whatever the pictures show: markers that are accepted are those around  *)
(* one section, and the bounds computed from them cover its share of the   *)
(* table.  Whatever the files say: what was saved comes back.  Whatever    *)
(* the firmware refuses: the region that is recorded is the one that is    *)
(* cropped, and what was tried by the demo is put back.                    *)
(***************************************************************************)
EXTENDS Settings, ListLemmas

Four == [1 .. 4 -> Marker]

Sorting == [trap : {"open", "shut"}, m : Four]

(* What a comparison of the j-th and the next marker of s comes to. *)
Compared(s, t, j) ==
  /\ \A i \in 1 .. 4 : i \notin {j, j + 1} => t.m[i] = s.m[i]
  /\ t.trap = "open" => /\ s.trap = "open"
                        /\ t.m[j].id < t.m[j + 1].id
                        /\ \/ t.m[j] = s.m[j] /\ t.m[j + 1] = s.m[j + 1]
                           \/ t.m[j] = s.m[j + 1] /\ t.m[j + 1] = s.m[j]

(* One comparison keeps four markers, and puts two of them in order unless *)
(* the trap shuts.                                                         *)
LEMMA CompareFacts ==
  ASSUME NEW s \in Sorting, NEW j \in 1 .. 3
  PROVE  CompareAt(s, j) \in Sorting /\ Compared(s, CompareAt(s, j), j)
<1> DEFINE a == s.m[j]
           b == s.m[j + 1]
<1>0. /\ j \in 1 .. 4 /\ j + 1 \in 1 .. 4 /\ j # j + 1
      /\ s.m \in Four /\ s.trap \in {"open", "shut"}
      /\ a \in Marker /\ b \in Marker
      /\ a.id \in Nat /\ b.id \in Nat
  BY DEF Sorting, Four, Marker
<1>1. /\ Swapped(s.m, j) \in Four
      /\ Swapped(s.m, j)[j] = b /\ Swapped(s.m, j)[j + 1] = a
      /\ \A i \in 1 .. 4 : i \notin {j, j + 1} => Swapped(s.m, j)[i] = s.m[i]
  BY <1>0 DEF Four, Swapped
<1>2. CASE s.trap = "open" /\ a.id = b.id
  <2>1. CompareAt(s, j) = [trap |-> "shut", m |-> s.m]
    BY <1>0, <1>2 DEF CompareAt
  <2> QED
    BY <1>0, <2>1 DEF Sorting, Compared
<1>3. CASE s.trap = "open" /\ a.id > b.id
  <2> DEFINE t == [trap |-> "open", m |-> Swapped(s.m, j)]
  <2>1. CompareAt(s, j) = t
    BY <1>0, <1>3 DEF CompareAt
  <2>2. t.m = Swapped(s.m, j) /\ t.trap = "open" /\ t \in Sorting
    BY <1>1 DEF Sorting
  <2> HIDE DEF t
  <2>3. Compared(s, t, j)
    BY <1>0, <1>1, <1>3, <2>2 DEF Compared
  <2> QED
    BY <2>1, <2>2, <2>3
<1>4. CASE s.trap = "open" /\ a.id < b.id
  <2>1. CompareAt(s, j) = [trap |-> "open", m |-> s.m]
    BY <1>0, <1>4 DEF CompareAt
  <2> QED
    BY <1>0, <1>4, <2>1 DEF Sorting, Compared
<1>5. CASE s.trap = "shut"
  <2>1. CompareAt(s, j) = s
    BY <1>5 DEF CompareAt
  <2> QED
    BY <1>0, <1>5, <2>1 DEF Compared
<1> QED
  BY <1>0, <1>2, <1>3, <1>4, <1>5

(* The six comparisons sort, or find two equal numbers. *)
LEMMA BubbleSortSorts ==
  ASSUME NEW m \in Four
  PROVE  /\ BubbleSort(m) \in Sorting
         /\ BubbleSort(m).trap = "open" => Ascending(BubbleSort(m).m)
<1> DEFINE s0 == [trap |-> "open", m |-> m]
           s1 == CompareAt(s0, 1)
           s2 == CompareAt(s1, 2)
           s3 == CompareAt(s2, 3)
           s4 == CompareAt(s3, 1)
           s5 == CompareAt(s4, 2)
           s6 == CompareAt(s5, 1)
           n(s, i) == s.m[i].id
<1>0. s0 \in Sorting
  BY DEF Sorting
<1>7. BubbleSort(m) = s6
  BY DEF BubbleSort, FirstPass, SecondPass, ThirdPass
<1> HIDE DEF s0
<1>1. s1 \in Sorting /\ Compared(s0, s1, 1)
  BY <1>0, CompareFacts
<1> HIDE DEF s1
<1>2. s2 \in Sorting /\ Compared(s1, s2, 2)
  BY <1>1, CompareFacts
<1> HIDE DEF s2
<1>3. s3 \in Sorting /\ Compared(s2, s3, 3)
  BY <1>2, CompareFacts
<1> HIDE DEF s3
<1>4. s4 \in Sorting /\ Compared(s3, s4, 1)
  BY <1>3, CompareFacts
<1> HIDE DEF s4
<1>5. s5 \in Sorting /\ Compared(s4, s5, 2)
  BY <1>4, CompareFacts
<1> HIDE DEF s5
<1>6. s6 \in Sorting /\ Compared(s5, s6, 1)
  BY <1>5, CompareFacts
<1> HIDE DEF s6
<1>8. ASSUME s6.trap = "open" PROVE Ascending(s6.m)
  <2>1. ASSUME NEW s \in Sorting PROVE \A i \in 1 .. 4 : n(s, i) \in Nat
    BY DEF Sorting, Four, Marker
  <2>2. /\ s5.trap = "open" /\ s4.trap = "open" /\ s3.trap = "open"
        /\ s2.trap = "open" /\ s1.trap = "open"
    BY <1>2, <1>3, <1>4, <1>5, <1>6, <1>8 DEF Compared
  \* the greatest of the first three comes third, that of all last
  <2>3. n(s1, 1) < n(s1, 2)
    BY <1>1, <2>2 DEF Compared
  <2>4. n(s2, 1) < n(s2, 3) /\ n(s2, 2) < n(s2, 3)
    BY <1>1, <1>2, <2>1, <2>2, <2>3 DEF Compared
  <2>5. n(s3, 1) < n(s3, 4) /\ n(s3, 2) < n(s3, 4) /\ n(s3, 3) < n(s3, 4)
    BY <1>2, <1>3, <2>1, <2>2, <2>4 DEF Compared
  <2>6. /\ n(s4, 1) < n(s4, 2)
        /\ n(s4, 1) < n(s4, 4) /\ n(s4, 2) < n(s4, 4) /\ n(s4, 3) < n(s4, 4)
    BY <1>3, <1>4, <2>1, <2>2, <2>5 DEF Compared
  <2>7. n(s5, 1) < n(s5, 3) /\ n(s5, 2) < n(s5, 3) /\ n(s5, 3) < n(s5, 4)
    BY <1>4, <1>5, <2>1, <2>2, <2>6 DEF Compared
  <2>8. n(s6, 1) < n(s6, 2) /\ n(s6, 2) < n(s6, 3) /\ n(s6, 3) < n(s6, 4)
    BY <1>5, <1>6, <1>8, <2>1, <2>7 DEF Compared
  <2> QED
    BY <2>8 DEF Ascending
<1> QED
  BY <1>6, <1>7, <1>8
-----------------------------------------------------------------------------
(* Everything the proofs need to know of accepted markers. *)
Accepted(m) == m \in Four /\ Ascending(m) /\ PairsMatch(m)

(* Two pairs of neighbours, apart, with matching sums: the odd sum makes   *)
(* the number of sections a whole one.                                     *)
LEMMA SectionOfAccepted ==
  ASSUME NEW m, Accepted(m)
  PROVE  /\ Half(m[1].id + m[4].id - 1) \in 1 .. m[4].id
         /\ m[1].id \in 0 .. Half(m[1].id + m[4].id - 1) - 1
         /\ IsSection(m, Half(m[1].id + m[4].id - 1), m[1].id)
<1> DEFINE k == m[1].id
           n == Half(m[1].id + m[4].id - 1)
<1>1. m[1].id \in Nat /\ m[2].id \in Nat /\ m[3].id \in Nat /\ m[4].id \in Nat
  BY DEF Accepted, Four, Marker
<1>2. /\ m[2].id = k + 1 /\ m[3].id = m[4].id - 1
      /\ m[2].id < m[3].id
      /\ (m[4].id + m[1].id) % 2 = 1
  BY <1>1 DEF Accepted, PairsMatch, Ascending
<1>3. n = (k + m[4].id - 1) \div 2
  BY <1>1, <1>2 DEF Half
<1>4. n \in Nat /\ k + m[4].id = 2 * n + 1
  BY <1>1, <1>2, <1>3
<1> HIDE DEF n
<1>5. n \in 1 .. m[4].id /\ k \in 0 .. n - 1
  BY <1>1, <1>2, <1>4
<1>6. IsSection(m, n, k)
  <2>1. m[2].id = k + 1 /\ m[3].id = 2 * n - k /\ m[4].id = 2 * n - k + 1
    BY <1>1, <1>2, <1>4
  <2> QED
    BY <2>1 DEF IsSection
<1> QED
  BY <1>5, <1>6 DEF n

(* What verifyMarkerPlacement leaves behind, whatever the pictures showed. *)
MarkersInv == okay => Accepted(markers)

LEMMA VerifyKeeps == VerifyMarkerPlacement => MarkersInv'
<1> SUFFICES ASSUME VerifyMarkerPlacement, okay' PROVE Accepted(markers')
  BY DEF MarkersInv
<1> DEFINE s == SortMarkers(shot')
<1>1. markers' = s.m /\ s.trap = "open" /\ PairsMatch(s.m)
  BY DEF VerifyMarkerPlacement
<1>2. shot' \in Seq(Marker)
  BY ShotsAssumption DEF VerifyMarkerPlacement
<1>3. Len(shot') = 4
  <2>1. SUFFICES ASSUME Len(shot') # 4 PROVE FALSE
    OBVIOUS
  <2>2. s = [trap |-> "shut", m |-> shot']
    BY <2>1 DEF SortMarkers
  <2> QED
    BY <1>1, <2>2
<1>4. s = BubbleSort(shot')
  BY <1>3 DEF SortMarkers
<1>5. shot' \in Four
  BY <1>2, <1>3 DEF Four
<1>6. s.m \in Four /\ Ascending(s.m)
  BY <1>1, <1>4, <1>5, BubbleSortSorts DEF Sorting
<1> QED
  BY <1>1, <1>6 DEF Accepted

(* And whatever follows. *)
LEMMA MarkersNext == MarkersInv /\ [Next]_vars => MarkersInv'
<1> SUFFICES ASSUME MarkersInv, [Next]_vars PROVE MarkersInv'
  OBVIOUS
<1>1. CASE VerifyMarkerPlacement
  BY <1>1, VerifyKeeps
<1>2. CASE CalculateRoi
  BY <1>2 DEF CalculateRoi, MarkersInv
<1>3. CASE UNCHANGED vars
  BY <1>3 DEF vars, MarkersInv
<1> QED
  BY <1>1, <1>2, <1>3 DEF Next

(* In every state of a camera that looks for its section. *)
LEMMA MarkersInvariant == Spec => []MarkersInv
<1>1. Init => MarkersInv
  BY DEF Init, MarkersInv
<1> QED
  BY <1>1, MarkersNext, PTL DEF Spec

(* Markers that are found okay are those of a section. *)
LEMMA OkayHasASection == MarkersInv => AcceptedIsASection
BY SectionOfAccepted DEF MarkersInv, AcceptedIsASection

(* DetectBounds.cpp:189-261, for every picture: markers that are found     *)
(* okay are those around one section of one table.                         *)
THEOREM OkayIsASection == Spec => []AcceptedIsASection
BY OkayHasASection, MarkersInvariant, PTL
-----------------------------------------------------------------------------
Shuffle(m, p) == [i \in 1 .. 4 |-> m[p[i]]]

SameNumberTwice(m) == \E i, k \in 1 .. 4 : i # k /\ m[i].id = m[k].id

(* What the sort has done so far to the markers m: it has moved them about,*)
(* and shut the trap only over two equal numbers.                          *)
SortedFrom(s, m) ==
  /\ s \in Sorting
  /\ \E p \in Orders : s.m = Shuffle(m, p)
  /\ s.trap = "shut" => SameNumberTwice(m)

(* One comparison moves markers about, or shuts the trap over equal ones.  *)
LEMMA CompareShuffles ==
  ASSUME NEW m \in Four, NEW s, SortedFrom(s, m), NEW j \in 1 .. 3
  PROVE  SortedFrom(CompareAt(s, j), m)
<1>0. /\ s \in Sorting /\ CompareAt(s, j) \in Sorting
      /\ j \in 1 .. 4 /\ j + 1 \in 1 .. 4 /\ j # j + 1
      /\ s.m \in Four /\ s.trap \in {"open", "shut"}
  BY CompareFacts DEF SortedFrom, Sorting
<1>1. PICK p \in Orders : s.m = Shuffle(m, p)
  BY DEF SortedFrom
<1>2. p \in [1 .. 4 -> 1 .. 4] /\ \A i, k \in 1 .. 4 : p[i] = p[k] => i = k
  BY DEF Orders
<1>3. \A i \in 1 .. 4 : s.m[i] = m[p[i]]
  BY <1>1 DEF Shuffle
<1>4. CASE s.trap = "shut"
  BY <1>4 DEF CompareAt, SortedFrom
<1>5. CASE s.trap = "open" /\ s.m[j].id = s.m[j + 1].id
  <2>1. CompareAt(s, j) = [trap |-> "shut", m |-> s.m]
    BY <1>0, <1>5 DEF CompareAt, Sorting, Four, Marker
  <2>2. p[j] # p[j + 1] /\ p[j] \in 1 .. 4 /\ p[j + 1] \in 1 .. 4
    BY <1>0, <1>2
  <2>3. SameNumberTwice(m)
    BY <1>0, <1>3, <1>5, <2>2 DEF SameNumberTwice
  <2> QED
    BY <1>0, <1>1, <2>1, <2>3 DEF SortedFrom
<1>6. CASE s.trap = "open" /\ s.m[j].id # s.m[j + 1].id /\ s.m[j].id > s.m[j + 1].id
  <2> DEFINE q == [p EXCEPT ![j] = p[j + 1], ![j + 1] = p[j]]
  <2>1. CompareAt(s, j) = [trap |-> "open", m |-> Swapped(s.m, j)]
    BY <1>6 DEF CompareAt
  <2>2. q \in Orders
    BY <1>0, <1>2 DEF Orders
  <2>3. Swapped(s.m, j) = Shuffle(m, q)
    <3>1. \A i \in 1 .. 4 : Swapped(s.m, j)[i] = m[q[i]]
      BY <1>0, <1>2, <1>3 DEF Swapped, Four
    <3>2. Swapped(s.m, j) \in [1 .. 4 -> Marker]
      BY <1>0 DEF Swapped, Four
    <3> HIDE DEF q
    <3> QED
      BY <3>1, <3>2 DEF Shuffle
  <2> HIDE DEF q
  <2> QED
    BY <1>0, <2>1, <2>2, <2>3 DEF SortedFrom
<1>7. CASE s.trap = "open" /\ s.m[j].id # s.m[j + 1].id /\ ~(s.m[j].id > s.m[j + 1].id)
  <2>1. CompareAt(s, j) = [trap |-> "open", m |-> s.m]
    BY <1>7 DEF CompareAt
  <2> QED
    BY <1>0, <1>1, <2>1 DEF SortedFrom
<1> QED
  BY <1>0, <1>4, <1>5, <1>6, <1>7

LEMMA BubbleSortShuffles ==
  ASSUME NEW m \in Four
  PROVE  SortedFrom(BubbleSort(m), m)
<1> DEFINE s0 == [trap |-> "open", m |-> m]
<1>1. SortedFrom(s0, m)
  <2> DEFINE p == [i \in 1 .. 4 |-> i]
  <2>1. p \in Orders /\ Shuffle(m, p) = m
    BY DEF Orders, Shuffle, Four
  <2> QED
    BY <2>1 DEF SortedFrom, Sorting
<1>2. BubbleSort(m) = CompareAt(CompareAt(CompareAt(CompareAt(CompareAt(CompareAt(
                        s0, 1), 2), 3), 1), 2), 1)
  BY DEF BubbleSort, FirstPass, SecondPass, ThirdPass
<1> HIDE DEF s0
<1>3. \A s : \A j \in 1 .. 3 : SortedFrom(s, m) => SortedFrom(CompareAt(s, j), m)
  BY CompareShuffles
<1>4. 1 \in 1 .. 3 /\ 2 \in 1 .. 3 /\ 3 \in 1 .. 3
  OBVIOUS
<1> QED
  BY <1>1, <1>2, <1>3, <1>4

(* Four markers can be put in ascending order in at most one way, and only *)
(* if no two have the same number.                                         *)
LEMMA OneAscendingOrder ==
  ASSUME NEW m \in Four, NEW p \in Orders, NEW q \in Orders,
         Ascending(Shuffle(m, p)), Ascending(Shuffle(m, q))
  PROVE  p = q
<1> DEFINE n == [i \in 1 .. 4 |-> m[i].id]
<1>1. n \in [1 .. 4 -> Nat]
  BY DEF Four, Marker
<1>2. /\ p \in [1 .. 4 -> 1 .. 4] /\ q \in [1 .. 4 -> 1 .. 4]
      /\ \A i, k \in 1 .. 4 : p[i] = p[k] => i = k
      /\ \A i, k \in 1 .. 4 : q[i] = q[k] => i = k
  BY DEF Orders
<1>3. /\ n[p[1]] < n[p[2]] /\ n[p[2]] < n[p[3]] /\ n[p[3]] < n[p[4]]
      /\ n[q[1]] < n[q[2]] /\ n[q[2]] < n[q[3]] /\ n[q[3]] < n[q[4]]
  BY <1>2 DEF Ascending, Shuffle
<1> HIDE DEF n
<1>4. \A i \in 1 .. 4 : \E k \in 1 .. 4 : q[i] = p[k]
  BY <1>2
<1>5. \A i \in 1 .. 4 : q[i] = p[i]
  BY <1>1, <1>2, <1>3, <1>4
<1> QED
  BY <1>2, <1>5

LEMMA AscendingHasNoTwins ==
  ASSUME NEW m \in Four, NEW p \in Orders, Ascending(Shuffle(m, p))
  PROVE  ~SameNumberTwice(m)
<1> SUFFICES ASSUME NEW a \in 1 .. 4, NEW b \in 1 .. 4, a # b, m[a].id = m[b].id
             PROVE  FALSE
  BY DEF SameNumberTwice
<1> DEFINE n == [i \in 1 .. 4 |-> m[i].id]
<1>1. n \in [1 .. 4 -> Nat] /\ n[a] = n[b]
  BY DEF Four, Marker
<1>2. p \in [1 .. 4 -> 1 .. 4] /\ \A i, k \in 1 .. 4 : p[i] = p[k] => i = k
  BY DEF Orders
<1>3. n[p[1]] < n[p[2]] /\ n[p[2]] < n[p[3]] /\ n[p[3]] < n[p[4]]
  BY <1>2 DEF Ascending, Shuffle
<1> HIDE DEF n
<1>4. \A i \in 1 .. 4 : \E k \in 1 .. 4 : i = p[k]
  BY <1>2
<1>5. PICK i \in 1 .. 4 : a = p[i]
  BY <1>4
<1>6. PICK k \in 1 .. 4 : b = p[k]
  BY <1>4
<1> QED
  BY <1>1, <1>2, <1>3, <1>5, <1>6

(* Verifying compares any order of the markers with the sorted one. *)
LEMMA VerifyAcceptsAnyOrder == VerifyMarkerPlacement => AnyOrderIsAccepted'
<1> SUFFICES ASSUME VerifyMarkerPlacement, Len(shot') = 4
             PROVE  okay' <=> \E p \in Orders : /\ Ascending(Shuffle(shot', p))
                                               /\ PairsMatch(Shuffle(shot', p))
                                               /\ OrientationsMatch(Shuffle(shot', p))
  BY DEF AnyOrderIsAccepted, Shuffle
<1> DEFINE s == BubbleSort(shot')
<1>1. shot' \in Four
  <2>1. shot' \in Seq(Marker)
    BY ShotsAssumption DEF VerifyMarkerPlacement
  <2> QED
    BY <2>1 DEF Four
<1>2. okay' <=> s.trap = "open" /\ PairsMatch(s.m) /\ OrientationsMatch(s.m)
  BY DEF VerifyMarkerPlacement, SortMarkers
<1>3. SortedFrom(s, shot') /\ (s.trap = "open" => Ascending(s.m))
  BY <1>1, BubbleSortSorts, BubbleSortShuffles
<1> HIDE DEF s
<1>4. PICK p0 \in Orders : s.m = Shuffle(shot', p0)
  BY <1>3 DEF SortedFrom
<1>5. s.trap \in {"open", "shut"}
  BY <1>3 DEF SortedFrom, Sorting
<1>6. ASSUME NEW p \in Orders, Ascending(Shuffle(shot', p))
      PROVE  s.trap = "open" /\ s.m = Shuffle(shot', p)
  <2>1. s.trap = "open"
    BY <1>1, <1>3, <1>5, <1>6, AscendingHasNoTwins DEF SortedFrom
  <2>2. p0 = p
    BY <1>1, <1>3, <1>4, <1>6, <2>1, OneAscendingOrder
  <2> QED
    BY <1>4, <2>1, <2>2
<1> QED
  BY <1>2, <1>3, <1>4, <1>6

(* Whatever follows, this stays so. *)
LEMMA AnyOrderNext == AnyOrderIsAccepted /\ [Next]_vars => AnyOrderIsAccepted'
<1>1. AnyOrderIsAccepted /\ CalculateRoi => AnyOrderIsAccepted'
  BY DEF CalculateRoi, AnyOrderIsAccepted
<1>2. AnyOrderIsAccepted /\ UNCHANGED vars => AnyOrderIsAccepted'
  BY DEF vars, AnyOrderIsAccepted
<1> QED
  BY VerifyAcceptsAnyOrder, <1>1, <1>2 DEF Next

(* DetectBounds.cpp:166-187, for every picture: it does not matter in which*)
(* order the markers are detected; a picture is accepted exactly if some   *)
(* order of its markers is ascending and passes the tests.                 *)
THEOREM OrderOfDetectionIsIrrelevant == Spec => []AnyOrderIsAccepted
<1>1. Init => AnyOrderIsAccepted
  BY DEF Init, AnyOrderIsAccepted
<1> QED
  BY <1>1, AnyOrderNext, PTL DEF Spec
-----------------------------------------------------------------------------
LEMMA FourExtremes ==
  ASSUME NEW a \in Int, NEW b \in Int, NEW c \in Int, NEW d \in Int
  PROVE  \E lo, hi \in {a, b, c, d} : \A v \in {a, b, c, d} : lo <= v /\ v <= hi
OBVIOUS

(* Four rows of four numbers have a least and a greatest one. *)
LEMMA GridExtremes ==
  ASSUME NEW g \in [1 .. 4 -> [0 .. 3 -> Int]],
         NEW S, S = {g[i][j] : i \in 1 .. 4, j \in 0 .. 3}
  PROVE  Min(S) \in Int /\ Max(S) \in Int
<1> DEFINE Row(i) == {g[i][0], g[i][1], g[i][2], g[i][3]}
<1>1. ASSUME NEW i \in 1 .. 4
      PROVE  \E lo, hi \in Row(i) : \A v \in Row(i) : lo <= v /\ v <= hi
  <2>1. g[i][0] \in Int /\ g[i][1] \in Int /\ g[i][2] \in Int /\ g[i][3] \in Int
    OBVIOUS
  <2> QED
    BY <2>1, FourExtremes
<1>2. \A i \in 1 .. 4 : Row(i) \subseteq Int
  OBVIOUS
<1>3. S = Row(1) \cup Row(2) \cup Row(3) \cup Row(4)
  <2>1. ASSUME NEW i \in 1 .. 4, NEW j \in 0 .. 3 PROVE g[i][j] \in Row(i)
    <3>1. j = 0 \/ j = 1 \/ j = 2 \/ j = 3
      OBVIOUS
    <3> QED
      BY <3>1
  <2>2. \A i \in 1 .. 4 : Row(i) \subseteq S
    OBVIOUS
  <2>3. \A i \in 1 .. 4 : i = 1 \/ i = 2 \/ i = 3 \/ i = 4
    OBVIOUS
  <2> HIDE DEF Row
  <2> QED
    BY <2>1, <2>2, <2>3
<1> HIDE DEF Row
<1>4. PICK l1, h1 \in Row(1) : \A v \in Row(1) : l1 <= v /\ v <= h1
  BY <1>1
<1>5. PICK l2, h2 \in Row(2) : \A v \in Row(2) : l2 <= v /\ v <= h2
  BY <1>1
<1>6. PICK l3, h3 \in Row(3) : \A v \in Row(3) : l3 <= v /\ v <= h3
  BY <1>1
<1>7. PICK l4, h4 \in Row(4) : \A v \in Row(4) : l4 <= v /\ v <= h4
  BY <1>1
<1>8. /\ l1 \in Int /\ l2 \in Int /\ l3 \in Int /\ l4 \in Int
      /\ h1 \in Int /\ h2 \in Int /\ h3 \in Int /\ h4 \in Int
  BY <1>2
<1>9. PICK lo, x \in {l1, l2, l3, l4} : \A v \in {l1, l2, l3, l4} : lo <= v /\ v <= x
  BY <1>8, FourExtremes
<1>10. PICK y, hi \in {h1, h2, h3, h4} : \A v \in {h1, h2, h3, h4} : y <= v /\ v <= hi
  BY <1>8, FourExtremes
<1>11. lo \in S /\ hi \in S /\ S \subseteq Int
  BY <1>2, <1>3
<1>12. \A v \in S : lo <= v
  BY <1>2, <1>3, <1>4, <1>5, <1>6, <1>7, <1>8, <1>9
<1>13. \A v \in S : hi >= v
  BY <1>2, <1>3, <1>4, <1>5, <1>6, <1>7, <1>8, <1>10
<1>14. Min(S) \in S
  BY <1>11, <1>12 DEF Min
<1>15. Max(S) \in S
  BY <1>11, <1>13 DEF Max
<1> QED
  BY <1>11, <1>14, <1>15

LEMMA BoxIsWhole ==
  ASSUME NEW m \in Four
  PROVE  /\ Box(m).x \in Int /\ Box(m).y \in Int
         /\ Box(m).width \in Int /\ Box(m).height \in Int
<1> DEFINE gx == [i \in 1 .. 4 |-> [j \in 0 .. 3 |-> m[i].corner[j].x]]
           gy == [i \in 1 .. 4 |-> [j \in 0 .. 3 |-> m[i].corner[j].y]]
           xs == {m[i].corner[j].x : i \in 1 .. 4, j \in 0 .. 3}
           ys == {m[i].corner[j].y : i \in 1 .. 4, j \in 0 .. 3}
<1>1. \A i \in 1 .. 4 : \A j \in 0 .. 3 : m[i].corner[j] \in Point
  BY DEF Four, Marker
<1>2. gx \in [1 .. 4 -> [0 .. 3 -> Int]] /\ gy \in [1 .. 4 -> [0 .. 3 -> Int]]
  BY <1>1 DEF Point
<1>3. /\ xs = {gx[i][j] : i \in 1 .. 4, j \in 0 .. 3}
      /\ ys = {gy[i][j] : i \in 1 .. 4, j \in 0 .. 3}
  OBVIOUS
<1>4. Box(m) = [x |-> Min(xs), y |-> Min(ys),
                width |-> Max(xs) - Min(xs), height |-> Max(ys) - Min(ys)]
  BY DEF Box
<1> HIDE DEF gx, gy, xs, ys
<1>5. Min(xs) \in Int /\ Max(xs) \in Int
  BY <1>2, <1>3, GridExtremes
<1>6. Min(ys) \in Int /\ Max(ys) \in Int
  BY <1>2, <1>3, GridExtremes
<1> QED
  BY <1>4, <1>5, <1>6

(* The arithmetic of calculateRoi and getScreenPosition: the overflow is   *)
(* what separates the first marker from the edge it is measured from, in   *)
(* each of the four ways the camera may hang.                              *)
LEMMA RoiCovers ==
  ASSUME NEW m, Accepted(m)
  PROVE  CoversShare(Roi(m), m)
<1> DEFINE bx == Box(m)
           a  == m[1].corner[0]
           c  == m[3].corner[0]
           r  == Orientation(a, c)
           n  == Half(m[1].id + m[4].id - 1)
           k  == m[1].id
           b  == Roi(m)
<1>1. m \in Four
  BY DEF Accepted
<1>2. a \in Point /\ c \in Point
  BY <1>1 DEF Four, Marker
<1>3. a.x \in Int /\ a.y \in Int /\ c.x \in Int /\ c.y \in Int
  BY <1>2 DEF Point
<1>4. bx.x \in Int /\ bx.y \in Int /\ bx.width \in Int /\ bx.height \in Int
  BY <1>1, BoxIsWhole
<1>5. k \in 0 .. n - 1 /\ n \in Int /\ k \in Int
  BY SectionOfAccepted
<1>6. /\ b.x = bx.x /\ b.y = bx.y /\ b.width = bx.width /\ b.height = bx.height
      /\ b.rot = r /\ b.sections = n /\ b.sectionNum = k
      /\ b.leftOverflow = LeftOverflow(m, bx, r)
      /\ b.baseline = IF r \in {0, 2} THEN Abs(a.x - c.x) ELSE Abs(a.y - c.y)
      /\ b.baseheight = IF r \in {0, 2} THEN Abs(a.y - c.y) ELSE Abs(a.x - c.x)
  BY DEF Roi
<1> DEFINE p == InRoi(b, a)
           q == InRoi(b, c)
<1>7. /\ p.x = a.x - bx.x /\ p.y = a.y - bx.y
      /\ q.x = c.x - bx.x /\ q.y = c.y - bx.y
  BY <1>6 DEF InRoi
<1>8. ASSUME r # -1
      PROVE  /\ b.baseline \in Int /\ b.baseline > 0
             /\ b.baseheight \in Int /\ b.baseheight > 0
             /\ Upright(b, p).x - b.leftOverflow = 0
             /\ Upright(b, q).x - b.leftOverflow = b.baseline
             /\ Upright(b, p).x \in Int /\ Upright(b, q).x \in Int
             /\ b.leftOverflow \in Int
  <2> HIDE DEF bx, a, c, b, p, q
  <2>1. CASE a.x < c.x /\ a.y < c.y
    <3>1. r = 0
      BY <1>3, <2>1 DEF Orientation
    <3>2. Upright(b, p) = p /\ Upright(b, q) = q
      BY <1>6, <3>1 DEF Upright
    <3>3. b.leftOverflow = a.x - bx.x
      BY <1>6, <3>1 DEF LeftOverflow, a
    <3> QED
      BY <1>3, <1>4, <1>6, <1>7, <2>1, <3>1, <3>2, <3>3 DEF Abs
  <2>2. CASE a.x > c.x /\ a.y < c.y
    <3>1. r = 1
      BY <1>3, <2>2 DEF Orientation
    <3>2. Upright(b, p).x = p.y /\ Upright(b, q).x = q.y
      BY <1>6, <3>1 DEF Upright
    <3>3. b.leftOverflow = a.y - bx.y
      BY <1>6, <3>1 DEF LeftOverflow, a
    <3> QED
      BY <1>3, <1>4, <1>6, <1>7, <2>2, <3>1, <3>2, <3>3 DEF Abs
  <2>3. CASE a.x > c.x /\ a.y > c.y
    <3>1. r = 2
      BY <1>3, <2>3 DEF Orientation
    <3>2. Upright(b, p).x = b.width - p.x /\ Upright(b, q).x = b.width - q.x
      BY <1>6, <3>1 DEF Upright
    <3>3. b.leftOverflow = bx.x + bx.width - a.x
      BY <1>6, <3>1 DEF LeftOverflow, a
    <3> QED
      BY <1>3, <1>4, <1>6, <1>7, <2>3, <3>1, <3>2, <3>3 DEF Abs
  <2>4. CASE a.x < c.x /\ a.y > c.y
    <3>1. r = 3
      BY <1>3, <2>4 DEF Orientation
    <3>2. Upright(b, p).x = b.height - p.y /\ Upright(b, q).x = b.height - q.y
      BY <1>6, <3>1 DEF Upright
    <3>3. b.leftOverflow = bx.y + bx.height - a.y
      BY <1>6, <3>1 DEF LeftOverflow, a
    <3> QED
      BY <1>3, <1>4, <1>6, <1>7, <2>4, <3>1, <3>2, <3>3 DEF Abs
  <2> QED
    BY <1>3, <1>8, <2>1, <2>2, <2>3, <2>4 DEF Orientation
<1>9. ASSUME r # -1
      PROVE  /\ ScreenPosition(b, p).x = b.sectionNum * b.baseline
             /\ ScreenPosition(b, q).x = (b.sectionNum + 1) * b.baseline
  <2>1. /\ ScreenPosition(b, p).x = Upright(b, p).x - b.leftOverflow + b.sectionNum * b.baseline
        /\ ScreenPosition(b, q).x = Upright(b, q).x - b.leftOverflow + b.sectionNum * b.baseline
    BY DEF ScreenPosition
  <2> HIDE DEF b, p, q, r, k, n
  <2> QED
    BY <1>5, <1>6, <1>8, <1>9, <2>1
<1>10. InRoi(b, m[1].corner[0]) = p /\ InRoi(b, m[3].corner[0]) = q
  BY DEF p, q, a, c
<1> QED
  <2> HIDE DEF b, p, q, r, k, n
  <2>1. b.sectionNum \in 0 .. b.sections - 1
    BY <1>5, <1>6
  <2>2. ASSUME b.rot # -1
        PROVE  /\ b.baseline > 0 /\ b.baseheight > 0
               /\ ScreenPosition(b, p).x = b.sectionNum * b.baseline
               /\ ScreenPosition(b, q).x = (b.sectionNum + 1) * b.baseline
    BY <1>6, <1>8, <1>9, <2>2
  <2>3. CoversShare(b, m)
    BY <1>10, <2>1, <2>2, Zenon DEF CoversShare
  <2> QED
    BY <2>3 DEF b

(* Bounds that are computed from markers that are okay cover the share. *)
LEMMA ShareStep ==
  MarkersInv /\ [Next]_vars => [bounds' # bounds /\ okay => CoversShare(bounds', markers)]_vars
<1> SUFFICES ASSUME MarkersInv, Next, bounds' # bounds, okay
             PROVE  CoversShare(bounds', markers)
  OBVIOUS
<1>1. CalculateRoi
  BY DEF Next, VerifyMarkerPlacement
<1> QED
  BY <1>1, RoiCovers DEF CalculateRoi, MarkersInv

(* DetectBounds.cpp:90-126, 263-323, for every picture and every camera:   *)
(* bounds computed from markers that were found okay put the section where *)
(* it belongs.                                                             *)
THEOREM OkayBoundsCoverTheirShare == Spec => RoiCoversShare
BY ShareStep, MarkersInvariant, PTL DEF Spec, RoiCoversShare
-----------------------------------------------------------------------------
(* What the camera gets *)

LEMMA MaxOfPositions ==
  ASSUME NEW n \in Nat, NEW S, S \subseteq 1 .. n, S # {}
  PROVE  Max(S) \in S /\ \A i \in S : i <= Max(S)
<1> DEFINE T == {i \in Nat : i <= n /\ n - i \in S}
<1>1. T \subseteq Nat
  OBVIOUS
<1>2. T # {}
  <2>1. PICK i \in S : TRUE
    OBVIOUS
  <2>2. n - i \in Nat /\ n - i <= n /\ n - (n - i) = i
    BY <2>1
  <2>3. n - i \in T
    BY <2>1, <2>2
  <2> QED
    BY <2>3
<1>3. PICK t \in T : \A u \in T : ~ (<<u, t>> \in OpToRel(<, Nat))
  BY ONLY <1>1, <1>2, NatLessThanWellFounded, WFMin, Zenon
<1>4. t \in Nat /\ t <= n /\ n - t \in S
  OBVIOUS
<1>5. ASSUME NEW i \in S PROVE i <= n - t
  <2>1. i \in Nat /\ i <= n
    OBVIOUS
  <2>2. n - i \in Nat /\ n - i <= n /\ n - (n - i) = i
    BY <2>1
  <2>3. n - i \in T
    BY <2>2
  <2>4. ~ (n - i < t)
    BY <1>3, <1>4, <2>2, <2>3 DEF OpToRel
  <2> QED
    BY <1>4, <2>1, <2>4
<1>6. \E m \in S : \A i \in S : m >= i
  <2>1. \A i \in S : n - t >= i
    BY <1>4, <1>5
  <2> QED
    BY <1>4, <2>1
<1>7. Max(S) \in S /\ \A i \in S : Max(S) >= i
  BY <1>6 DEF Max
<1> QED
  BY <1>7

(* A control has its old value, or one that a setter sent. *)
LEMMA SentFrom ==
  ASSUME NEW cam, NEW S, NEW setters \in Seq(S), NEW fails, NEW c \in Controls
  PROVE  \/ SentAll(cam, setters, fails)[c] = cam[c]
         \/ \E i \in DOMAIN setters :
              /\ c \in DOMAIN setters[i].sends
              /\ SentAll(cam, setters, fails)[c] = setters[i].sends[c]
<1> DEFINE sending == {i \in DOMAIN setters : c \in DOMAIN setters[i].sends \ fails}
<1>1. SentAll(cam, setters, fails)[c] =
        IF sending = {} THEN cam[c] ELSE setters[Max(sending)].sends[c]
  BY DEF SentAll
<1>2. Len(setters) \in Nat /\ DOMAIN setters = 1 .. Len(setters)
  OBVIOUS
<1>3. CASE sending = {}
  BY <1>1, <1>3
<1>4. CASE sending # {}
  <2>1. sending \subseteq 1 .. Len(setters)
    BY <1>2
  <2>2. PICK m : m = Max(sending)
    OBVIOUS
  <2>3. m \in sending
    BY ONLY <1>2, <1>4, <2>1, <2>2, MaxOfPositions
  <2>4. m \in DOMAIN setters /\ c \in DOMAIN setters[m].sends
    BY <2>3
  <2>5. SentAll(cam, setters, fails)[c] = setters[m].sends[c]
    BY <1>1, <1>4, <2>2
  <2> QED
    BY <2>4, <2>5
<1> QED
  BY <1>3, <1>4

(* Only regions are sent as regions. *)
RegionSent(s) == "ROI" \in DOMAIN s.sends => s.sends["ROI"] \in Rectangle

LEMMA OneIs ==
  ASSUME NEW c, NEW v
  PROVE  DOMAIN One(c, v).sends = {c} /\ One(c, v).sends[c] = v
  BY DEF One, Setter

LEMMA OthersSendNoRegion ==
  ASSUME NEW c, c # "ROI", NEW v
  PROVE  RegionSent(One(c, v)) /\ RegionSent(Refuses)
  BY OneIs DEF RegionSent, Refuses

LEMMA AllSendRegions ==
  ASSUME NEW p, p.roi \in Rectangle
  PROVE  \E S : AllSetters(p) \in Seq(S) /\ \A s \in S : RegionSent(s)
<1> DEFINE S == {SetSaturation(p.saturation), SetSharpness(p.sharpness), SetContrast(p.contrast),
    SetBrightness(p.brightness), SetISO(p.ISO), SetVideoStabilisation(p.videoStabilisation),
    SetExposureCompensation(p.exposureCompensation), SetExposureMode(p.exposureMode),
    SetFlickerAvoidMode(p.flickerAvoidMode),
    SetMeteringMode(p.exposureMeterMode), SetAwbMode(p.awbMode), SetAwbGains(p.awb_gains),
    SetImageFX(p.imageEffect), SetColourFX(p.colourEffects), SetRotation(p.rotation),
    SetFlips(p.hflip, p.vflip), SetROI(p.roi), SetShutterSpeed(p.shutter_speed),
    SetDRC(p.drc_level), SetStatsPass(p.stats_pass),
    SetAnnotate(p.enable_annotate, p.annotate_string)}
<1>1. AllSetters(p) \in Seq(S)
  <2> DEFINE first ==
        <<SetSaturation(p.saturation), SetSharpness(p.sharpness), SetContrast(p.contrast),
          SetBrightness(p.brightness), SetISO(p.ISO), SetVideoStabilisation(p.videoStabilisation),
          SetExposureCompensation(p.exposureCompensation), SetExposureMode(p.exposureMode)>>
             flicker == IF program = "library" THEN <<SetFlickerAvoidMode(p.flickerAvoidMode)>> ELSE <<>>
             last ==
        <<SetMeteringMode(p.exposureMeterMode), SetAwbMode(p.awbMode), SetAwbGains(p.awb_gains),
          SetImageFX(p.imageEffect), SetColourFX(p.colourEffects), SetRotation(p.rotation),
          SetFlips(p.hflip, p.vflip), SetROI(p.roi), SetShutterSpeed(p.shutter_speed),
          SetDRC(p.drc_level), SetStatsPass(p.stats_pass),
          SetAnnotate(p.enable_annotate, p.annotate_string)>>
  <2>1. first \in Seq(S)
    OBVIOUS
  <2>2. flicker \in Seq(S)
    <3>1. <<>> \in Seq(S)
      OBVIOUS
    <3>2. SetFlickerAvoidMode(p.flickerAvoidMode) \in S
      OBVIOUS
    <3> HIDE DEF S
    <3>3. <<SetFlickerAvoidMode(p.flickerAvoidMode)>> \in Seq(S)
      BY <3>2
    <3> QED
      BY <3>1, <3>3
  <2>3. last \in Seq(S)
    OBVIOUS
  <2>4. AllSetters(p) = first \o flicker \o last
    BY Zenon DEF AllSetters
  <2> HIDE DEF S, first, flicker, last
  <2>5. first \o flicker \in Seq(S)
    BY <2>1, <2>2
  <2>6. (first \o flicker) \o last \in Seq(S)
    BY <2>3, <2>5
  <2> QED
    BY <2>4, <2>6
<1>2. /\ RegionSent(SetSaturation(p.saturation)) /\ RegionSent(SetSharpness(p.sharpness))
      /\ RegionSent(SetContrast(p.contrast)) /\ RegionSent(SetBrightness(p.brightness))
      /\ RegionSent(SetISO(p.ISO)) /\ RegionSent(SetVideoStabilisation(p.videoStabilisation))
      /\ RegionSent(SetExposureCompensation(p.exposureCompensation))
      /\ RegionSent(SetExposureMode(p.exposureMode))
      /\ RegionSent(SetFlickerAvoidMode(p.flickerAvoidMode))
  BY OthersSendNoRegion DEF SetSaturation, SetSharpness, SetContrast, SetBrightness, SetISO,
       SetVideoStabilisation, SetExposureCompensation, SetExposureMode, SetFlickerAvoidMode
<1>3. /\ RegionSent(SetMeteringMode(p.exposureMeterMode)) /\ RegionSent(SetAwbMode(p.awbMode))
      /\ RegionSent(SetImageFX(p.imageEffect)) /\ RegionSent(SetColourFX(p.colourEffects))
      /\ RegionSent(SetShutterSpeed(p.shutter_speed)) /\ RegionSent(SetDRC(p.drc_level))
      /\ RegionSent(SetStatsPass(p.stats_pass))
      /\ RegionSent(SetAnnotate(p.enable_annotate, p.annotate_string))
  BY OthersSendNoRegion DEF SetMeteringMode, SetAwbMode, SetImageFX, SetColourFX,
       SetShutterSpeed, SetDRC, SetStatsPass, SetAnnotate
<1>4. RegionSent(SetAwbGains(p.awb_gains))
  BY OthersSendNoRegion DEF SetAwbGains, RegionSent, Setter
<1>5. RegionSent(SetRotation(p.rotation)) /\ RegionSent(SetFlips(p.hflip, p.vflip))
  BY DEF SetRotation, SetFlips, RegionSent, Setter
<1>6. RegionSent(SetROI(p.roi))
  BY OneIs DEF SetROI, RegionSent
<1>7. \A s \in S : RegionSent(s)
  BY <1>2, <1>3, <1>4, <1>5, <1>6, Zenon
<1> QED
  BY <1>1, <1>7

LEMMA StereosSendNoRegion ==
  ASSUME NEW p
  PROVE  \E S : Stereos(p) \in Seq(S) /\ \A s \in S : RegionSent(s)
<1> DEFINE S == {Stereos(p)[i] : i \in 1 .. 3}
<1>1. Stereos(p) \in Seq(S)
  <2>1. Stereos(p) = [i \in 1 .. 3 |-> Stereos(p)[i]]
    BY DEF Stereos
  <2> QED
    BY <2>1
<1>2. ASSUME NEW i \in 1 .. 3 PROVE RegionSent(Stereos(p)[i])
  <2>1. PICK c : c = <<"stereo0", "stereo1", "stereo2">>[i] /\ c # "ROI"
    OBVIOUS
  <2>2. Stereos(p)[i] = SetStereoMode(c, p.stereo_mode, p.decimate, p.swap_eyes)
    BY <2>1 DEF Stereos
  <2> QED
    BY <2>1, <2>2, OthersSendNoRegion DEF SetStereoMode
<1>3. \A s \in S : RegionSent(s)
  BY <1>2
<1> QED
  BY <1>1, <1>3

CameraTypes == /\ "roi" \in DOMAIN params /\ params.roi \in Rectangle
               /\ camera["ROI"] \in Rectangle

LEMMA ParsedRegion ==
  ASSUME NEW p, "roi" \in DOMAIN p, p.roi \in Rectangle, NEW c \in Commands, NEW a,
         c = "roi" => a \in Rectangle
  PROVE  "roi" \in DOMAIN Parsed(p, c, a) /\ Parsed(p, c, a).roi \in Rectangle
<1>1. CASE c = "roi"
  <2>1. Parsed(p, c, a) = [p EXCEPT !.roi = CutROI(a)]
    BY <1>1 DEF Parsed
  <2>2. CutROI(a) \in Rectangle
    BY <1>1 DEF CutROI, Sized, Rectangle, Full
  <2> QED
    BY <2>1, <2>2
<1>2. CASE c # "roi"
  <2>1. ASSUME NEW f, f # "roi", NEW v
        PROVE  LET q == [p EXCEPT ![f] = v]
               IN  "roi" \in DOMAIN q /\ q.roi \in Rectangle
    BY <2>1
  <2>2. CASE c \in {"sharpness", "contrast", "brightness", "saturation", "ISO", "vstab", "ev"}
    BY <1>2, <2>2 DEF Parsed
  <2>3. CASE c \in {"exposure", "awb", "imxfx", "colfx", "metering", "rotation", "hflip"}
    BY <1>2, <2>3 DEF Parsed
  <2>4. CASE c \in {"vflip", "shutter", "awbgains", "drc", "stats", "annotate"}
    BY <1>2, <2>4 DEF Parsed
  <2>5. CASE c \in {"text", "stereo", "decimate", "3dswap"}
    BY <1>2, <2>5 DEF Parsed
  <2> QED
    BY <1>2, <2>2, <2>3, <2>4, <2>5 DEF Commands
<1> QED
  BY <1>1, <1>2

LEMMA SentRegion ==
  ASSUME NEW cam, cam["ROI"] \in Rectangle, NEW S, NEW setters \in Seq(S),
         \A s \in S : RegionSent(s), NEW fails
  PROVE  SentAll(cam, setters, fails)["ROI"] \in Rectangle
<1>1. "ROI" \in Controls
  BY DEF Controls
<1>2. ASSUME NEW i \in DOMAIN setters PROVE setters[i] \in S
  OBVIOUS
<1> QED
  BY <1>1, <1>2, SentFrom DEF RegionSent

LEMMA NewCropIs ==
  ASSUME NEW r \in Rectangle, NEW command \in {"in", "out", "reset"}
  PROVE  NewCrop(command, r) \in Rectangle /\ NewCrop(command, r).x = NewCrop(command, r).y
<1>1. r.width \in Int /\ r.height \in Int
  BY DEF Rectangle
<1>2. ASSUME NEW n \in Int PROVE Signed(n) \in Int
  <2>1. n % Word \in Int /\ Word \in Int
    BY WordAssumption
  <2> QED
    BY <2>1 DEF Signed
<1>3. ZoomedIn(r) \in Rectangle
  <2>1. ZoomIncrement \in Int
    BY DEF ZoomIncrement
  <2>2. Signed(r.width - ZoomIncrement) \in Int /\ Signed(r.height - ZoomIncrement) \in Int
    BY ONLY <1>1, <1>2, <2>1
  <2>3. r.x \in Int /\ r.y \in Int /\ ZoomFull \in Int
    BY DEF Rectangle, ZoomFull
  <2>4. \A w, h \in Int : Sized(r, w, h) \in Rectangle
    BY <2>3 DEF Sized, Rectangle
  <2> QED
    BY <2>2, <2>3, <2>4 DEF ZoomedIn
<1>4. ZoomedOut(r) \in Rectangle
  <2>1. (r.width + ZoomIncrement) % Word \in Int
    BY <1>1, WordAssumption DEF ZoomIncrement
  <2>2. Signed((r.width + ZoomIncrement) % Word) \in Int
    BY ONLY <1>2, <2>1
  <2> QED
    BY <1>1, <2>2 DEF ZoomedOut, Sized, Rectangle, Full
<1>5. ASSUME NEW q \in Rectangle PROVE Centred(q) \in Rectangle /\ Centred(q).x = Centred(q).y
  <2>1. Full - q.width \in Int
    BY DEF Rectangle, Full
  <2>2. PICK m \in Int : m = Signed(Full - q.width)
    BY <1>2, <2>1
  <2>3. Halved(m) \in Int
    BY DEF Halved
  <2> QED
    BY <2>2, <2>3 DEF Centred, Rectangle
<1>6. CASE command = "in"
  BY <1>3, <1>5, <1>6 DEF NewCrop
<1>7. CASE command = "out"
  BY <1>4, <1>5, <1>7 DEF NewCrop
<1>8. CASE command = "reset"
  BY <1>8 DEF NewCrop, Rectangle, Full
<1> QED
  BY <1>6, <1>7, <1>8

-----------------------------------------------------------------------------
(* The cycle of the demo *)

Place(p, o) == /\ p \in 0 .. 10 /\ o \in Int
               /\ p = 8 => o \in {Reset, 1, 2}
               /\ p = 9 => o \in {Reset, 1, 2, 3, 4, 5, 6}

NoRegions(setters) == \E S : setters \in Seq(S) /\ \A s \in S : RegionSent(s)

Rotations == {"rotation0", "rotation1", "rotation2"}
Flips == {"flips0", "flips1", "flips2"}

ControlsOf(q) ==
  CASE q = 0 -> {"sharpness"} [] q = 1 -> {"contrast"} [] q = 2 -> {"brightness"}
    [] q = 3 -> {"saturation"} [] q = 4 -> {"ev"} [] q = 5 -> {"exposure"}
    [] q = 6 -> {"awb"} [] q = 7 -> {"imageFX"} [] q = 8 -> {"colourFX"}
    [] q = 9 -> Rotations \cup Flips

(* What has been tried is at rest, and in the middle of the last parameter *)
(* the rotation is.                                                        *)
Rests(cam, p, o) ==
  /\ \A q \in 0 .. p - 1 : AtRest(cam, q)
  /\ p = 9 /\ o \in {4, 5, 6} => \A c \in Rotations : cam[c] = 0

LEMMA OneMore ==
  ASSUME NEW cam, NEW setters, NoRegions(setters), NEW x, RegionSent(x)
  PROVE  /\ NoRegions(Append(setters, x))
         /\ SentAll(cam, Append(setters, x), {}) = Sent(SentAll(cam, setters, {}), x, {})
<1>1. PICK S : setters \in Seq(S) /\ \A s \in S : RegionSent(s)
  BY DEF NoRegions
<1>2. PICK T : T = S \cup {x}
  OBVIOUS
<1>3. setters \in Seq(T) /\ x \in T
  BY <1>1, <1>2
<1>4. PICK more \in Seq(T) : more = Append(setters, x)
  <2>1. Append(setters, x) \in Seq(T)
    BY ONLY <1>3
  <2> QED
    BY <2>1
<1>5. \A s \in T : RegionSent(s)
  BY <1>1, <1>2
<1>6. NoRegions(more)
  BY <1>4, <1>5 DEF NoRegions
<1>7. PICK n \in Nat : n = Len(setters)
  BY <1>3
<1>8. /\ DOMAIN setters = 1 .. n /\ DOMAIN more = 1 .. n + 1
      /\ more[n + 1] = x /\ \A i \in 1 .. n : more[i] = setters[i]
  BY <1>3, <1>4, <1>7
<1>9. ASSUME NEW c \in Controls
      PROVE  SentAll(cam, more, {})[c] = Sent(SentAll(cam, setters, {}), x, {})[c]
  <2> DEFINE before == {i \in DOMAIN setters : c \in DOMAIN setters[i].sends \ {}}
             after == {i \in DOMAIN more : c \in DOMAIN more[i].sends \ {}}
  <2>1. SentAll(cam, setters, {})[c] =
          IF before = {} THEN cam[c] ELSE setters[Max(before)].sends[c]
    BY DEF SentAll
  <2>2. SentAll(cam, more, {})[c] = IF after = {} THEN cam[c] ELSE more[Max(after)].sends[c]
    BY DEF SentAll
  <2>3. Sent(SentAll(cam, setters, {}), x, {})[c] =
          IF c \in DOMAIN x.sends THEN x.sends[c] ELSE SentAll(cam, setters, {})[c]
    BY DEF Sent
  <2>4. before \subseteq 1 .. n /\ after \subseteq 1 .. n + 1
    BY <1>8
  <2>5. after = before \cup (IF c \in DOMAIN x.sends THEN {n + 1} ELSE {})
    BY <1>8
  <2>6. \A i \in before : more[i] = setters[i]
    BY <1>8, <2>4
  <2>7. PICK b, a : b = before /\ a = after
    OBVIOUS
  <2> HIDE DEF before, after
  <2>8. CASE c \in DOMAIN x.sends
    <3>1. n + 1 \in a /\ a \subseteq 1 .. n + 1 /\ n + 1 \in Nat
      BY <2>4, <2>5, <2>7, <2>8
    <3>2. Max(a) \in a /\ \A i \in a : i <= Max(a)
      BY ONLY <3>1, MaxOfPositions
    <3>3. Max(a) = n + 1
      <4>1. PICK m : m = Max(a)
        OBVIOUS
      <4>2. m \in 1 .. n + 1 /\ n + 1 <= m
        BY <3>1, <3>2, <4>1
      <4> QED
        BY <4>1, <4>2
    <3> QED
      BY <1>8, <2>2, <2>3, <2>7, <2>8, <3>1, <3>3
  <2>9. CASE c \notin DOMAIN x.sends
    <3>1. a = b
      BY <2>5, <2>7, <2>9
    <3>2. b # {} => Max(b) \in b
      BY ONLY <2>4, <2>7, MaxOfPositions, n \in Nat
    <3>3. b # {} => more[Max(b)] = setters[Max(b)]
      BY <2>6, <2>7, <3>2
    <3> QED
      BY <2>1, <2>2, <2>3, <2>7, <2>9, <3>1, <3>3
  <2> QED
    BY <2>8, <2>9
<1>10. SentAll(cam, more, {}) = Sent(SentAll(cam, setters, {}), x, {})
  <2>1. SentAll(cam, more, {}) = [c \in Controls |-> SentAll(cam, more, {})[c]]
    BY DEF SentAll
  <2>2. Sent(SentAll(cam, setters, {}), x, {}) =
          [c \in Controls |-> Sent(SentAll(cam, setters, {}), x, {})[c]]
    BY DEF Sent
  <2> QED
    BY <1>9, <2>1, <2>2
<1> QED
  BY <1>4, <1>6, <1>10

LEMMA OrientationAtRest ==
  ASSUME NEW cam
  PROVE  AtRest(cam, 9) <=> /\ \A c \in Rotations : cam[c] = 0
                            /\ \A c \in Flips : cam[c] = <<FALSE, FALSE>>
<1>1. /\ 9 # 0 /\ 9 # 1 /\ 9 # 2 /\ 9 # 3 /\ 9 # 4 /\ 9 # 5 /\ 9 # 6 /\ 9 # 7 /\ 9 # 8
  OBVIOUS
<1> QED
  BY <1>1, Zenon DEF AtRest, Rotations, Flips

(* Whether a parameter rests depends on its controls only. *)
LEMMA RestDepends ==
  ASSUME NEW q \in 0 .. 9, NEW cam, NEW other, \A c \in ControlsOf(q) : other[c] = cam[c],
         AtRest(cam, q)
  PROVE  AtRest(other, q)
<1>1. CASE q = 0
  <2>1. other["sharpness"] = cam["sharpness"]
    BY <1>1 DEF ControlsOf
  <2> QED
    BY <1>1, <2>1 DEF AtRest
<1>2. CASE q = 1
  <2>1. other["contrast"] = cam["contrast"]
    BY <1>2 DEF ControlsOf
  <2> QED
    BY <1>2, <2>1 DEF AtRest
<1>3. CASE q = 2
  <2>1. other["brightness"] = cam["brightness"]
    BY <1>3 DEF ControlsOf
  <2> QED
    BY <1>3, <2>1 DEF AtRest
<1>4. CASE q = 3
  <2>1. other["saturation"] = cam["saturation"]
    BY <1>4 DEF ControlsOf
  <2> QED
    BY <1>4, <2>1 DEF AtRest
<1>5. CASE q = 4
  <2>1. other["ev"] = cam["ev"]
    BY <1>5 DEF ControlsOf
  <2> QED
    BY <1>5, <2>1 DEF AtRest
<1>6. CASE q = 5
  <2>1. other["exposure"] = cam["exposure"]
    BY <1>6 DEF ControlsOf
  <2> QED
    BY <1>6, <2>1 DEF AtRest
<1>7. CASE q = 6
  <2>1. other["awb"] = cam["awb"]
    BY <1>7 DEF ControlsOf
  <2> QED
    BY <1>7, <2>1 DEF AtRest
<1>8. CASE q = 7
  <2>1. other["imageFX"] = cam["imageFX"]
    BY <1>8 DEF ControlsOf
  <2> QED
    BY <1>8, <2>1 DEF AtRest
<1>9. CASE q = 8
  <2>1. other["colourFX"] = cam["colourFX"]
    BY <1>9 DEF ControlsOf
  <2> QED
    BY <1>9, <2>1 DEF AtRest
<1>10. CASE q = 9
  <2>1. \A c \in Rotations \cup Flips : other[c] = cam[c]
    BY <1>10 DEF ControlsOf
  <2>2. /\ \A c \in Rotations : cam[c] = 0
        /\ \A c \in Flips : cam[c] = <<FALSE, FALSE>>
    BY <1>10, OrientationAtRest
  <2>3. /\ \A c \in Rotations : other[c] = 0
        /\ \A c \in Flips : other[c] = <<FALSE, FALSE>>
    BY <2>1, <2>2
  <2> QED
    BY <1>10, <2>3, OrientationAtRest
<1> QED
  BY <1>1, <1>2, <1>3, <1>4, <1>5, <1>6, <1>7, <1>8, <1>9, <1>10

LEMMA ControlsAreApart ==
  ASSUME NEW p \in 0 .. 9, NEW q \in 0 .. 9, p # q
  PROVE  ControlsOf(p) \cap ControlsOf(q) = {}
<1>1. \A r \in 0 .. 9 : \A c \in ControlsOf(r) :
        r = CASE c = "sharpness" -> 0 [] c = "contrast" -> 1 [] c = "brightness" -> 2
              [] c = "saturation" -> 3 [] c = "ev" -> 4 [] c = "exposure" -> 5
              [] c = "awb" -> 6 [] c = "imageFX" -> 7 [] c = "colourFX" -> 8 [] OTHER -> 9
  BY DEF ControlsOf, Rotations, Flips
<1> QED
  BY <1>1

LEMMA ControlsAreControls ==
  ASSUME NEW q \in 0 .. 9
  PROVE  ControlsOf(q) \subseteq Controls
  BY DEF ControlsOf, Controls, Rotations, Flips

LEMMA OthersStay ==
  ASSUME NEW p \in 0 .. 9, NEW q \in 0 .. 9, p # q, NEW cam, NEW x,
         DOMAIN x.sends \subseteq ControlsOf(p), AtRest(cam, q)
  PROVE  AtRest(Sent(cam, x, {}), q)
<1>1. PICK other : other = Sent(cam, x, {})
  OBVIOUS
<1>2. \A c \in ControlsOf(q) : c \in Controls /\ c \notin DOMAIN x.sends
  BY ControlsAreApart, ControlsAreControls
<1>3. \A c \in ControlsOf(q) : other[c] = cam[c]
  BY <1>1, <1>2 DEF Sent
<1> QED
  BY <1>1, <1>3, RestDepends

LEMMA SentOne ==
  ASSUME NEW c \in Controls, NEW v, NEW cam
  PROVE  Sent(cam, One(c, v), {})[c] = v
  BY OneIs DEF Sent

LEMMA RangeFacts ==
  ASSUME NEW p \in 0 .. 7, NEW o \in Int, NEW x, x = RangeSetter(p, o), NEW cam
  PROVE  /\ RegionSent(x) /\ DOMAIN x.sends \subseteq ControlsOf(p)
         /\ o = Reset => AtRest(Sent(cam, x, {}), p)
<1>1. DOMAIN Refuses.sends = {} /\ RegionSent(Refuses)
  BY DEF Refuses, RegionSent
<1>2. \A c, v : c # "ROI" => RegionSent(One(c, v))
  BY OthersSendNoRegion
<1>3. \A c, v : DOMAIN One(c, v).sends = {c}
  BY OneIs
<1>4. \A c \in Controls : \A v : Sent(cam, One(c, v), {})[c] = v
  BY SentOne
<1>5. {"sharpness", "contrast", "brightness", "saturation", "ev", "exposure", "awb", "imageFX"}
        \subseteq Controls
  BY DEF Controls
<1>6. CASE p = 0
  <2>1. x = One("sharpness", IF o = Reset THEN 0 ELSE o) \/ (x = Refuses /\ o # Reset)
    BY <1>6 DEF RangeSetter, SetSharpness
  <2> QED
    BY <1>1, <1>2, <1>3, <1>4, <1>5, <1>6, <2>1 DEF ControlsOf, AtRest
<1>7. CASE p = 1
  <2>1. x = One("contrast", IF o = Reset THEN 0 ELSE o) \/ (x = Refuses /\ o # Reset)
    BY <1>7 DEF RangeSetter, SetContrast
  <2> QED
    BY <1>1, <1>2, <1>3, <1>4, <1>5, <1>7, <2>1 DEF ControlsOf, AtRest
<1>8. CASE p = 2
  <2>1. x = One("brightness", IF o = Reset THEN 50 ELSE o) \/ (x = Refuses /\ o # Reset)
    BY <1>8 DEF RangeSetter, SetBrightness
  <2> QED
    BY <1>1, <1>2, <1>3, <1>4, <1>5, <1>8, <2>1 DEF ControlsOf, AtRest
<1>9. CASE p = 3
  <2>1. x = One("saturation", IF o = Reset THEN 0 ELSE o) \/ (x = Refuses /\ o # Reset)
    BY <1>9 DEF RangeSetter, SetSaturation
  <2> QED
    BY <1>1, <1>2, <1>3, <1>4, <1>5, <1>9, <2>1 DEF ControlsOf, AtRest
<1>10. CASE p = 4
  <2>1. x = One("ev", IF o = Reset THEN 0 ELSE o)
    BY <1>10 DEF RangeSetter, SetExposureCompensation
  <2> QED
    BY <1>2, <1>3, <1>4, <1>5, <1>10, <2>1 DEF ControlsOf, AtRest
<1>11. CASE p = 5
  <2>1. x = One("exposure", IF o = Reset THEN "auto" ELSE ModeAt(ExposureMap, o))
    BY <1>11 DEF RangeSetter, SetExposureMode
  <2> QED
    BY <1>2, <1>3, <1>4, <1>5, <1>11, <2>1 DEF ControlsOf, AtRest
<1>12. CASE p = 6
  <2>1. x = One("awb", IF o = Reset THEN "auto" ELSE ModeAt(AwbMap, o))
    BY <1>12 DEF RangeSetter, SetAwbMode
  <2> QED
    BY <1>2, <1>3, <1>4, <1>5, <1>12, <2>1 DEF ControlsOf, AtRest
<1>13. CASE p = 7
  <2>1. x = One("imageFX", IF o = Reset THEN "none" ELSE ModeAt(ImageFxMap, o))
    BY <1>13 DEF RangeSetter, SetImageFX
  <2> QED
    BY <1>2, <1>3, <1>4, <1>5, <1>13, <2>1 DEF ControlsOf, AtRest
<1> QED
  BY <1>6, <1>7, <1>8, <1>9, <1>10, <1>11, <1>12, <1>13

(* One more call: what it does not send is left alone. *)
LEMMA RestsStay ==
  ASSUME NEW cam, NEW p \in 0 .. 9, NEW o, NEW x, DOMAIN x.sends \subseteq ControlsOf(p),
         Rests(cam, p, o)
  PROVE  \A q \in 0 .. p - 1 : AtRest(Sent(cam, x, {}), q)
<1>1. ASSUME NEW q \in 0 .. p - 1 PROVE AtRest(Sent(cam, x, {}), q)
  <2>1. q \in 0 .. 9 /\ p # q
    OBVIOUS
  <2>2. AtRest(cam, q)
    BY DEF Rests
  <2> QED
    BY <2>1, <2>2, OthersStay
<1> QED
  BY <1>1

(* A stage of a call: where it has got to, and what is at rest then. *)
Stage(s) == Place(s.p, s.o) /\ NoRegions(s.setters)
After(cam, s) == SentAll(cam, s.setters, {})
Rested(cam, s) == Rests(After(cam, s), s.p, s.o)

LEMMA RangeStage ==
  ASSUME NEW cam, NEW s, Stage(s), s.p \in 0 .. 7
  PROVE  LET t == CycleRange(s)
         IN  /\ Stage(t) /\ t.p \in {s.p, s.p + 1}
             /\ Rested(cam, s) => Rested(cam, t)
<1> DEFINE t == CycleRange(s)
<1>1. PICK p, o, n, x : p = s.p /\ o = s.o /\ n = NewOption(p, o) /\ x = RangeSetter(p, n)
  OBVIOUS
<1>2. p \in 0 .. 7 /\ o \in Int
  BY <1>1 DEF Stage, Place
<1>3. n \in Int
  <2>1. /\ UpdateCycle(o, -100, 100, 10) \in Int /\ UpdateCycle(o, 0, 100, 10) \in Int
        /\ UpdateCycle(o, -10, 10, 4) \in Int
    BY <1>2 DEF UpdateCycle, Reset
  <2>2. \A max : UpdateCycle(o, 0, max, 1) \in Int
    BY <1>2 DEF UpdateCycle, Reset
  <2> HIDE DEF t
  <2>3. CASE p \in 0 .. 3
    BY <1>1, <2>1, <2>3 DEF NewOption
  <2>4. CASE p = 4
    BY <1>1, <2>1, <2>4 DEF NewOption
  <2>5. CASE p \in 5 .. 7
    BY <1>1, <2>2, <2>5 DEF NewOption
  <2> QED
    BY <1>2, <2>3, <2>4, <2>5
<1>4. /\ t.p = (IF n = Reset THEN p + 1 ELSE p) /\ t.o = n /\ t.setters = Append(s.setters, x)
  BY <1>1 DEF CycleRange
<1> HIDE DEF t
<1>5. RegionSent(x) /\ DOMAIN x.sends \subseteq ControlsOf(p)
  BY <1>1, <1>2, <1>3, RangeFacts
<1>6. NoRegions(t.setters) /\ After(cam, t) = Sent(After(cam, s), x, {})
  BY <1>4, <1>5, OneMore DEF Stage, After
<1>7. t.p \in {p, p + 1} /\ t.p \in 0 .. 8 /\ (t.p = 8 => t.o = Reset)
  BY <1>2, <1>4
<1>8. Stage(t)
  BY <1>3, <1>4, <1>6, <1>7 DEF Stage, Place
<1>9. ASSUME Rested(cam, s) PROVE Rested(cam, t)
  <2>1. \A q \in 0 .. p - 1 : AtRest(After(cam, t), q)
    BY <1>1, <1>2, <1>5, <1>6, <1>9, RestsStay DEF Rested
  <2>2. n = Reset => AtRest(After(cam, t), p)
    BY <1>1, <1>2, <1>3, <1>6, RangeFacts
  <2>3. \A q \in 0 .. t.p - 1 : AtRest(After(cam, t), q)
    BY <1>2, <1>4, <2>1, <2>2
  <2> QED
    BY <1>7, <2>3 DEF Rested, Rests
<1> QED
  BY <1>1, <1>7, <1>8, <1>9 DEF t

LEMMA ColourStage ==
  ASSUME NEW cam, NEW s, Stage(s), s.p = 8
  PROVE  LET t == CycleColour(s)
         IN  /\ Stage(t) /\ t.p \in {8, 9}
             /\ Rested(cam, s) => Rested(cam, t)
<1> DEFINE t == CycleColour(s)
<1>1. s.o \in {Reset, 1, 2}
  BY DEF Stage, Place
<1>2. PICK v : /\ v.enable = 0 /\ t.setters = Append(s.setters, One("colourFX", v))
               /\ t.p \in {8, 9} /\ t.o \in {Reset, 1, 2} /\ (t.p = 9 => t.o = Reset)
  <2>1. CASE s.o = Reset
    BY <2>1 DEF CycleColour, SetColourFX, Reset
  <2>2. CASE s.o = 1
    BY <2>2 DEF CycleColour, SetColourFX, Reset
  <2>3. CASE s.o = 2
    BY <2>3 DEF CycleColour, SetColourFX, Reset
  <2> QED
    BY <1>1, <2>1, <2>2, <2>3
<1> HIDE DEF t
<1>3. PICK x : x = One("colourFX", v)
  OBVIOUS
<1>4. RegionSent(x) /\ DOMAIN x.sends \subseteq ControlsOf(8)
  BY <1>3, OthersSendNoRegion, OneIs DEF ControlsOf
<1>5. NoRegions(t.setters) /\ After(cam, t) = Sent(After(cam, s), x, {})
  BY <1>2, <1>3, <1>4, OneMore DEF Stage, After
<1>6. Stage(t)
  BY <1>2, <1>5 DEF Stage, Place, Reset
<1>7. ASSUME Rested(cam, s) PROVE Rested(cam, t)
  <2>1. \A q \in 0 .. 7 : AtRest(After(cam, t), q)
    BY <1>4, <1>5, <1>7, RestsStay DEF Rested
  <2>2. After(cam, t)["colourFX"] = v
    BY <1>3, <1>5, SentOne DEF Controls
  <2>3. AtRest(After(cam, t), 8)
    BY <1>2, <2>2 DEF AtRest
  <2>4. \A q \in 0 .. t.p - 1 : q \in 0 .. 7 \/ q = 8
    BY <1>2
  <2>5. \A q \in 0 .. t.p - 1 : AtRest(After(cam, t), q)
    BY <2>1, <2>3, <2>4
  <2> QED
    BY <1>2, <2>5 DEF Rested, Rests, Reset
<1> QED
  BY <1>2, <1>6, <1>7 DEF t

LEMMA RotationSent ==
  ASSUME NEW r, NEW cam
  PROVE  /\ RegionSent(SetRotation(r)) /\ DOMAIN SetRotation(r).sends = Rotations
         /\ r = 0 => \A c \in Rotations : Sent(cam, SetRotation(r), {})[c] = 0
<1>1. /\ DOMAIN SetRotation(r).sends = Rotations
      /\ \A c \in Rotations : SetRotation(r).sends[c] = Quarters(r)
  BY DEF SetRotation, Setter, Rotations
<1>2. Quarters(0) = 0
  BY DEF Quarters
<1>3. "ROI" \notin Rotations /\ Rotations \subseteq Controls
  BY DEF Rotations, Controls
<1> QED
  BY <1>1, <1>2, <1>3 DEF RegionSent, Sent

LEMMA FlipsSent ==
  ASSUME NEW h, NEW v
  PROVE  /\ RegionSent(SetFlips(h, v)) /\ DOMAIN SetFlips(h, v).sends = Flips
         /\ \A c \in Flips : SetFlips(h, v).sends[c] = <<h # 0, v # 0>>
<1>1. PICK w : w = <<h # 0, v # 0>>
  OBVIOUS
<1>2. /\ DOMAIN SetFlips(h, v).sends = Flips
      /\ \A c \in Flips : SetFlips(h, v).sends[c] = w
  BY <1>1 DEF SetFlips, Setter, Flips
<1>3. "ROI" \notin Flips
  BY DEF Flips
<1> QED
  BY <1>1, <1>2, <1>3 DEF RegionSent

(* The controls after a flip, and after the last one. *)
LEMMA FlipsLeaveRotations ==
  ASSUME NEW h, NEW v, NEW x, x = SetFlips(h, v), NEW cam, NEW flipped, flipped = Sent(cam, x, {})
  PROVE  \A c \in Rotations : flipped[c] = cam[c]
<1>1. DOMAIN x.sends = Flips
  BY FlipsSent
<1>2. Rotations \subseteq Controls /\ Rotations \cap Flips = {}
  BY DEF Rotations, Flips, Controls
<1> QED
  BY <1>1, <1>2 DEF Sent

LEMMA LastFlips ==
  ASSUME NEW x, x = SetFlips(0, 0), NEW cam, NEW flipped, flipped = Sent(cam, x, {})
  PROVE  \A c \in Flips : flipped[c] = <<FALSE, FALSE>>
<1>1. PICK w : w = <<0 # 0, 0 # 0>>
  OBVIOUS
<1>2. w = <<FALSE, FALSE>>
  <2>1. (0 # 0) = FALSE
    OBVIOUS
  <2> QED
    BY <1>1, <2>1
<1>3. DOMAIN x.sends = Flips /\ \A c \in Flips : x.sends[c] = w
  BY <1>1 DEF SetFlips, Setter, Flips
<1>4. Flips \subseteq Controls
  BY DEF Flips, Controls
<1> QED
  BY <1>2, <1>3, <1>4 DEF Sent

LEMMA ThenFacts ==
  ASSUME NEW cam, NEW s, NoRegions(s.setters), NEW o, NEW x, RegionSent(x)
  PROVE  LET t == Then(s, o, x)
         IN  /\ t.p = s.p /\ t.o = o /\ NoRegions(t.setters)
             /\ After(cam, t) = Sent(After(cam, s), x, {})
  BY OneMore DEF Then, After

LEMMA OrientationStage ==
  ASSUME NEW cam, NEW s, Stage(s), s.p = 9
  PROVE  LET t == CycleOrientation(s)
         IN  /\ Stage(t) /\ t.p \in {9, 10}
             /\ Rested(cam, s) => Rested(cam, t)
<1> DEFINE t == CycleOrientation(s)
<1>1. s.o \in {Reset, 1, 2, 3, 4, 5, 6} /\ NoRegions(s.setters)
  BY DEF Stage, Place
<1>2. Rotations \subseteq ControlsOf(9) /\ Flips \subseteq ControlsOf(9) /\ 9 \in 0 .. 9
  BY DEF ControlsOf
<1>3. PICK before : before = After(cam, s)
  OBVIOUS
<1>4. Rested(cam, s) <=> Rests(before, 9, s.o)
  BY <1>3 DEF Rested
(* A rotation by a quarter, which is undone later. *)
<1>5. ASSUME NEW o \in {1, 2, 3}, NEW r, t = Then(s, o, SetRotation(r))
      PROVE  Stage(t) /\ t.p = 9 /\ (Rested(cam, s) => Rested(cam, t))
  <2>1. PICK x : x = SetRotation(r)
    OBVIOUS
  <2>2. RegionSent(x) /\ DOMAIN x.sends \subseteq ControlsOf(9)
    BY <1>2, <2>1, RotationSent
  <2> HIDE DEF t
  <2>3. t.p = 9 /\ t.o = o /\ NoRegions(t.setters) /\ After(cam, t) = Sent(before, x, {})
    BY <1>1, <1>3, <1>5, <2>1, <2>2, ThenFacts
  <2>4. Stage(t)
    BY <2>3 DEF Stage, Place, Reset
  <2>5. ASSUME Rested(cam, s) PROVE Rested(cam, t)
    <3>1. \A q \in 0 .. 9 - 1 : AtRest(Sent(before, x, {}), q)
      BY <1>2, <1>4, <2>2, <2>5, RestsStay
    <3>2. o \notin {4, 5, 6}
      OBVIOUS
    <3> QED
      BY <2>3, <3>1, <3>2 DEF Rested, Rests
  <2> QED
    BY <2>3, <2>4, <2>5
(* A flip, with the rotation undone. *)
<1>6. ASSUME NEW o \in {5, 6}, s.o \in {4, 5}, NEW h, NEW v, t = Then(s, o, SetFlips(h, v))
      PROVE  Stage(t) /\ t.p = 9 /\ (Rested(cam, s) => Rested(cam, t))
  <2>1. PICK x : x = SetFlips(h, v)
    OBVIOUS
  <2>2. RegionSent(x) /\ DOMAIN x.sends \subseteq ControlsOf(9)
    BY <1>2, <2>1, FlipsSent
  <2> HIDE DEF t
  <2>3. t.p = 9 /\ t.o = o /\ NoRegions(t.setters) /\ After(cam, t) = Sent(before, x, {})
    BY <1>1, <1>3, <1>6, <2>1, <2>2, ThenFacts
  <2>4. Stage(t)
    BY <2>3 DEF Stage, Place, Reset
  <2>5. ASSUME Rested(cam, s) PROVE Rested(cam, t)
    <3>1. \A q \in 0 .. 9 - 1 : AtRest(Sent(before, x, {}), q)
      BY <1>2, <1>4, <2>2, <2>5, RestsStay
    <3>2. \A c \in Rotations : before[c] = 0
      BY <1>4, <1>6, <2>5 DEF Rests
    <3>3. \A c \in Rotations : Sent(before, x, {})[c] = before[c]
      <4>1. PICK flipped : flipped = Sent(before, x, {})
        OBVIOUS
      <4> QED
        BY <2>1, <4>1, FlipsLeaveRotations
    <3> QED
      BY <2>3, <3>1, <3>2, <3>3 DEF Rested, Rests
  <2> QED
    BY <2>3, <2>4, <2>5
(* The rotation is undone and the first flip made. *)
<1>7. ASSUME t = Then(Then(s, 3, SetRotation(0)), 4, SetFlips(1, 0))
      PROVE  Stage(t) /\ t.p = 9 /\ (Rested(cam, s) => Rested(cam, t))
  <2>1. PICK x, y, u : x = SetRotation(0) /\ y = SetFlips(1, 0) /\ u = Then(s, 3, x)
    OBVIOUS
  <2>2. /\ RegionSent(x) /\ DOMAIN x.sends \subseteq ControlsOf(9)
        /\ RegionSent(y) /\ DOMAIN y.sends \subseteq ControlsOf(9)
    BY <1>2, <2>1, RotationSent, FlipsSent
  <2>3. PICK between : between = Sent(before, x, {})
    OBVIOUS
  <2>4. u.p = 9 /\ NoRegions(u.setters) /\ After(cam, u) = between
    BY <1>1, <1>3, <2>1, <2>2, <2>3, ThenFacts
  <2>5. t = Then(u, 4, y)
    BY <1>7, <2>1
  <2> HIDE DEF t
  <2>6. t.p = 9 /\ t.o = 4 /\ NoRegions(t.setters) /\ After(cam, t) = Sent(between, y, {})
    BY <2>2, <2>4, <2>5, ThenFacts
  <2>7. Stage(t)
    BY <2>6 DEF Stage, Place, Reset
  <2>8. ASSUME Rested(cam, s) PROVE Rested(cam, t)
    <3>1. \A q \in 0 .. 9 - 1 : AtRest(between, q)
      BY <1>2, <1>4, <2>2, <2>3, <2>8, RestsStay
    <3>2. \A c \in Rotations : between[c] = 0
      BY <2>1, <2>3, RotationSent
    <3>3. Rests(between, 9, 4)
      BY <3>1, <3>2 DEF Rests
    <3>4. \A q \in 0 .. 9 - 1 : AtRest(Sent(between, y, {}), q)
      BY <1>2, <2>2, <3>3, RestsStay
    <3>5. \A c \in Rotations : Sent(between, y, {})[c] = between[c]
      <4>1. PICK flipped : flipped = Sent(between, y, {})
        OBVIOUS
      <4> QED
        BY <2>1, <4>1, FlipsLeaveRotations
    <3> QED
      BY <2>6, <3>2, <3>4, <3>5 DEF Rested, Rests
  <2> QED
    BY <2>6, <2>7, <2>8
(* The flips are undone. *)
<1>8. ASSUME s.o = 6, t = [p |-> 10, o |-> Reset, setters |-> Append(s.setters, SetFlips(0, 0))]
      PROVE  Stage(t) /\ t.p = 10 /\ (Rested(cam, s) => Rested(cam, t))
  <2>1. PICK x : x = SetFlips(0, 0)
    OBVIOUS
  <2>2. RegionSent(x) /\ DOMAIN x.sends \subseteq ControlsOf(9)
    BY <1>2, <2>1, FlipsSent
  <2>3. t.p = 10 /\ t.o = Reset /\ t.setters = Append(s.setters, x)
    BY <1>8, <2>1
  <2> HIDE DEF t
  <2>4. NoRegions(t.setters) /\ After(cam, t) = Sent(before, x, {})
    BY <1>1, <1>3, <2>2, <2>3, OneMore DEF After
  <2>5. Stage(t)
    BY <2>3, <2>4 DEF Stage, Place, Reset
  <2>6. ASSUME Rested(cam, s) PROVE Rested(cam, t)
    <3>1. \A q \in 0 .. 9 - 1 : AtRest(Sent(before, x, {}), q)
      BY <1>2, <1>4, <2>2, <2>6, RestsStay
    <3>2. \A c \in Rotations : before[c] = 0
      BY <1>4, <1>8, <2>6 DEF Rests
    <3>3. \A c \in Rotations : Sent(before, x, {})[c] = before[c]
      <4>1. PICK flipped : flipped = Sent(before, x, {})
        OBVIOUS
      <4> QED
        BY <2>1, <4>1, FlipsLeaveRotations
    <3>4. \A c \in Flips : Sent(before, x, {})[c] = <<FALSE, FALSE>>
      <4>1. PICK flipped : flipped = Sent(before, x, {})
        OBVIOUS
      <4> QED
        BY <2>1, <4>1, LastFlips
    <3>5. AtRest(Sent(before, x, {}), 9)
      BY <3>2, <3>3, <3>4, OrientationAtRest
    <3>6. \A q \in 0 .. 10 - 1 : AtRest(Sent(before, x, {}), q)
      <4>1. \A q \in 0 .. 10 - 1 : q \in 0 .. 9 - 1 \/ q = 9
        OBVIOUS
      <4> QED
        BY <3>1, <3>5, <4>1
    <3> QED
      BY <2>3, <2>4, <3>6 DEF Rested, Rests
  <2> QED
    BY <2>3, <2>5, <2>6
<1>9. Reset \notin {1, 2, 3, 4, 5, 6}
  BY DEF Reset
<1>10. \/ \E o \in {1, 2, 3} : \E r : t = Then(s, o, SetRotation(r))
       \/ s.o \in {4, 5} /\ \E o \in {5, 6} : \E h, v : t = Then(s, o, SetFlips(h, v))
       \/ t = Then(Then(s, 3, SetRotation(0)), 4, SetFlips(1, 0))
       \/ s.o = 6 /\ t = [p |-> 10, o |-> Reset, setters |-> Append(s.setters, SetFlips(0, 0))]
  <2>1. CASE s.o \in {Reset, 1, 2}
    <3>1. t \in {Then(s, 1, SetRotation(90)), Then(s, 2, SetRotation(180)), Then(s, 3, SetRotation(270))}
      BY <1>9, <2>1 DEF CycleOrientation
    <3> QED
      BY <3>1, Zenon
  <2>2. CASE s.o = 3
    BY <1>9, <2>2 DEF CycleOrientation
  <2>3. CASE s.o \in {4, 5}
    <3>1. t \in {Then(s, 5, SetFlips(0, 1)), Then(s, 6, SetFlips(1, 1))}
      BY <1>9, <2>3 DEF CycleOrientation
    <3> QED
      BY <2>3, <3>1, Zenon
  <2>4. CASE s.o = 6
    BY <1>9, <2>4 DEF CycleOrientation
  <2> QED
    BY <1>1, <2>1, <2>2, <2>3, <2>4
<1> HIDE DEF t
<1>11. Stage(t) /\ t.p \in {9, 10} /\ (Rested(cam, s) => Rested(cam, t))
  BY <1>5, <1>6, <1>7, <1>8, <1>10
<1> QED
  BY <1>11 DEF t

(* The cycle ends with the last of them. *)
LEMMA LastOrientation ==
  ASSUME NEW s, Stage(s), s.p = 9, CycleOrientation(s).p = 10
  PROVE  s.o = 6
<1>1. s.o \in {Reset, 1, 2, 3, 4, 5, 6}
  BY DEF Stage, Place
<1>2. \A u, o, x : Then(u, o, x).p = u.p
  BY DEF Then
<1>3. CASE s.o \in {Reset, 1, 2}
  BY <1>2, <1>3 DEF CycleOrientation, Reset
<1>4. CASE s.o = 3
  BY <1>2, <1>4 DEF CycleOrientation, Reset
<1>5. CASE s.o \in {4, 5}
  BY <1>2, <1>5 DEF CycleOrientation, Reset
<1> QED
  BY <1>1, <1>3, <1>4, <1>5

(* A whole call. *)
LEMMA CycleKeeps ==
  ASSUME NEW cam, NEW p, NEW o, Place(p, o), p # 10
  PROVE  LET s == CycleFrom(p, o)
             sent == SentAll(cam, s.setters, {})
         IN  /\ Place(s.p, s.o) /\ s.p # 10 /\ NoRegions(s.setters)
             /\ Rests(cam, p, o) =>
                  /\ Rests(sent, s.p, s.o)
                  /\ s.p # p => \A q \in 0 .. (IF s.p > p THEN s.p ELSE 10) - 1 : AtRest(sent, q)
<1>1. PICK s0 : s0 = [p |-> p, o |-> o, setters |-> <<>>]
  OBVIOUS
<1>2. PICK s1 : s1 = IF p <= 6 THEN CycleRange(s0) ELSE s0
  OBVIOUS
<1>3. PICK s2 : s2 = IF s1.p = 7 THEN CycleRange(s1) ELSE s1
  OBVIOUS
<1>4. PICK s3 : s3 = IF s2.p = 8 THEN CycleColour(s2) ELSE s2
  OBVIOUS
<1>5. PICK s4 : s4 = IF s3.p = 9 THEN CycleOrientation(s3) ELSE s3
  OBVIOUS
<1>6. PICK s : s = CycleFrom(p, o)
  OBVIOUS
<1>7. s = IF s4.p = 10 THEN [s4 EXCEPT !.p = 1] ELSE s4
  BY <1>1, <1>2, <1>3, <1>4, <1>5, <1>6 DEF CycleFrom
<1>8. p \in 0 .. 9
  BY DEF Place
<1>9. Stage(s0) /\ s0.p = p /\ (Rests(cam, p, o) => Rested(cam, s0))
  <2>1. s0.p = p /\ s0.o = o /\ s0.setters = <<>>
    BY <1>1
  <2>2. NoRegions(<<>>)
    <3>1. PICK S : S = {}
      OBVIOUS
    <3>2. <<>> \in Seq(S) /\ \A x \in S : RegionSent(x)
      BY <3>1
    <3> QED
      BY <3>2 DEF NoRegions
  <2>3. PICK nothing : nothing = SentAll(cam, <<>>, {})
    OBVIOUS
  <2>4. \A c \in Controls : nothing[c] = cam[c]
    BY <2>3 DEF SentAll
  <2>5. ASSUME Rests(cam, p, o) PROVE Rests(nothing, p, o)
    <3>1. ASSUME NEW q \in 0 .. p - 1 PROVE AtRest(nothing, q)
      <4>1. q \in 0 .. 9 /\ AtRest(cam, q)
        BY <1>8, <2>5 DEF Rests
      <4>2. \A c \in ControlsOf(q) : nothing[c] = cam[c]
        BY <2>4, <4>1, ControlsAreControls
      <4> QED
        BY <4>1, <4>2, RestDepends
    <3>2. Rotations \subseteq Controls
      BY DEF Rotations, Controls
    <3> QED
      BY <2>4, <2>5, <3>1, <3>2 DEF Rests
  <2> QED
    BY <2>1, <2>2, <2>3, <2>5 DEF Stage, Rested, After
<1>10. /\ Stage(s1) /\ s1.p \in 0 .. 9 /\ s1.p >= p
       /\ Rested(cam, s0) => Rested(cam, s1)
  BY <1>2, <1>8, <1>9, RangeStage
<1>11. /\ Stage(s2) /\ s2.p \in 0 .. 9 /\ s2.p >= p
       /\ Rested(cam, s1) => Rested(cam, s2)
  BY <1>3, <1>8, <1>10, RangeStage
<1>12. /\ Stage(s3) /\ s3.p \in 0 .. 9 /\ s3.p >= p
       /\ Rested(cam, s2) => Rested(cam, s3)
  BY <1>4, <1>8, <1>11, ColourStage
<1>13. /\ Stage(s4) /\ s4.p \in 0 .. 10 /\ s4.p >= p
       /\ Rested(cam, s3) => Rested(cam, s4)
  BY <1>5, <1>8, <1>12, OrientationStage
<1>14. PICK sent : sent = After(cam, s4)
  OBVIOUS
<1>15. CASE s4.p # 10
  <2>1. s = s4
    BY <1>7, <1>15
  <2>2. ASSUME Rests(cam, p, o)
        PROVE  /\ Rests(sent, s.p, s.o)
               /\ s.p # p => \A q \in 0 .. (IF s.p > p THEN s.p ELSE 10) - 1 : AtRest(sent, q)
    <3>1. Rests(sent, s.p, s.o)
      BY <1>9, <1>10, <1>11, <1>12, <1>13, <1>14, <2>1, <2>2 DEF Rested
    <3>2. \A q \in 0 .. s.p - 1 : AtRest(sent, q)
      BY <3>1 DEF Rests
    <3>3. s.p # p => s.p > p
      BY <1>8, <1>13, <2>1
    <3> QED
      BY <3>1, <3>2, <3>3
  <2> QED
    BY <1>6, <1>13, <1>14, <1>15, <2>1, <2>2 DEF Stage, After
<1>16. CASE s4.p = 10
  <2>1. s.p = 1 /\ s.o = s4.o /\ s.setters = s4.setters
    <3>1. s4 = CycleOrientation(s3) /\ s3.o = 6
      BY <1>5, <1>12, <1>16, LastOrientation
    <3>2. s4 = [p |-> 10, o |-> Reset, setters |-> Append(s3.setters, SetFlips(0, 0))]
      BY <3>1 DEF CycleOrientation, Reset
    <3> QED
      BY <1>7, <1>16, <3>2
  <2>2. s4.o \in Int /\ NoRegions(s4.setters)
    BY <1>13 DEF Stage, Place
  <2>3. Place(s.p, s.o)
    BY <2>1, <2>2 DEF Place
  <2>4. ASSUME Rests(cam, p, o)
        PROVE  /\ Rests(sent, s.p, s.o)
               /\ s.p # p => \A q \in 0 .. (IF s.p > p THEN s.p ELSE 10) - 1 : AtRest(sent, q)
    <3>1. \A q \in 0 .. 10 - 1 : AtRest(sent, q)
      BY <1>9, <1>10, <1>11, <1>12, <1>13, <1>14, <1>16, <2>4 DEF Rested, Rests
    <3>2. Rests(sent, s.p, s.o)
      BY <2>1, <3>1 DEF Rests
    <3> QED
      BY <1>8, <2>1, <3>1, <3>2
  <2> QED
    BY <1>6, <1>14, <2>1, <2>2, <2>3, <2>4 DEF After
<1> QED
  BY <1>15, <1>16

-----------------------------------------------------------------------------
(* The camera and the demo, step by step *)

DemoTypes == Place(parameter, option) /\ parameter # 10

LEMMA CameraTypesKept ==
  ASSUME CameraTypes, DemoTypes, CamNext
  PROVE  CameraTypes'
<1>1. ASSUME NEW o \in Options, ParseCmdline(o) PROVE CameraTypes'
  <2>1. o[1] \in Commands /\ (o[1] = "roi" => o[2] \in Rectangle)
    BY OptionsAssumption
  <2>2. params' = params \/ params' = Parsed(params, o[1], o[2])
    BY <1>1 DEF ParseCmdline
  <2>3. camera' = camera
    BY <1>1 DEF ParseCmdline
  <2>4. CASE params' = params
    BY <2>3, <2>4 DEF CameraTypes
  <2>5. CASE params' = Parsed(params, o[1], o[2])
    <3>1. PICK c, a : c = o[1] /\ a = o[2]
      OBVIOUS
    <3> QED
      BY <2>1, <2>3, <2>5, <3>1, ParsedRegion DEF CameraTypes
  <2> QED
    BY <2>2, <2>4, <2>5
<1>2. ASSUME NEW mode, CreateCamera(mode) PROVE CameraTypes'
  <2>1. params' = params
    BY <1>2 DEF CreateCamera
  <2>2. PICK fails : \/ camera' = camera
                     \/ camera' = Sent(SentAll(camera, Stereos(params) \o AllSetters(params), fails),
                                       Annotation(params), fails)
    BY <1>2 DEF CreateCamera
  <2>3. PICK S : AllSetters(params) \in Seq(S) /\ \A s \in S : RegionSent(s)
    BY AllSendRegions DEF CameraTypes
  <2>4. PICK T : Stereos(params) \in Seq(T) /\ \A s \in T : RegionSent(s)
    BY StereosSendNoRegion
  <2>5. PICK U : U = S \cup T
    OBVIOUS
  <2>6. AllSetters(params) \in Seq(U) /\ Stereos(params) \in Seq(U)
    BY <2>3, <2>4, <2>5
  <2>7. PICK setters \in Seq(U) : setters = Stereos(params) \o AllSetters(params)
    <3>1. PICK first, last : first = Stereos(params) /\ last = AllSetters(params)
      OBVIOUS
    <3>2. first \o last \in Seq(U)
      BY <2>6, <3>1
    <3> QED
      BY <3>1, <3>2
  <2>8. \A s \in U : RegionSent(s)
    BY <2>3, <2>4, <2>5
  <2>9. PICK cam : cam = SentAll(camera, setters, fails)
    OBVIOUS
  <2>10. cam["ROI"] \in Rectangle
    BY <2>7, <2>8, <2>9, SentRegion DEF CameraTypes
  <2>11. RegionSent(Annotation(params))
    BY OthersSendNoRegion DEF Annotation, SetAnnotate
  <2>12. Sent(cam, Annotation(params), fails)["ROI"] \in Rectangle
    BY <2>10, <2>11 DEF Sent, RegionSent, Controls
  <2> QED
    BY <2>1, <2>2, <2>7, <2>9, <2>12 DEF CameraTypes
<1>3. ASSUME InitCamera PROVE CameraTypes'
  <2>1. PICK fails : params' = params /\ camera' = SentAll(camera, AllSetters(params), fails)
    BY <1>3 DEF InitCamera
  <2>2. PICK S : AllSetters(params) \in Seq(S) /\ \A s \in S : RegionSent(s)
    BY AllSendRegions DEF CameraTypes
  <2>3. PICK setters \in Seq(S) : setters = AllSetters(params)
    BY <2>2
  <2>4. SentAll(camera, setters, fails)["ROI"] \in Rectangle
    BY <2>2, SentRegion DEF CameraTypes
  <2> QED
    BY <2>1, <2>3, <2>4 DEF CameraTypes
<1>4. ASSUME NEW command \in {"in", "out", "reset"}, Zoom(command) PROVE CameraTypes'
  <2>1. PICK crop : crop = NewCrop(command, camera["ROI"])
    OBVIOUS
  <2>2. crop \in Rectangle
    BY <2>1, NewCropIs DEF CameraTypes
  <2>3. PICK fails : /\ camera' = Sent(camera, SetROI(crop), fails)
                     /\ params' = [params EXCEPT !.roi = Recorded(crop)] \/ params' = params
    BY <1>4, <2>1 DEF Zoom
  <2>4. Recorded(crop) \in Rectangle
    BY <2>2 DEF Recorded, Rectangle
  <2>5. RegionSent(SetROI(crop))
    BY <2>2, OneIs DEF SetROI, RegionSent
  <2>6. camera'["ROI"] \in Rectangle
    BY <2>3, <2>5 DEF Sent, RegionSent, Controls, CameraTypes
  <2> QED
    BY <2>3, <2>4, <2>6 DEF CameraTypes
<1>5. ASSUME CycleTest PROVE CameraTypes'
  <2>1. PICK setters : setters = CycleFrom(parameter, option).setters
    OBVIOUS
  <2>2. PICK S : setters \in Seq(S) /\ \A s \in S : RegionSent(s)
    <3>1. PICK p, o : p = parameter /\ o = option
      OBVIOUS
    <3>2. NoRegions(setters)
      BY <2>1, <3>1, CycleKeeps DEF DemoTypes
    <3> QED
      BY <3>2 DEF NoRegions
  <2>3. PICK fails : camera' = SentAll(camera, setters, fails)
    BY <1>5, <2>1 DEF CycleTest
  <2>4. params' = params
    BY <1>5 DEF CycleTest
  <2>5. SentAll(camera, setters, fails)["ROI"] \in Rectangle
    BY <2>2, SentRegion DEF CameraTypes
  <2> QED
    BY <2>3, <2>4, <2>5 DEF CameraTypes
<1> QED
  BY <1>1, <1>2, <1>3, <1>4, <1>5 DEF CamNext

(* Until the demo begins nothing is tried; while it runs, what was tried   *)
(* is at rest if the firmware refused nothing.                             *)
DemoRests == /\ phase = "demo" \/ (parameter = 0 /\ option = Reset)
             /\ faults \in Nat
             /\ phase = "demo" /\ faults = 0 => Rests(camera, parameter, option)

LEMMA CountedFaults ==
  ASSUME faults \in Nat, NEW fails, Counted(fails)
  PROVE  faults' \in Nat /\ (faults' = 0 => faults = 0 /\ fails = {})
  BY DEF Counted

LEMMA CycleTestRests ==
  ASSUME DemoTypes, DemoRests, CycleTest
  PROVE  /\ DemoTypes' /\ DemoRests'
         /\ parameter' # parameter /\ faults' = 0 =>
              \A q \in 0 .. (IF parameter' > parameter THEN parameter' ELSE 10) - 1 :
                AtRest(camera', q)
<1>1. PICK p, o, cam : p = parameter /\ o = option /\ cam = camera
  OBVIOUS
<1>2. PICK s : s = CycleFrom(p, o)
  OBVIOUS
<1>3. PICK fails : Counted(fails) /\ camera' = SentAll(cam, s.setters, fails)
  BY <1>1, <1>2 DEF CycleTest
<1>4. /\ parameter' = s.p /\ option' = s.o /\ phase = "demo" /\ phase' = "demo"
  BY <1>1, <1>2 DEF CycleTest
<1>5. PICK sent : sent = SentAll(cam, s.setters, {})
  OBVIOUS
<1>6. /\ Place(s.p, s.o) /\ s.p # 10
      /\ Rests(cam, p, o) =>
           /\ Rests(sent, s.p, s.o)
           /\ s.p # p => \A q \in 0 .. (IF s.p > p THEN s.p ELSE 10) - 1 : AtRest(sent, q)
  BY <1>1, <1>2, <1>5, CycleKeeps DEF DemoTypes
<1>7. faults' \in Nat /\ (faults' = 0 => faults = 0 /\ fails = {})
  BY <1>3, CountedFaults DEF DemoRests
<1>8. faults' = 0 => Rests(cam, p, o) /\ camera' = sent
  BY <1>1, <1>3, <1>4, <1>5, <1>7 DEF DemoRests
<1>9. DemoTypes'
  BY <1>4, <1>6 DEF DemoTypes
<1>10. faults' = 0 => Rests(sent, s.p, s.o)
  BY <1>6, <1>8
<1>11. DemoRests'
  <2>1. (phase' = "demo" /\ faults' = 0) => Rests(camera', parameter', option')
    BY <1>4, <1>8, <1>10
  <2> QED
    BY <1>4, <1>7, <2>1 DEF DemoRests
<1> QED
  BY <1>1, <1>4, <1>6, <1>8, <1>9, <1>11

LEMMA DemoKept ==
  ASSUME DemoTypes, DemoRests, CamNext
  PROVE  DemoTypes' /\ DemoRests'
<1>1. CASE CycleTest
  BY <1>1, CycleTestRests
<1>2. CASE /\ UNCHANGED <<parameter, option>> /\ phase # "demo"
           /\ faults' \in Nat
  <2>1. parameter' = 0 /\ option' = Reset
    BY <1>2 DEF DemoRests
  <2>2. Rests(camera', parameter', option')
    BY <2>1 DEF Rests
  <2> QED
    BY <1>2, <2>1, <2>2 DEF DemoTypes, DemoRests, Place
<1>3. ASSUME NEW o \in Options, ParseCmdline(o)
      PROVE  UNCHANGED <<parameter, option>> /\ phase # "demo" /\ faults' \in Nat
  BY <1>3 DEF ParseCmdline, DemoRests
<1>4. ASSUME NEW mode, CreateCamera(mode)
      PROVE  UNCHANGED <<parameter, option>> /\ phase # "demo" /\ faults' \in Nat
  BY <1>4, CountedFaults DEF CreateCamera, DemoRests
<1>5. ASSUME InitCamera
      PROVE  UNCHANGED <<parameter, option>> /\ phase # "demo" /\ faults' \in Nat
  BY <1>5, CountedFaults DEF InitCamera, DemoRests
<1>6. ASSUME NEW command, Zoom(command)
      PROVE  UNCHANGED <<parameter, option>> /\ phase # "demo" /\ faults' \in Nat
  BY <1>6, CountedFaults DEF Zoom, DemoRests
<1> QED
  BY <1>1, <1>2, <1>3, <1>4, <1>5, <1>6 DEF CamNext

CameraInv == CameraTypes /\ DemoTypes /\ DemoRests

LEMMA CameraInvariant == SettingsSpec => []CameraInv
<1>1. SettingsInit => CameraInv
  <2> SUFFICES ASSUME SettingsInit PROVE CameraInv
    OBVIOUS
  <2>1. CamOff
    BY DEF SettingsInit
  <2>2. "roi" \in DOMAIN params /\ params.roi \in Rectangle
    BY <2>1 DEF CamOff, DefaultParameters, Rectangle, Full
  <2>3. camera["ROI"] \in Rectangle
    BY <2>1 DEF CamOff, InitialCamera, Controls, Rectangle, Full
  <2>4. DemoTypes /\ DemoRests
    BY <2>1 DEF CamOff, DemoTypes, DemoRests, Place, Reset
  <2> QED
    BY <2>2, <2>3, <2>4 DEF CameraInv, CameraTypes
<1>2. CameraInv /\ [SettingsNext]_svars => CameraInv'
  <2> SUFFICES ASSUME CameraInv, [SettingsNext]_svars PROVE CameraInv'
    OBVIOUS
  <2>1. CASE CamNext
    BY <2>1, CameraTypesKept, DemoKept DEF CameraInv
  <2>2. CASE UNCHANGED cvars
    BY <2>2 DEF cvars, CameraInv, CameraTypes, DemoTypes, DemoRests
  <2> QED
    BY <2>1, <2>2 DEF SettingsNext, svars
<1> QED
  BY <1>1, <1>2, PTL DEF SettingsSpec

(* RaspiCamControl.c:1366-1432: for any options and refusals, the region   *)
(* recorded at a key is the one the camera crops, if the crop is square.   *)
THEOREM RecordedRegionIsCropped == SettingsSpec => RoiIsTheCrop
<1> DEFINE Right == LET crop == camera'["ROI"]
                    IN  phase = "keys" /\ (params'.roi # params.roi \/ crop # camera["ROI"])
                          /\ crop.width = crop.height => params'.roi = crop
<1>1. CameraInv /\ [SettingsNext]_svars => [Right]_cvars
  <2> SUFFICES ASSUME CameraInv, [SettingsNext]_svars, cvars' # cvars, phase = "keys",
                      params'.roi # params.roi \/ camera'["ROI"] # camera["ROI"],
                      camera'["ROI"].width = camera'["ROI"].height
               PROVE  params'.roi = camera'["ROI"]
    OBVIOUS
  <2>1. CamNext
    BY DEF SettingsNext, svars
  <2>2. PICK command \in {"in", "out", "reset"} : Zoom(command)
    BY <2>1 DEF CamNext, ParseCmdline, CreateCamera, InitCamera, CycleTest
  <2>3. PICK crop : crop = NewCrop(command, camera["ROI"])
    OBVIOUS
  <2>4. crop \in Rectangle /\ crop.x = crop.y
    BY <2>3, NewCropIs DEF CameraInv, CameraTypes
  <2>5. PICK fails : /\ fails = {} \/ fails = {"ROI"}
                     /\ camera' = Sent(camera, SetROI(crop), fails)
                     /\ params' = IF fails = {} THEN [params EXCEPT !.roi = Recorded(crop)] ELSE params
    BY <2>2, <2>3 DEF Zoom
  <2>6. "ROI" \in Controls
    BY DEF Controls
  <2>7. fails = {}
    BY <2>5, <2>6, OneIs DEF Sent, SetROI
  <2>8. camera'["ROI"] = crop
    BY <2>5, <2>6, <2>7, OneIs DEF Sent, SetROI
  <2>9. params'.roi = Recorded(crop)
    BY <2>5, <2>7 DEF CameraInv, CameraTypes
  <2>10. crop.width = crop.height
    BY <2>8
  <2>11. Recorded(crop) = crop
    BY <2>4, <2>10 DEF Recorded, Rectangle
  <2> QED
    BY <2>8, <2>9, <2>11
<1> HIDE DEF Right
<1>2. SettingsSpec => [][Right]_cvars
  BY <1>1, CameraInvariant, PTL DEF SettingsSpec
<1> QED
  BY <1>2 DEF RoiIsTheCrop, Right

(* RaspiCamControl.c:241-424: for any lists of modes, whenever the demo    *)
(* moves on, every control it has tried is back at rest, unless the        *)
(* firmware refused a call.                                                *)
THEOREM DemoPutsBack == SettingsSpec => CycledAreRestored
<1> DEFINE Back ==
      parameter' # parameter /\ faults' = 0 =>
        \A q \in 0 .. (IF parameter' > parameter THEN parameter' ELSE 10) - 1 : AtRest(camera', q)
<1>1. CameraInv /\ [SettingsNext]_svars => [Back]_cvars
  <2> SUFFICES ASSUME CameraInv, [SettingsNext]_svars, cvars' # cvars, parameter' # parameter
               PROVE  Back
    OBVIOUS
  <2>1. CamNext
    BY DEF SettingsNext, svars
  <2>2. CycleTest
    BY <2>1 DEF CamNext, ParseCmdline, CreateCamera, InitCamera, Zoom
  <2> QED
    BY <2>2, CycleTestRests DEF CameraInv
<1> HIDE DEF Back
<1>2. SettingsSpec => [][Back]_cvars
  BY <1>1, CameraInvariant, PTL DEF SettingsSpec
<1> QED
  BY <1>2 DEF CycledAreRestored, Back
-----------------------------------------------------------------------------
(* Files *)

LEMMA PutFacts ==
  ASSUME NEW d, NEW name, NEW file
  PROVE  /\ name # NoName => Opens(Put(d, name, file), name) /\ Put(d, name, file)[name] = file
         /\ \A n \in DOMAIN d : n # name => Opens(Put(d, name, file), n) = Opens(d, n)
                                          /\ Put(d, name, file)[n] = d[n]
         /\ \A n \in DOMAIN Put(d, name, file) :
              \/ n \in DOMAIN d /\ Put(d, name, file)[n] = d[n]
              \/ Put(d, name, file)[n] = file
  BY DEF Put, Opens

(* The keys of different kinds are different. *)
LEMMA KeysApart ==
  /\ FileKeys \cap NumberKeys = {} /\ FileKeys \cap PortKeys = {} /\ NumberKeys \cap PortKeys = {}
  /\ "host" \notin FileKeys /\ "host" \notin NumberKeys /\ "host" \notin PortKeys
  /\ "tcpPort" \notin DetectorKeys /\ "tcpPort" \notin ContourKeys /\ "tcpPort" \notin CameraKeys
  /\ "tcpPort" \notin DOMAIN Defaults
  BY DEF FileKeys, NumberKeys, PortKeys, DetectorKeys, ContourKeys, CameraKeys, Defaults

LEMMA ShortIsShort ==
  ASSUME NEW n \in Int
  PROVE  Short(n) \in Int /\ Short(Short(n)) = Short(n)
  BY DEF Short

(* What ServerConfig::read makes of a file: what is not chosen has its     *)
(* static value.                                                           *)
NamesOK(c) == c.file = [k \in FileKeys |-> c.file[k]]
PortsOK(c) ==
  /\ c.port = [k \in PortKeys |-> c.port[k]] /\ c.enabled = [k \in PortKeys |-> c.enabled[k]]
  /\ \A k \in PortKeys : c.enabled[k] \in BOOLEAN
  /\ \A k \in PortKeys : ~c.enabled[k] => ~Statics.enabled[k] /\ c.port[k] = Statics.port[k]
  /\ c.port["tcpPort"] \in Int /\ Short(c.port["tcpPort"]) = c.port["tcpPort"]
ParametersOK(c) ==
  /\ c.detector = [k \in DetectorKeys |-> c.detector[k]]
  /\ c.contour = [k \in ContourKeys |-> c.contour[k]]
  /\ c.camera = [k \in CameraKeys |-> c.camera[k]]
  /\ c.file["detectorParameters"] = NoName => c.detector = Statics.detector
  /\ c.file["contourParameters"] = NoName => c.contour = Statics.contour
  /\ c.file["cameraParameters"] = NoName => c.camera = Statics.camera
ConfigOK(c) == NamesOK(c) /\ PortsOK(c) /\ ParametersOK(c)

TcpIsNumber(f) == "tcpPort" \in DOMAIN f => f["tcpPort"].value \in Int

LEMMA StaticsOK == ConfigOK(Statics)
<1>1. NamesOK(Statics)
  <2> DEFINE Name(k) == CASE k = "detectorParameters" -> "detectorParams.xml"
                          [] k = "contourParameters"  -> "contourParams.xml"
                          [] k = "cameraParameters"   -> "cameraParams.xml"
                          [] k = "boundsParameters"   -> "boundsParams.xml"
  <2>1. Statics.file = [k \in FileKeys |-> Name(k)]
    BY DEF Statics
  <2> HIDE DEF Name
  <2> QED
    BY <2>1 DEF NamesOK
<1>2. PortsOK(Statics)
  <2>1. /\ Statics.port = [k \in PortKeys |-> IF k = "webPort" THEN 8080 ELSE 3333]
        /\ Statics.enabled = [k \in PortKeys |-> k = "udpPort"]
    BY DEF Statics
  <2>2. Statics.port["tcpPort"] = 3333
    BY <2>1 DEF PortKeys
  <2>3. Short(3333) = 3333
    BY DEF Short
  <2> QED
    BY <2>1, <2>2, <2>3 DEF PortsOK
<1>3. ParametersOK(Statics)
  BY DEF ParametersOK, Statics
<1> QED
  BY <1>1, <1>2, <1>3 DEF ConfigOK

LEMMA ReadFileOK ==
  ASSUME NEW d, NEW f, TcpIsNumber(f)
  PROVE  ConfigOK(ReadFile(d, f, Statics))
<1> DEFINE c == ReadFile(d, f, Statics)
           file == [k \in FileKeys |-> NameOf(f, k, Statics.file[k])]
<1>1. /\ c.file = file
      /\ c.port = [k \in PortKeys |-> LET n == Choice(f, k, Statics.port[k])
                                      IN  IF k = "tcpPort" THEN Short(n) ELSE n]
      /\ c.enabled = [k \in PortKeys |-> Statics.enabled[k] \/ Present(f, k)]
      /\ c.detector = ReadDetectorParameters(d, file["detectorParameters"], Statics.detector)
      /\ c.contour = ReadContourParameters(d, file["contourParameters"])
      /\ c.camera = ReadCameraParameters(d, file["cameraParameters"], Statics.camera)
  BY DEF ReadFile
<1>2. c.file["detectorParameters"] = file["detectorParameters"]
      /\ c.file["contourParameters"] = file["contourParameters"]
      /\ c.file["cameraParameters"] = file["cameraParameters"]
  BY <1>1
<1>3. NamesOK(c)
  BY <1>1 DEF NamesOK
<1> HIDE DEF c, file
<1>4. PortsOK(c)
  <2>1. PICK s : s = Statics
    OBVIOUS
  <2>2. PortsOK(s)
    BY <2>1, StaticsOK DEF ConfigOK
  <2>3. \A k \in PortKeys : ~Present(f, k) => Choice(f, k, s.port[k]) = s.port[k]
    BY DEF Choice, IsChosen
  <2>4. Choice(f, "tcpPort", s.port["tcpPort"]) \in Int
    BY <2>1, <2>2 DEF Choice, IsChosen, Present, TcpIsNumber, PortsOK
  <2>5. "tcpPort" \in PortKeys
    BY DEF PortKeys
  <2>6. PICK n \in Int : n = Choice(f, "tcpPort", s.port["tcpPort"])
    BY <2>4
  <2>7. c.port["tcpPort"] = Short(n)
    BY <1>1, <2>1, <2>5, <2>6
  <2>8. c.port["tcpPort"] \in Int /\ Short(c.port["tcpPort"]) = c.port["tcpPort"]
    BY <2>7, ShortIsShort
  <2>9. \A k \in PortKeys : c.enabled[k] <=> (s.enabled[k] \/ Present(f, k))
    BY <1>1, <2>1
  <2>10. \A k \in PortKeys : c.enabled[k] \in BOOLEAN
    BY <1>1
  <2>11. ASSUME NEW k \in PortKeys, ~c.enabled[k] PROVE ~s.enabled[k] /\ c.port[k] = s.port[k]
    <3>1. ~s.enabled[k] /\ ~Present(f, k)
      BY <2>9, <2>11
    <3>2. Choice(f, k, s.port[k]) = s.port[k]
      BY <2>3, <3>1
    <3>3. CASE k = "tcpPort"
      BY <2>2, <2>6, <2>7, <3>1, <3>2, <3>3 DEF PortsOK
    <3>4. CASE k # "tcpPort"
      BY <1>1, <2>1, <3>1, <3>2, <3>4
    <3> QED
      BY <3>3, <3>4
  <2>12. c.port = [k \in PortKeys |-> c.port[k]] /\ c.enabled = [k \in PortKeys |-> c.enabled[k]]
    BY <1>1
  <2> QED
    BY <2>1, <2>8, <2>10, <2>11, <2>12 DEF PortsOK
<1>5. ParametersOK(c)
  <2>1. /\ Statics.detector = [k \in DetectorKeys |-> 1] /\ Statics.contour = [k \in ContourKeys |-> 1]
        /\ Statics.camera = [k \in CameraKeys |-> 1]
    BY DEF Statics
  <2>2. \A name : ~Opens(d, NoName)
    BY DEF Opens
  <2>3. /\ c.detector = [k \in DetectorKeys |-> c.detector[k]]
        /\ c.file["detectorParameters"] = NoName => c.detector = Statics.detector
    BY <1>1, <1>2, <2>1, <2>2 DEF ReadDetectorParameters
  <2>4. /\ c.contour = [k \in ContourKeys |-> c.contour[k]]
        /\ c.file["contourParameters"] = NoName => c.contour = Statics.contour
    BY <1>1, <1>2, <2>1, <2>2 DEF ReadContourParameters
  <2>5. /\ c.camera = [k \in CameraKeys |-> c.camera[k]]
        /\ c.file["cameraParameters"] = NoName => c.camera = Statics.camera
    BY <1>1, <1>2, <2>1, <2>2 DEF ReadCameraParameters
  <2> QED
    BY <2>3, <2>4, <2>5 DEF ParametersOK
<1> QED
  BY <1>3, <1>4, <1>5 DEF ConfigOK, c

(* What was written, as far as it can be read again. *)
Stored(d, c, b) ==
  /\ Opens(d, Server) /\ d[Server] = ServerFile(c)
  /\ LET n == c.file["detectorParameters"]
     IN  n # NoName => Opens(d, n) /\ d[n] = [k \in DetectorKeys |-> Number(c.detector[k])]
  /\ LET n == c.file["cameraParameters"]
     IN  n # NoName => Opens(d, n) /\ d[n] = [k \in CameraKeys |-> Number(c.camera[k])]
  /\ LET n == c.file["contourParameters"]
     IN  n # NoName => Opens(d, n) /\ d[n] = [k \in ContourKeys |-> Number(c.contour[k])]
  /\ LET n == c.file["boundsParameters"]
     IN  n # NoName => Opens(d, n) /\ d[n] = [k \in DOMAIN Defaults |-> Number(b[k])]

LEMMA WriteStores ==
  ASSUME NEW d, NEW c, NEW b, OwnFiles(c)
  PROVE  Stored(Write(d, c, b), c, b)
<1>1. PICK n1, n2, n3, n4 : /\ n1 = c.file["detectorParameters"] /\ n2 = c.file["cameraParameters"]
                            /\ n3 = c.file["contourParameters"] /\ n4 = c.file["boundsParameters"]
  OBVIOUS
<1>2. PICK f0, f1, f2, f3, f4 :
        /\ f0 = ServerFile(c)
        /\ f1 = [k \in DetectorKeys |-> Number(c.detector[k])]
        /\ f2 = [k \in CameraKeys |-> Number(c.camera[k])]
        /\ f3 = [k \in ContourKeys |-> Number(c.contour[k])]
        /\ f4 = [k \in DOMAIN Defaults |-> Number(b[k])]
  OBVIOUS
<1>3. PICK d0 : d0 = Put(d, Server, f0)
  OBVIOUS
<1>4. PICK d1 : d1 = Put(d0, n1, f1)
  OBVIOUS
<1>5. PICK d2 : d2 = Put(d1, n2, f2)
  OBVIOUS
<1>6. PICK d3 : d3 = Put(d2, n3, f3)
  OBVIOUS
<1>7. PICK d4 : d4 = Put(d3, n4, f4)
  OBVIOUS
<1>8. Write(d, c, b) = d4
  BY <1>1, <1>2, <1>3, <1>4, <1>5, <1>6, <1>7
     DEF Write, WriteDetectorParameters, WriteCameraParameters, WriteContourParameters, WriteBounds
<1>9. /\ Server # NoName /\ n1 # Server /\ n2 # Server /\ n3 # Server /\ n4 # Server
      /\ (n1 = n2 => n1 = NoName) /\ (n1 = n3 => n1 = NoName) /\ (n1 = n4 => n1 = NoName)
      /\ (n2 = n3 => n2 = NoName) /\ (n2 = n4 => n2 = NoName) /\ (n3 = n4 => n3 = NoName)
  BY <1>1 DEF OwnFiles, FileKeys, Server, NoName
<1>10. Opens(d4, Server) /\ d4[Server] = f0
  BY <1>3, <1>4, <1>5, <1>6, <1>7, <1>9, PutFacts DEF Opens
<1>11. n1 # NoName => Opens(d4, n1) /\ d4[n1] = f1
  BY <1>4, <1>5, <1>6, <1>7, <1>9, PutFacts DEF Opens
<1>12. n2 # NoName => Opens(d4, n2) /\ d4[n2] = f2
  BY <1>5, <1>6, <1>7, <1>9, PutFacts DEF Opens
<1>13. n3 # NoName => Opens(d4, n3) /\ d4[n3] = f3
  BY <1>6, <1>7, <1>9, PutFacts DEF Opens
<1>14. n4 # NoName => Opens(d4, n4) /\ d4[n4] = f4
  BY <1>7, PutFacts
<1> QED
  BY <1>1, <1>2, <1>8, <1>10, <1>11, <1>12, <1>13, <1>14 DEF Stored

(* What is found again of what was written. *)
LEMMA FileFound ==
  ASSUME NEW c, NamesOK(c), NEW k \in FileKeys
  PROVE  NameOf(ServerFile(c), k, Statics.file[k]) = c.file[k]
<1>1. k \in DOMAIN ServerFile(c)
  BY DEF ServerFile
<1>2. ServerFile(c)[k] = IF c.file[k] = NoName THEN Number(0) ELSE Text(c.file[k])
  <2>1. k \notin NumberKeys /\ k \notin PortKeys /\ k # "host"
    BY KeysApart
  <2> QED
    BY <1>1, <2>1 DEF ServerFile
<1>3. PICK f, n : f = ServerFile(c) /\ n = c.file[k]
  OBVIOUS
<1>4. CASE n = NoName
  <2>1. f[k] = Number(0)
    BY <1>2, <1>3, <1>4
  <2>2. ~Present(f, k)
    BY <2>1 DEF Present, Number
  <2> QED
    BY <1>3, <1>4, <2>2 DEF NameOf
<1>5. CASE n # NoName
  <2>1. k \in DOMAIN f /\ f[k] = Text(n)
    BY <1>1, <1>2, <1>3, <1>5
  <2>2. Present(f, k) /\ IsChosen(f, k) /\ f[k].value = n
    BY <2>1 DEF IsChosen, Present, Text
  <2> QED
    BY <1>3, <2>2 DEF NameOf, Choice
<1> QED
  BY <1>4, <1>5

LEMMA HostFound ==
  ASSUME NEW c
  PROVE  Choice(ServerFile(c), "host", Statics.host) = c.host
<1>1. PICK f : f = ServerFile(c)
  OBVIOUS
<1>2. "host" \in DOMAIN f
  BY <1>1 DEF ServerFile
<1>3. f["host"] = Text(c.host)
  BY <1>1, KeysApart DEF ServerFile
<1>4. IsChosen(f, "host") /\ f["host"].value = c.host
  BY <1>2, <1>3 DEF IsChosen, Present, Text
<1> QED
  BY <1>1, <1>4 DEF Choice

LEMMA PortFound ==
  ASSUME NEW c, PortsOK(c), NEW k \in PortKeys
  PROVE  /\ (Statics.enabled[k] \/ Present(ServerFile(c), k)) <=> c.enabled[k]
         /\ Choice(ServerFile(c), k, Statics.port[k]) = c.port[k]
<1>1. PICK f, s : f = ServerFile(c) /\ s = Statics
  OBVIOUS
<1>2. CASE c.enabled[k]
  <2>1. k \in DOMAIN f
    BY <1>1, <1>2 DEF ServerFile
  <2>2. k \notin FileKeys /\ k \notin NumberKeys /\ k # "host"
    BY KeysApart
  <2>3. f[k] = PortNode(c, k)
    BY <1>1, <2>1, <2>2 DEF ServerFile
  <2>4. f[k] = Text(c.port[k])
    BY <2>3 DEF PortNode, PortDefault
  <2>5. Present(f, k) /\ IsChosen(f, k) /\ f[k].value = c.port[k]
    BY <2>1, <2>4 DEF IsChosen, Present, Text
  <2> QED
    BY <1>1, <1>2, <2>5 DEF Choice
<1>3. CASE ~c.enabled[k]
  <2>1. k \notin FileKeys /\ k \notin NumberKeys /\ k # "host"
    BY KeysApart
  <2>2. k \notin DOMAIN f
    BY <1>1, <1>3, <2>1 DEF ServerFile
  <2>3. ~Present(f, k) /\ ~IsChosen(f, k)
    BY <2>2 DEF Present, IsChosen
  <2>4. ~s.enabled[k] /\ c.port[k] = s.port[k]
    BY <1>1, <1>3 DEF PortsOK
  <2> QED
    BY <1>1, <1>3, <2>3, <2>4 DEF Choice
<1> QED
  BY <1>2, <1>3

LEMMA NumbersFound ==
  ASSUME NEW K, NEW v, v = [k \in K |-> v[k]], NEW f, f = [k \in K |-> Number(v[k])]
  PROVE  [k \in K |-> NumberOf(f, k)] = v
<1>1. \A k \in K : NumberOf(f, k) = v[k]
  BY DEF NumberOf, Number
<1> QED
  BY <1>1

LEMMA WrittenIsRead ==
  ASSUME NEW d, NEW c, NEW b, ConfigOK(c), Stored(d, c, b)
  PROVE  LET r == Read(d, Server)
         IN  /\ r.file = c.file /\ r.host = c.host /\ r.port = c.port /\ r.enabled = c.enabled
             /\ r.detector = c.detector /\ r.contour = c.contour /\ r.camera = c.camera
<1> DEFINE r == ReadFile(d, ServerFile(c), Statics)
           file == [k \in FileKeys |-> NameOf(ServerFile(c), k, Statics.file[k])]
<1>1. Read(d, Server) = r
  BY DEF Read, Stored
<1>2. file = c.file
  <2>1. \A k \in FileKeys : NameOf(ServerFile(c), k, Statics.file[k]) = c.file[k]
    BY FileFound DEF ConfigOK
  <2>2. c.file = [k \in FileKeys |-> c.file[k]]
    BY DEF ConfigOK, NamesOK
  <2> QED
    BY <2>1, <2>2
<1>3. /\ r.file = file
      /\ r.host = Choice(ServerFile(c), "host", Statics.host)
      /\ r.port = [k \in PortKeys |-> LET n == Choice(ServerFile(c), k, Statics.port[k])
                                      IN  IF k = "tcpPort" THEN Short(n) ELSE n]
      /\ r.enabled = [k \in PortKeys |-> Statics.enabled[k] \/ Present(ServerFile(c), k)]
      /\ r.detector = ReadDetectorParameters(d, file["detectorParameters"], Statics.detector)
      /\ r.contour = ReadContourParameters(d, file["contourParameters"])
      /\ r.camera = ReadCameraParameters(d, file["cameraParameters"], Statics.camera)
  BY DEF ReadFile
<1> HIDE DEF r, file
<1>4. r.host = c.host
  BY <1>3, HostFound
<1>5. r.port = c.port
  <2>1. c.port = [k \in PortKeys |-> c.port[k]] /\ Short(c.port["tcpPort"]) = c.port["tcpPort"]
    BY DEF ConfigOK, PortsOK
  <2>2. ASSUME NEW k \in PortKeys
        PROVE  (LET n == Choice(ServerFile(c), k, Statics.port[k])
                IN  IF k = "tcpPort" THEN Short(n) ELSE n) = c.port[k]
    <3>1. Choice(ServerFile(c), k, Statics.port[k]) = c.port[k]
      BY PortFound DEF ConfigOK
    <3> QED
      BY <2>1, <3>1
  <2> QED
    BY <1>3, <2>1, <2>2
<1>6. r.enabled = c.enabled
  <2>1. c.enabled = [k \in PortKeys |-> c.enabled[k]] /\ \A k \in PortKeys : c.enabled[k] \in BOOLEAN
    BY DEF ConfigOK, PortsOK
  <2>2. \A k \in PortKeys : (Statics.enabled[k] \/ Present(ServerFile(c), k)) <=> c.enabled[k]
    BY PortFound DEF ConfigOK
  <2>3. ASSUME NEW k \in PortKeys
        PROVE  (Statics.enabled[k] \/ Present(ServerFile(c), k)) = c.enabled[k]
    BY <2>1, <2>2
  <2> QED
    BY <1>3, <2>1, <2>3
<1>7. ParametersOK(c)
  BY DEF ConfigOK
<1>8. r.detector = c.detector
  <2>1. PICK n, v : n = c.file["detectorParameters"] /\ v = c.detector
    OBVIOUS
  <2>2. r.detector = ReadDetectorParameters(d, n, Statics.detector)
    BY <1>2, <1>3, <2>1
  <2>3. CASE n = NoName
    BY <1>7, <2>1, <2>2, <2>3 DEF ReadDetectorParameters, Opens, ParametersOK
  <2>4. CASE n # NoName
    <3>1. Opens(d, n) /\ d[n] = [k \in DetectorKeys |-> Number(v[k])]
      BY <2>1, <2>4 DEF Stored
    <3>2. [k \in DetectorKeys |-> NumberOf(d[n], k)] = v
      <4>1. PICK f, K : f = d[n] /\ K = DetectorKeys
        OBVIOUS
      <4>2. v = [k \in K |-> v[k]]
        BY <1>7, <2>1, <4>1 DEF ParametersOK
      <4>3. f = [k \in K |-> Number(v[k])]
        BY <3>1, <4>1
      <4> QED
        BY <4>1, <4>2, <4>3, NumbersFound
    <3> QED
      BY <2>1, <2>2, <3>1, <3>2 DEF ReadDetectorParameters
  <2> QED
    BY <2>3, <2>4
<1>9. r.contour = c.contour
  <2>1. PICK n, v : n = c.file["contourParameters"] /\ v = c.contour
    OBVIOUS
  <2>2. r.contour = ReadContourParameters(d, n)
    BY <1>2, <1>3, <2>1
  <2>3. CASE n = NoName
    <3>1. Statics.contour = [k \in ContourKeys |-> 1]
      BY DEF Statics
    <3> QED
      BY <1>7, <2>1, <2>2, <2>3, <3>1 DEF ReadContourParameters, Opens, ParametersOK
  <2>4. CASE n # NoName
    <3>1. Opens(d, n) /\ d[n] = [k \in ContourKeys |-> Number(v[k])]
      BY <2>1, <2>4 DEF Stored
    <3>2. [k \in ContourKeys |-> NumberOf(d[n], k)] = v
      <4>1. PICK f, K : f = d[n] /\ K = ContourKeys
        OBVIOUS
      <4>2. v = [k \in K |-> v[k]]
        BY <1>7, <2>1, <4>1 DEF ParametersOK
      <4>3. f = [k \in K |-> Number(v[k])]
        BY <3>1, <4>1
      <4> QED
        BY <4>1, <4>2, <4>3, NumbersFound
    <3> QED
      BY <2>1, <2>2, <3>1, <3>2 DEF ReadContourParameters
  <2> QED
    BY <2>3, <2>4
<1>10. r.camera = c.camera
  <2>1. PICK n, v : n = c.file["cameraParameters"] /\ v = c.camera
    OBVIOUS
  <2>2. r.camera = ReadCameraParameters(d, n, Statics.camera)
    BY <1>2, <1>3, <2>1
  <2>3. CASE n = NoName
    BY <1>7, <2>1, <2>2, <2>3 DEF ReadCameraParameters, Opens, ParametersOK
  <2>4. CASE n # NoName
    <3>1. Opens(d, n) /\ d[n] = [k \in CameraKeys |-> Number(v[k])]
      BY <2>1, <2>4 DEF Stored
    <3>2. [k \in CameraKeys |-> NumberOf(d[n], k)] = v
      <4>1. PICK f, K : f = d[n] /\ K = CameraKeys
        OBVIOUS
      <4>2. v = [k \in K |-> v[k]]
        BY <1>7, <2>1, <4>1 DEF ParametersOK
      <4>3. f = [k \in K |-> Number(v[k])]
        BY <3>1, <4>1
      <4> QED
        BY <4>1, <4>2, <4>3, NumbersFound
    <3> QED
      BY <2>1, <2>2, <3>1, <3>2 DEF ReadCameraParameters
  <2> QED
    BY <2>3, <2>4
<1> QED
  BY <1>1, <1>2, <1>3, <1>4, <1>5, <1>6, <1>8, <1>9, <1>10

(* No file says that a port is anything but a number, and what was saved   *)
(* is still there.                                                         *)
DiskIs(d) == \A n \in DOMAIN d : TcpIsNumber(d[n])
BoundsIs(b) == b = [k \in DOMAIN Defaults |-> b[k]]
Copy(c, b) == <<[config |-> c, bounds |-> b, senders |-> Senders(c)]>>

SavedIs ==
  saved # <<>> =>
    \E c, b : /\ saved = Copy(c, b) /\ ConfigOK(c) /\ BoundsIs(b)
              /\ OwnFiles(c) => Stored(disk, c, b)

FilesInv == DiskIs(disk) /\ SavedIs

LEMMA PutKeepsDisk ==
  ASSUME NEW d, DiskIs(d), NEW name, NEW file, TcpIsNumber(file)
  PROVE  DiskIs(Put(d, name, file))
  BY PutFacts DEF DiskIs

LEMMA ParametersHaveNoPorts ==
  ASSUME NEW v
  PROVE  /\ TcpIsNumber([k \in DetectorKeys |-> Number(v[k])])
         /\ TcpIsNumber([k \in CameraKeys |-> Number(v[k])])
         /\ TcpIsNumber([k \in ContourKeys |-> Number(v[k])])
         /\ TcpIsNumber([k \in DOMAIN Defaults |-> Number(v[k])])
  BY KeysApart DEF TcpIsNumber

LEMMA ServerFileHasNumber ==
  ASSUME NEW c, ConfigOK(c)
  PROVE  TcpIsNumber(ServerFile(c))
<1> SUFFICES ASSUME "tcpPort" \in DOMAIN ServerFile(c)
             PROVE  ServerFile(c)["tcpPort"].value \in Int
  BY DEF TcpIsNumber
<1>1. "tcpPort" \in PortKeys
  BY DEF PortKeys
<1>2. "tcpPort" \notin FileKeys /\ "tcpPort" \notin NumberKeys
  BY <1>1, KeysApart
<1>3. ServerFile(c)["tcpPort"] = PortNode(c, "tcpPort")
  BY <1>1, <1>2 DEF ServerFile
<1>4. ServerFile(c)["tcpPort"] = Text(c.port["tcpPort"])
  BY <1>3 DEF PortNode, PortDefault
<1> QED
  BY <1>4 DEF Text, ConfigOK, PortsOK

LEMMA WriteKeepsDisk ==
  ASSUME NEW d, DiskIs(d), NEW c, ConfigOK(c), NEW b
  PROVE  DiskIs(Write(d, c, b))
<1>1. PICK d1 : d1 = Put(d, Server, ServerFile(c))
  OBVIOUS
<1>2. PICK d2 : d2 = WriteDetectorParameters(d1, c.file["detectorParameters"], c.detector)
  OBVIOUS
<1>3. PICK d3 : d3 = WriteCameraParameters(d2, c.file["cameraParameters"], c.camera)
  OBVIOUS
<1>4. PICK d4 : d4 = WriteContourParameters(d3, c.file["contourParameters"], c.contour)
  OBVIOUS
<1>5. Write(d, c, b) = WriteBounds(d4, c.file["boundsParameters"], b)
  BY <1>1, <1>2, <1>3, <1>4 DEF Write
<1>6. DiskIs(d1)
  BY <1>1, PutKeepsDisk, ServerFileHasNumber
<1>7. DiskIs(d2)
  BY <1>2, <1>6, PutKeepsDisk, ParametersHaveNoPorts DEF WriteDetectorParameters
<1>8. DiskIs(d3)
  BY <1>3, <1>7, PutKeepsDisk, ParametersHaveNoPorts DEF WriteCameraParameters
<1>9. DiskIs(d4)
  BY <1>4, <1>8, PutKeepsDisk, ParametersHaveNoPorts DEF WriteContourParameters
<1> QED
  BY <1>5, <1>9, PutKeepsDisk, ParametersHaveNoPorts DEF WriteBounds

LEMMA ReadOK ==
  ASSUME NEW d, DiskIs(d), NEW name
  PROVE  ConfigOK(Read(d, name))
  BY StaticsOK, ReadFileOK DEF Read, Opens, DiskIs

LEMMA ReadBoundsOK ==
  ASSUME NEW d, NEW name, NEW c
  PROVE  BoundsIs(ReadBoundsToo(d, name, c))
<1>1. \A w, h : BoundsIs(SizedDefaults(w, h))
  BY DEF BoundsIs, SizedDefaults, Defaults
<1>2. \A n, w, h : BoundsIs(ReadBounds(d, n, w, h))
  BY <1>1 DEF BoundsIs, ReadBounds
<1> QED
  BY <1>1, <1>2 DEF ReadBoundsToo

LEMMA StartKeeps ==
  ASSUME FilesInv, NEW name, NEW output, Start(name, output)
  PROVE  FilesInv'
<1>1. PICK c, b : c = config' /\ b = bounds'
  OBVIOUS
<1>2. ConfigOK(c) /\ BoundsIs(b)
  BY <1>1, ReadOK, ReadBoundsOK DEF Start, FilesInv
<1>3. CASE output
  <2>1. disk' = Write(disk, c, b) /\ saved' = Copy(c, b)
    BY <1>1, <1>3 DEF Start, Copy
  <2>2. DiskIs(disk')
    BY <1>2, <2>1, WriteKeepsDisk DEF FilesInv
  <2>3. OwnFiles(c) => Stored(disk', c, b)
    BY <2>1, WriteStores
  <2> QED
    BY <1>2, <2>1, <2>2, <2>3 DEF FilesInv, SavedIs
<1>4. CASE ~output
  BY <1>4 DEF Start, FilesInv, SavedIs
<1> QED
  BY <1>3, <1>4

LEMMA OutputKeeps ==
  ASSUME FilesInv, NEW matrices, NEW detector, Output(matrices, detector)
  PROVE  FilesInv'
<1>1. PICK d1 : d1 = WriteCameraParameters(disk, OutputCamera, matrices)
  OBVIOUS
<1>2. disk' = WriteDetectorParameters(d1, OutputDetector, detector)
  BY <1>1 DEF Output
<1>3. DiskIs(d1)
  BY <1>1, PutKeepsDisk, ParametersHaveNoPorts DEF WriteCameraParameters, FilesInv
<1>4. DiskIs(disk')
  BY <1>2, <1>3, PutKeepsDisk, ParametersHaveNoPorts DEF WriteDetectorParameters
<1>5. ASSUME NEW n, Opens(disk, n), n \notin {OutputCamera, OutputDetector}
      PROVE  Opens(disk', n) /\ disk'[n] = disk[n]
  <2>1. Opens(d1, n) /\ d1[n] = disk[n]
    BY <1>1, <1>5, PutFacts DEF WriteCameraParameters, Opens
  <2> QED
    BY <1>2, <1>5, <2>1, PutFacts DEF WriteDetectorParameters, Opens
<1>6. ASSUME saved' # <<>> PROVE SavedIs'
  <2>1. /\ saved' = saved
        /\ \A i \in DOMAIN saved, k \in FileKeys :
             saved[i].config.file[k] \notin {OutputCamera, OutputDetector}
    BY <1>6 DEF Output
  <2>2. PICK c, b : /\ saved = Copy(c, b) /\ ConfigOK(c) /\ BoundsIs(b)
                    /\ OwnFiles(c) => Stored(disk, c, b)
    BY <1>6, <2>1 DEF FilesInv, SavedIs
  <2>3. 1 \in DOMAIN saved /\ saved[1].config = c
    BY <2>2 DEF Copy
  <2>4. \A k \in FileKeys : c.file[k] \notin {OutputCamera, OutputDetector}
    BY <2>1, <2>3
  <2>5. ASSUME OwnFiles(c) PROVE Stored(disk', c, b)
    <3>1. Stored(disk, c, b)
      BY <2>2, <2>5
    <3>2. Server \notin {OutputCamera, OutputDetector}
      BY DEF Server, OutputCamera, OutputDetector
    <3>3. Opens(disk', Server) /\ disk'[Server] = ServerFile(c)
      BY <1>5, <3>1, <3>2 DEF Stored
    <3>4. /\ c.file["detectorParameters"] \notin {OutputCamera, OutputDetector}
          /\ c.file["cameraParameters"] \notin {OutputCamera, OutputDetector}
          /\ c.file["contourParameters"] \notin {OutputCamera, OutputDetector}
          /\ c.file["boundsParameters"] \notin {OutputCamera, OutputDetector}
      BY <2>4 DEF FileKeys
    <3> QED
      BY <1>5, <3>1, <3>3, <3>4 DEF Stored
  <2> QED
    BY <2>1, <2>2, <2>5 DEF SavedIs
<1> QED
  BY <1>4, <1>6 DEF FilesInv, SavedIs

LEMMA FilesInvariant == SettingsSpec => []FilesInv
<1>1. SettingsInit => FilesInv
  BY DisksAssumption DEF SettingsInit, FilesOff, FilesInv, SavedIs, DiskIs, TcpIsNumber
<1>2. FilesInv /\ [SettingsNext]_svars => FilesInv'
  <2> SUFFICES ASSUME FilesInv, [SettingsNext]_svars PROVE FilesInv'
    OBVIOUS
  <2>1. CASE FNext
    <3>1. ASSUME NEW name, NEW output, Start(name, output) PROVE FilesInv'
      BY <3>1, StartKeeps
    <3>2. ASSUME Stop PROVE FilesInv'
      BY <3>2 DEF Stop, FilesInv, SavedIs
    <3>3. ASSUME NEW c, NEW dp, NEW ks, DetectMarkers(c, dp, ks) PROVE FilesInv'
      BY <3>3, OutputKeeps DEF DetectMarkers
    <3>4. ASSUME NEW dp, NEW ks, DetectBoundsTool(dp, ks) PROVE FilesInv'
      BY <3>4, OutputKeeps DEF DetectBoundsTool
    <3> QED
      BY <2>1, <3>1, <3>2, <3>3, <3>4 DEF FNext
  <2>2. CASE UNCHANGED fvars
    BY <2>2 DEF fvars, FilesInv, SavedIs
  <2> QED
    BY <2>1, <2>2 DEF SettingsNext, svars
<1> QED
  BY <1>1, <1>2, PTL DEF SettingsSpec

(* ServerConfig.cpp:47-205: whatever files an operator prepared, what a    *)
(* server wrote with -o a later start finds again, but for what the        *)
(* configuration does not save.                                            *)
THEOREM SavedSettingsComeBack == SettingsSpec => SavedComesBack
<1> DEFINE Back ==
      reading = Off /\ reading' = Server /\ saved # <<>> /\ OwnFiles(saved[1].config) =>
        LET old == saved[1]
        IN  /\ senders' = old.senders
            /\ \A f \in {"file", "host", "port", "enabled", "detector", "contour", "camera"} :
                 config'[f] = old.config[f]
            /\ old.config.file["boundsParameters"] # NoName => bounds' = old.bounds
<1>1. FilesInv /\ [SettingsNext]_svars => [Back]_<<fvars, bounds>>
  <2> SUFFICES ASSUME FilesInv, [SettingsNext]_svars,
                      reading = Off, reading' = Server, saved # <<>>, OwnFiles(saved[1].config)
               PROVE  Back
    OBVIOUS
  <2>1. Off # Server
    BY DEF Off, Server
  <2>2. PICK output : Start(Server, output)
    <3>1. FNext
      BY <2>1 DEF SettingsNext, svars, fvars
    <3>2. ~Stop
      BY <2>1 DEF Stop
    <3>3. \A c, d : ~Output(c, d)
      BY <2>1 DEF Output
    <3>4. (\E output : Start(Server, output)) \/ (\E name : Start(name, TRUE))
      BY <3>1, <3>2, <3>3 DEF FNext, DetectMarkers, DetectBoundsTool
    <3>5. \A name : Start(name, TRUE) => name = Server
      BY DEF Start
    <3> QED
      BY <3>4, <3>5
  <2>3. PICK c, b : /\ saved = Copy(c, b) /\ ConfigOK(c) /\ BoundsIs(b)
                    /\ OwnFiles(c) => Stored(disk, c, b)
    BY DEF FilesInv, SavedIs
  <2>4. saved[1].config = c /\ saved[1].bounds = b /\ saved[1].senders = Senders(c)
    BY <2>3 DEF Copy
  <2>5. Stored(disk, c, b)
    BY <2>3, <2>4
  <2>6. PICK r : r = config'
    OBVIOUS
  <2>7. /\ r.file = c.file /\ r.host = c.host /\ r.port = c.port /\ r.enabled = c.enabled
        /\ r.detector = c.detector /\ r.contour = c.contour /\ r.camera = c.camera
    BY <2>2, <2>3, <2>5, <2>6, WrittenIsRead DEF Start
  <2>8. senders' = Senders(c)
    <3>1. senders' = Senders(r)
      BY <2>2, <2>6 DEF Start
    <3>2. Senders(r) = Senders(c)
      BY <2>7 DEF Senders
    <3> QED
      BY <3>1, <3>2
  <2>9. \A f \in {"file", "host", "port", "enabled", "detector", "contour", "camera"} :
          config'[f] = c[f]
    BY <2>6, <2>7
  <2>10. ASSUME c.file["boundsParameters"] # NoName PROVE bounds' = b
    <3>1. PICK n : n = c.file["boundsParameters"]
      OBVIOUS
    <3>2. Opens(disk, n) /\ disk[n] = [k \in DOMAIN Defaults |-> Number(b[k])]
      BY <2>5, <2>10, <3>1 DEF Stored
    <3>3. PICK w, h : bounds' = ReadBounds(disk, n, w, h)
      <4>1. Opens(disk, Server)
        BY <2>5 DEF Stored
      <4>2. bounds' = ReadBoundsToo(disk, Server, r)
        BY <2>2, <2>6 DEF Start
      <4> QED
        BY <2>7, <3>1, <4>1, <4>2 DEF ReadBoundsToo
    <3>4. bounds' = [k \in DOMAIN Defaults |-> NumberOf(disk[n], k)]
      BY <3>2, <3>3 DEF ReadBounds
    <3>5. PICK f, K : f = disk[n] /\ K = DOMAIN Defaults
      OBVIOUS
    <3>6. f = [k \in K |-> Number(b[k])] /\ b = [k \in K |-> b[k]]
      BY <2>3, <3>2, <3>5 DEF BoundsIs
    <3> QED
      BY <3>4, <3>5, <3>6, NumbersFound
  <2> QED
    BY <2>4, <2>8, <2>9, <2>10
<1> HIDE DEF Back
<1>2. SettingsSpec => [][Back]_<<fvars, bounds>>
  BY <1>1, FilesInvariant, PTL DEF SettingsSpec
<1> QED
  BY <1>2 DEF SavedComesBack, Back
-----------------------------------------------------------------------------
(* The bounds, in every program *)

(* Outside the camera that looks for its section no markers are okay: the  *)
(* servers that share the bounds read them from their files.               *)
NoneOkay == part # "bounds" => okay = FALSE

(* A step of the programs is one of the camera that looks for its section, *)
(* or leaves the markers alone.                                            *)
LEMMA BoundsStep ==
  [SettingsNext]_svars =>
    \/ part = "bounds" /\ [Next]_vars /\ part' = part
    \/ part' = part /\ UNCHANGED <<shot, markers, okay>> /\ (part = "files" \/ UNCHANGED vars)
BY DEF SettingsNext, svars, vars

(* DetectBounds.cpp, next to the servers that share its bounds and to the  *)
(* camera controls: markers that are found okay are a section's, in        *)
(* whichever order they were detected, and bounds computed from them cover *)
(* its share of the table.                                                 *)
THEOREM SectionsAreRight ==
  SettingsSpec => [](AcceptedIsASection /\ AnyOrderIsAccepted) /\ RoiCoversShare
<1> DEFINE Inv == MarkersInv /\ AnyOrderIsAccepted /\ NoneOkay
<1>1. SettingsInit => Inv
  BY DEF SettingsInit, Init, MarkersInv, AnyOrderIsAccepted, NoneOkay
<1>2. Inv /\ [SettingsNext]_svars => Inv'
  <2> SUFFICES ASSUME Inv, [SettingsNext]_svars PROVE Inv'
    OBVIOUS
  <2>1. CASE part = "bounds" /\ [Next]_vars /\ part' = part
    BY <2>1, MarkersNext, AnyOrderNext DEF NoneOkay
  <2>2. CASE part' = part /\ UNCHANGED <<shot, markers, okay>>
    BY <2>2 DEF MarkersInv, AnyOrderIsAccepted, NoneOkay
  <2> QED
    BY <2>1, <2>2, BoundsStep
<1>3. Inv /\ [SettingsNext]_svars => [bounds' # bounds /\ okay => CoversShare(bounds', markers)]_vars
  <2> SUFFICES ASSUME Inv, [SettingsNext]_svars
               PROVE  [bounds' # bounds /\ okay => CoversShare(bounds', markers)]_vars
    OBVIOUS
  <2>1. CASE part = "bounds" /\ [Next]_vars
    BY <2>1, ShareStep
  <2>2. CASE part = "files"
    BY <2>2 DEF NoneOkay
  <2>3. CASE UNCHANGED vars
    BY <2>3
  <2> QED
    BY <2>1, <2>2, <2>3, BoundsStep
<1>4. Inv => AcceptedIsASection /\ AnyOrderIsAccepted
  BY OkayHasASection
<1> HIDE DEF Inv
<1> QED
  BY <1>1, <1>2, <1>3, <1>4, PTL DEF SettingsSpec, RoiCoversShare

=============================================================================
