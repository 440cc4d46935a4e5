---------------------------- MODULE ProtocolProofs ----------------------------
(***************************************************************************)
(* Proofs about module Protocol, for one server: whatever the network did, *)
(* the client's lists can be used, and nothing goes back to a place it has *)
(* left.                                                                   *)
(***************************************************************************)
EXTENDS Protocol, ListLemmas

-----------------------------------------------------------------------------
(* Lists of things that have a session. *)

OnePerSid(s) == \A i, j \in 1 .. Len(s) : s[i].sid = s[j].sid => i = j

(* The same of the set of them. *)
Apart(S) == \A a, b \in S : a.sid = b.sid => a = b

LEMMA OnePerSidIs ==
  ASSUME NEW S, NEW s \in Seq(S)
  PROVE  OnePerSid(s) <=> Distinct(s) /\ Apart(ToSet(s))
<1>1. ToSet(s) = {s[i] : i \in 1 .. Len(s)}
  BY DEF ToSet
<1>2. ASSUME OnePerSid(s) PROVE Distinct(s) /\ Apart(ToSet(s))
  BY <1>1, <1>2 DEF OnePerSid, Distinct, Apart
<1>3. ASSUME Distinct(s), Apart(ToSet(s)) PROVE OnePerSid(s)
  BY <1>1, <1>3 DEF OnePerSid, Distinct, Apart
<1> QED
  BY <1>2, <1>3

LEMMA OnePerSidChosen ==
  ASSUME NEW S, NEW s \in Seq(S), OnePerSid(s), NEW keep
  PROVE  OnePerSid(Chosen(s, keep))
<1>1. Distinct(s) /\ Apart(ToSet(s))
  BY OnePerSidIs
<1>2. Chosen(s, keep) \in Seq(S) /\ ToSet(Chosen(s, keep)) = ToSet(s) \cap keep
  BY ChosenFacts
<1>3. Distinct(Chosen(s, keep))
  BY <1>1, ChosenDistinct
<1>4. Apart(ToSet(Chosen(s, keep)))
  BY <1>1, <1>2 DEF Apart
<1> QED
  BY <1>2, <1>3, <1>4, OnePerSidIs

LEMMA ConcatFacts ==
  ASSUME NEW S, NEW a \in Seq(S), NEW b \in Seq(S)
  PROVE  /\ a \o b \in Seq(S)
         /\ ToSet(a \o b) = ToSet(a) \cup ToSet(b)
         /\ Len(a \o b) = Len(a) + Len(b)
         /\ \A i \in 1 .. Len(a) : (a \o b)[i] = a[i]
         /\ \A i \in 1 .. Len(b) : (a \o b)[Len(a) + i] = b[i]
<1> DEFINE c == a \o b
           m == Len(a)
           n == Len(b)
<1>1. m \in Nat /\ n \in Nat
  OBVIOUS
<1>2. /\ c \in Seq(S) /\ Len(c) = m + n
      /\ \A i \in 1 .. m : c[i] = a[i]
      /\ \A i \in 1 .. n : c[m + i] = b[i]
  OBVIOUS
<1>3. /\ ToSet(a) = {a[i] : i \in 1 .. m} /\ ToSet(b) = {b[i] : i \in 1 .. n}
      /\ ToSet(c) = {c[i] : i \in 1 .. m + n}
  BY <1>2 DEF ToSet
<1> HIDE DEF c, m, n
<1>4. \A i \in 1 .. m + n : i \in 1 .. m \/ \E j \in 1 .. n : i = m + j
  <2> SUFFICES ASSUME NEW i \in 1 .. m + n, i \notin 1 .. m PROVE \E j \in 1 .. n : i = m + j
    OBVIOUS
  <2>1. i - m \in 1 .. n /\ i = m + (i - m)
    BY <1>1
  <2> QED
    BY <2>1
<1>5. (\A i \in 1 .. m : i \in 1 .. m + n) /\ (\A i \in 1 .. n : m + i \in 1 .. m + n)
  BY <1>1
<1>6. ToSet(c) = ToSet(a) \cup ToSet(b)
  BY <1>2, <1>3, <1>4, <1>5
<1> QED
  BY <1>2, <1>6 DEF c, m, n

LEMMA OnePerSidConcat ==
  ASSUME NEW S, NEW a \in Seq(S), NEW b \in Seq(S), OnePerSid(a), OnePerSid(b),
         \A x \in ToSet(a), y \in ToSet(b) : x.sid # y.sid
  PROVE  OnePerSid(a \o b)
<1> DEFINE c == a \o b
           m == Len(a)
           n == Len(b)
<1>1. m \in Nat /\ n \in Nat
  OBVIOUS
<1>2. /\ Len(c) = m + n
      /\ \A i \in 1 .. m : c[i] = a[i]
      /\ \A i \in 1 .. n : c[m + i] = b[i]
  BY ConcatFacts
<1>3. ToSet(a) = {a[i] : i \in 1 .. m} /\ ToSet(b) = {b[i] : i \in 1 .. n}
  BY DEF ToSet
<1>4. /\ \A i, j \in 1 .. m : a[i].sid = a[j].sid => i = j
      /\ \A i, j \in 1 .. n : b[i].sid = b[j].sid => i = j
  BY DEF OnePerSid
<1>5. \A i \in 1 .. m, j \in 1 .. n : a[i].sid # b[j].sid
  BY <1>3
<1> HIDE DEF c, m, n
<1>6. \A i \in 1 .. m + n : i \in 1 .. m \/ \E j \in 1 .. n : i = m + j
  <2> SUFFICES ASSUME NEW i \in 1 .. m + n, i \notin 1 .. m PROVE \E j \in 1 .. n : i = m + j
    OBVIOUS
  <2>1. i - m \in 1 .. n /\ i = m + (i - m)
    BY <1>1
  <2> QED
    BY <2>1
<1> SUFFICES ASSUME NEW i \in 1 .. m + n, NEW j \in 1 .. m + n, c[i].sid = c[j].sid
             PROVE  i = j
  BY <1>2 DEF OnePerSid, c
<1>7. CASE i \in 1 .. m /\ j \in 1 .. m
  BY <1>2, <1>4, <1>7
<1>8. CASE i \in 1 .. m /\ j \notin 1 .. m
  BY <1>2, <1>5, <1>6, <1>8
<1>9. CASE i \notin 1 .. m /\ j \in 1 .. m
  BY <1>2, <1>5, <1>6, <1>9
<1>10. CASE i \notin 1 .. m /\ j \notin 1 .. m
  <2>1. PICK k \in 1 .. n : i = m + k
    BY <1>6, <1>10
  <2>2. PICK l \in 1 .. n : j = m + l
    BY <1>6, <1>10
  <2> QED
    BY <1>2, <1>4, <2>1, <2>2
<1> QED
  BY <1>7, <1>8, <1>9, <1>10

LEMMA MinIn ==
  ASSUME NEW n \in Nat, NEW S, S \subseteq 1 .. n, S # {}
  PROVE  Min(S) \in S /\ \A i \in S : Min(S) <= i
<1>1. S \subseteq Nat
  OBVIOUS
<1>2. PICK t \in S : \A u \in S : ~ (<<u, t>> \in OpToRel(<, Nat))
  BY ONLY <1>1, S # {}, NatLessThanWellFounded, WFMin, Zenon
<1>3. ASSUME NEW u \in S PROVE t <= u
  <2>1. t \in Nat /\ u \in Nat
    BY <1>1
  <2>2. ~ (u < t)
    BY <1>2, <2>1 DEF OpToRel
  <2> QED
    BY <2>1, <2>2
<1>4. \E x \in S : \A y \in S : x <= y
  BY <1>3
<1> QED
  BY <1>4 DEF Min

(* Taking out the only one there is. *)
LEMMA WithoutOne ==
  ASSUME NEW S, NEW list \in Seq(S), Distinct(list), NEW T, NEW o, ToSet(list) \cap T = {o}
  PROVE  /\ Without(list, T) \in Seq(S)
         /\ Distinct(Without(list, T))
         /\ \A x : x \in ToSet(Without(list, T)) <=> x \in ToSet(list) /\ x # o
<1> DEFINE found == {n \in DOMAIN list : list[n] \in T}
           i == Min(found)
<1>1. Len(list) \in Nat /\ DOMAIN list = 1 .. Len(list) /\ ToSet(list) = {list[n] : n \in 1 .. Len(list)}
  BY DEF ToSet
<1>2. o \in ToSet(list) /\ o \in T
  OBVIOUS
<1>3. found # {} /\ found \subseteq 1 .. Len(list)
  BY <1>1, <1>2
<1>4. i \in found
  BY ONLY <1>1, <1>3, MinIn
<1>5. i \in 1 .. Len(list) /\ list[i] \in ToSet(list) \cap T
  BY <1>1, <1>4
<1>6. list[i] = o
  BY <1>5
<1>7. Without(list, T) = RemoveAt(list, i)
  BY <1>3 DEF Without
<1> HIDE DEF i, found
<1>8. RemoveAt(list, i) \in Seq(S)
  BY <1>5, RemoveAtFacts
<1>9. /\ ToSet(RemoveAt(list, i)) \subseteq ToSet(list)
      /\ ToSet(list) \ {list[i]} \subseteq ToSet(RemoveAt(list, i))
      /\ Distinct(RemoveAt(list, i))
      /\ list[i] \notin ToSet(RemoveAt(list, i))
  BY <1>5, RemoveAtKeeps
<1> QED
  BY <1>6, <1>7, <1>8, <1>9
-----------------------------------------------------------------------------
(* The numbers of the cursors, or of the blobs, of one server: L are those *)
(* shown, F the numbers kept for later ones, top the highest one used.     *)
PoolOK(L, F, top) ==
  /\ \A a, b \in L : a.id = b.id => a = b
  /\ \A a, b \in F : a.id = b.id => a = b
  /\ \A a \in L, b \in F : a.id # b.id
  /\ L = {} => F = {}
  /\ L # {} => \E a \in L : a.id = top
  /\ L # {} => \A a \in L \cup F : a.id \in 0 .. top
  /\ L # {} => \A i \in 0 .. top : \E a \in L \cup F : a.id = i

(* The one with the highest number leaves. *)
LEMMA HighestLeaves ==
  ASSUME NEW L, NEW F, NEW top \in Int, PoolOK(L, F, top), NEW o \in L, o.id = top,
         NEW next \in Int, L \ {o} = {} => next = -1,
         L \ {o} # {} => \E a \in L \ {o} : a.id = next,
         \A a \in L \ {o} : a.id <= next
  PROVE  PoolOK(L \ {o}, {f \in F : f.id <= next}, next)
<1> DEFINE M == L \ {o}
           G == {f \in F : f.id <= next}
<1>1. /\ \A a, b \in L : a.id = b.id => a = b
      /\ \A a, b \in F : a.id = b.id => a = b
      /\ \A a \in L, b \in F : a.id # b.id
      /\ \A a \in L \cup F : a.id \in 0 .. top
      /\ \A i \in 0 .. top : \E a \in L \cup F : a.id = i
  BY DEF PoolOK
<1>2. M = {} => G = {}
  <2> SUFFICES ASSUME M = {}, NEW f \in G PROVE FALSE
    OBVIOUS
  <2>1. f \in F /\ f.id \in Int /\ f.id >= 0 /\ f.id <= -1
    BY <1>1
  <2> QED
    BY <2>1
<1>3. M # {} => \E a \in M : a.id = next
  OBVIOUS
<1>4. \A a \in M \cup G : a.id \in 0 .. next
  BY <1>1
<1>5. ASSUME M # {}, NEW i \in 0 .. next PROVE \E a \in M \cup G : a.id = i
  <2>1. PICK m \in M : m.id = next
    BY <1>5
  <2>2. next \in 0 .. top /\ m # o /\ m \in L
    BY <1>1, <2>1
  <2>3. next # top
    BY <1>1, <2>1, <2>2
  <2>4. PICK a \in L \cup F : a.id = i
    BY <1>1, <2>2
  <2>5. a # o
    BY <2>2, <2>3, <2>4
  <2> QED
    BY <2>4, <2>5
<1> QED
  BY <1>1, <1>2, <1>3, <1>4, <1>5 DEF PoolOK

(* Another one leaves and its number is kept. *)
LEMMA OtherLeaves ==
  ASSUME NEW L, NEW F, NEW top \in Int, PoolOK(L, F, top), NEW o \in L, o.id < top,
         NEW f, f.id = o.id
  PROVE  PoolOK(L \ {o}, F \cup {f}, top)
<1> DEFINE M == L \ {o}
           G == F \cup {f}
<1>1. /\ \A a, b \in L : a.id = b.id => a = b
      /\ \A a, b \in F : a.id = b.id => a = b
      /\ \A a \in L, b \in F : a.id # b.id
      /\ \E a \in L : a.id = top
      /\ \A a \in L \cup F : a.id \in 0 .. top
      /\ \A i \in 0 .. top : \E a \in L \cup F : a.id = i
  BY DEF PoolOK
<1>2. \E a \in M : a.id = top
  BY <1>1
<1>3. (\A a, b \in G : a.id = b.id => a = b) /\ (\A a \in M, b \in G : a.id # b.id)
  BY <1>1
<1>4. \A a \in M \cup G : a.id \in 0 .. top
  BY <1>1
<1>5. \A i \in 0 .. top : \E a \in M \cup G : a.id = i
  <2> SUFFICES ASSUME NEW i \in 0 .. top PROVE \E a \in M \cup G : a.id = i
    OBVIOUS
  <2>1. PICK a \in L \cup F : a.id = i
    BY <1>1
  <2> QED
    BY <2>1
<1> QED
  BY <1>1, <1>2, <1>3, <1>4, <1>5 DEF PoolOK

(* A number that was kept is given to a new one. *)
LEMMA KeptIsGiven ==
  ASSUME NEW L, NEW F, NEW top \in Int, PoolOK(L, F, top), NEW f \in F,
         NEW x, x.id = f.id
  PROVE  PoolOK(L \cup {x}, F \ {f}, top)
<1> DEFINE M == L \cup {x}
           G == F \ {f}
<1>1. /\ \A a, b \in L : a.id = b.id => a = b
      /\ \A a, b \in F : a.id = b.id => a = b
      /\ \A a \in L, b \in F : a.id # b.id
      /\ L # {}
      /\ \E a \in L : a.id = top
      /\ \A a \in L \cup F : a.id \in 0 .. top
      /\ \A i \in 0 .. top : \E a \in L \cup F : a.id = i
  BY DEF PoolOK
<1>2. (\A a, b \in M : a.id = b.id => a = b) /\ (\A a \in M, b \in G : a.id # b.id)
  BY <1>1
<1>3. \A a \in M \cup G : a.id \in 0 .. top
  BY <1>1
<1>4. \A i \in 0 .. top : \E a \in M \cup G : a.id = i
  <2> SUFFICES ASSUME NEW i \in 0 .. top PROVE \E a \in M \cup G : a.id = i
    OBVIOUS
  <2>1. PICK a \in L \cup F : a.id = i
    BY <1>1
  <2> QED
    BY <2>1
<1> QED
  BY <1>1, <1>2, <1>3, <1>4 DEF PoolOK

(* When none is kept, the next number is that of those shown. *)
LEMMA NewIsGiven ==
  ASSUME NEW L, NEW top \in Int, PoolOK(L, {}, top),
         NEW x, x.id = IF L = {} THEN 0 ELSE top + 1
  PROVE  PoolOK(L \cup {x}, {}, x.id)
<1> DEFINE M == L \cup {x}
<1>1. CASE L = {}
  <2>1. x.id = 0 /\ M = {x}
    BY <1>1
  <2>2. \A i \in 0 .. 0 : i = 0
    OBVIOUS
  <2>3. 0 \in 0 .. 0
    OBVIOUS
  <2> HIDE DEF M
  <2> QED
    BY <2>1, <2>2, <2>3 DEF PoolOK, M
<1>2. CASE L # {}
  <2>1. /\ \A a, b \in L : a.id = b.id => a = b
        /\ \A a \in L : a.id \in 0 .. top
        /\ \A i \in 0 .. top : \E a \in L : a.id = i
        /\ x.id = top + 1
    BY <1>2 DEF PoolOK
  <2>2. \A a \in L : a.id # x.id
    BY <2>1
  <2>3. \A a, b \in M : a.id = b.id => a = b
    BY <2>1, <2>2
  <2>4. \A a \in M : a.id \in 0 .. top + 1
    <3>1. PICK a \in L : TRUE
      BY <1>2
    <3>2. a.id \in 0 .. top
      BY <2>1
    <3> QED
      BY <2>1, <3>2
  <2>5. \A i \in 0 .. top + 1 : \E a \in M : a.id = i
    <3> SUFFICES ASSUME NEW i \in 0 .. top + 1 PROVE \E a \in M : a.id = i
      OBVIOUS
    <3>1. i \in 0 .. top \/ i = top + 1
      OBVIOUS
    <3> QED
      BY <2>1, <3>1
  <2> QED
    BY <2>1, <2>3, <2>4, <2>5 DEF PoolOK
<1> QED
  BY <1>1, <1>2

(* At most top numbers are kept, so that FindsFree asks whether one is. *)
LEMMA KeptAreCounted ==
  ASSUME NEW L, NEW F, NEW top \in Int, PoolOK(L, F, top), Cardinality(F) \notin 1 .. top
  PROVE  F = {} /\ Cardinality(L) = IF L = {} THEN 0 ELSE top + 1
<1>1. CASE L = {}
  BY <1>1, FS_EmptySet DEF PoolOK
<1>2. CASE L # {}
  <2>1. /\ \A a, b \in L : a.id = b.id => a = b
        /\ \A a, b \in F : a.id = b.id => a = b
        /\ \A a \in L, b \in F : a.id # b.id
        /\ \E a \in L : a.id = top
        /\ \A a \in L \cup F : a.id \in 0 .. top
        /\ \A i \in 0 .. top : \E a \in L \cup F : a.id = i
    BY <1>2 DEF PoolOK
  <2>2. top >= 0
    BY <2>1
  <2>3. IsFiniteSet(0 .. top - 1) /\ Cardinality(0 .. top - 1) = top
    BY <2>2, FS_Interval
  <2>4. IsFiniteSet(0 .. top) /\ Cardinality(0 .. top) = top + 1
    BY <2>2, FS_Interval
  <2>5. F = {}
    <3> DEFINE f == [a \in F |-> a.id]
               B == 0 .. top - 1
    <3>1. \A a \in F : a.id \in B
      BY <2>1
    <3>2. f \in Injection(F, B)
      BY <2>1, <3>1 DEF Injection, IsInjective
    <3>3. IsFiniteSet(F) /\ Cardinality(F) <= Cardinality(B)
      BY ONLY <2>3, <3>2, FS_Injection
    <3>4. Cardinality(F) \in Nat
      BY <3>3, FS_CardinalityType
    <3>5. Cardinality(F) = 0
      BY <2>3, <3>3, <3>4
    <3> QED
      BY <3>3, <3>5, FS_EmptySet
  <2>6. Cardinality(L) = top + 1
    <3> DEFINE f == [a \in L |-> a.id]
               B == 0 .. top
    <3>1. \A a \in L : a.id \in B
      BY <2>1
    <3>2. f \in Injection(L, B)
      BY <2>1, <3>1 DEF Injection, IsInjective
    <3>3. IsFiniteSet(L) /\ (Cardinality(L) = Cardinality(B) <=> f \in Surjection(L, B))
      BY ONLY <2>4, <3>2, FS_Injection
    <3>4. \A i \in B : \E a \in L : f[a] = i
      BY <2>1, <2>5
    <3>5. f \in Surjection(L, B)
      BY <3>1, <3>4 DEF Surjection
    <3> QED
      BY <2>4, <3>3, <3>5
  <2> QED
    BY <1>2, <2>5, <2>6
<1> QED
  BY <1>1, <1>2

-----------------------------------------------------------------------------
(* What the client holds of one kind, of a server whose number is 0. *)
Ids == Symbols \cup Int
Things == [src : {0}, sid : Int, id : Ids, place : Int, motion : Int]
Frees == [src : {0}, id : Int]
Shelves == [list : Seq(Things), free : Seq(Frees), max : [{0} -> Int]]
Entries == [state : {"added", "updated", "removed"}, src : {0}, sid : Int, id : Ids,
            place : Int, motion : Int]

(* Each session is there once, and its number, if it has one, is right. *)
Numbered(h) == Distinct(h.free) /\ PoolOK(ToSet(h.list), ToSet(h.free), h.max[0])

ShelfOK(kind, h) == /\ h \in Shelves
                    /\ OnePerSid(h.list)
                    /\ kind # "object" => Numbered(h)

LEMMA MaxIn ==
  ASSUME NEW n \in Nat, NEW S, S \subseteq -1 .. n, S # {}
  PROVE  Max(S) \in S /\ \A i \in S : i <= Max(S)
<1> DEFINE T == {i \in Nat : n - i \in S}
<1>1. T \subseteq Nat
  OBVIOUS
<1>2. T # {}
  <2>1. PICK i \in S : TRUE
    OBVIOUS
  <2>2. n - i \in Nat /\ n - (n - i) = i
    BY <2>1
  <2> QED
    BY <2>1, <2>2
<1>3. PICK t \in T : \A u \in T : ~ (<<u, t>> \in OpToRel(<, Nat))
  BY ONLY <1>1, <1>2, NatLessThanWellFounded, WFMin, Zenon
<1>4. t \in Nat /\ n - t \in S
  OBVIOUS
<1>5. ASSUME NEW i \in S PROVE i <= n - t
  <2>1. i \in Int /\ n - i \in Nat /\ n - (n - i) = i
    OBVIOUS
  <2>2. n - i \in T
    BY <2>1
  <2>3. ~ (n - i < t)
    BY <1>3, <1>4, <2>1, <2>2 DEF OpToRel
  <2> QED
    BY <1>4, <2>1, <2>3
<1>6. \E m \in S : \A i \in S : m >= i
  <2>1. \A i \in S : n - t >= i
    BY <1>4, <1>5
  <2> QED
    BY <1>4, <2>1
<1>7. Max(S) \in S /\ \A i \in S : Max(S) >= i
  BY <1>6 DEF Max
<1> QED
  BY <1>7

LEMMA HighestIDIs ==
  ASSUME NEW S, NEW s \in Seq(S), NEW n \in Nat, \A o \in ToSet(s) : o.id \in 0 .. n
  PROVE  /\ HighestID(s) \in Int
         /\ ToSet(s) = {} => HighestID(s) = -1
         /\ ToSet(s) # {} => \E a \in ToSet(s) : a.id = HighestID(s)
         /\ \A a \in ToSet(s) : a.id <= HighestID(s)
<1> DEFINE T == {-1} \cup {s[i].id : i \in DOMAIN s}
<1>1. PICK top : top = Max(T)
  OBVIOUS
<1>2. T = {-1} \cup {o.id : o \in ToSet(s)}
  BY DEF ToSet
<1>3. T \subseteq -1 .. n /\ T # {}
  <2>1. \A o \in ToSet(s) : o.id \in -1 .. n
    OBVIOUS
  <2> QED
    BY <1>2, <2>1
<1>4. top \in T /\ \A i \in T : i <= top
  BY ONLY <1>1, <1>3, MaxIn, n \in Nat
<1>5. HighestID(s) = top
  BY <1>1 DEF HighestID
<1>6. top \in Int
  BY <1>3, <1>4
<1>7. ToSet(s) = {} => top = -1
  BY <1>2, <1>4
<1>8. ASSUME NEW a \in ToSet(s) PROVE a.id <= top /\ \E b \in ToSet(s) : b.id = top
  <2>1. a.id <= top /\ a.id \in 0 .. n
    BY <1>2, <1>4
  <2>2. top # -1
    BY <2>1
  <2> QED
    BY <1>2, <1>4, <2>1, <2>2
<1> QED
  BY <1>5, <1>6, <1>7, <1>8

LEMMA MaxIs ==
  ASSUME NEW max \in [{0} -> Int], NEW top \in Int
  PROVE  /\ Highest(max, 0) = max[0]
         /\ Given(max, 0, top) \in [{0} -> Int]
         /\ (Given(max, 0, top))[0] = top
<1>1. Given(max, 0, top) = [i \in {0} |-> top]
  BY DEF Given
<1> QED
  BY <1>1 DEF Highest

(* All are the server's own. *)
LEMMA OwnIsAll ==
  ASSUME NEW S, NEW s \in Seq(S), \A o \in ToSet(s) : o.src = 0
  PROVE  /\ Own(s, 0) \in Seq(S) /\ ToSet(Own(s, 0)) = ToSet(s)
         /\ Distinct(s) => Len(Own(s, 0)) = Cardinality(ToSet(s))
<1>1. PICK keep : keep = {e \in ToSet(s) : e.src = 0}
  OBVIOUS
<1>2. Own(s, 0) = Chosen(s, keep) /\ ToSet(s) \cap keep = ToSet(s)
  BY <1>1 DEF Own
<1>3. Chosen(s, keep) \in Seq(S) /\ ToSet(Chosen(s, keep)) = ToSet(s)
  BY <1>2, ChosenFacts
<1>4. Distinct(s) => Distinct(Chosen(s, keep))
  BY ChosenDistinct
<1> QED
  BY <1>2, <1>3, <1>4, DistinctCount

LEMMA ShelfHas ==
  ASSUME NEW h \in Shelves
  PROVE  /\ h.list \in Seq(Things) /\ h.free \in Seq(Frees) /\ h.max \in [{0} -> Int]
         /\ h.max[0] \in Int
         /\ ToSet(h.list) \subseteq Things
         /\ ToSet(h.free) \subseteq Frees
<1>1. h.list \in Seq(Things) /\ h.free \in Seq(Frees) /\ h.max \in [{0} -> Int]
  BY DEF Shelves
<1> QED
  BY <1>1 DEF ToSet

LEMMA RemoveCursorIs ==
  ASSUME NEW h, h \in Shelves, OnePerSid(h.list), Numbered(h),
         NEW e \in Entries, NEW o \in ToSet(h.list), o.sid = e.sid, o.id = e.id
  PROVE  /\ RemoveCursor(h, e) \in Shelves
         /\ OnePerSid(RemoveCursor(h, e).list)
         /\ Numbered(RemoveCursor(h, e))
         /\ ToSet(RemoveCursor(h, e).list) = ToSet(h.list) \ {o}
<1> DEFINE L == ToSet(h.list)
           F == ToSet(h.free)
<1>1. /\ h.list \in Seq(Things) /\ h.free \in Seq(Frees) /\ h.max \in [{0} -> Int]
      /\ h.max[0] \in Int /\ L \subseteq Things /\ F \subseteq Frees
  BY ShelfHas
<1>2. PICK max : max = h.max[0]
  OBVIOUS
<1>3. max \in Int /\ Highest(h.max, 0) = max
  BY <1>1, <1>2, MaxIs
<1>4. Distinct(h.list) /\ Apart(L)
  BY <1>1, OnePerSidIs
<1>5. Distinct(h.free) /\ PoolOK(L, F, max)
  BY <1>2 DEF Numbered
<1>6. o.id \in 0 .. max /\ \A a \in L : a.id \in 0 .. max
  BY <1>5 DEF PoolOK
<1>7. e.src = 0 /\ \A a \in Things : a.src = 0
  BY DEF Entries, Things
<1>17. PICK T : T = {a \in ToSet(h.list) : a.src = e.src /\ a.sid = e.sid}
  OBVIOUS
<1>8. PICK rest : rest = Without(h.list, T)
  OBVIOUS
<1>9. ToSet(h.list) \cap T = {o}
  BY <1>1, <1>4, <1>7, <1>17 DEF Apart
<1>10. rest \in Seq(Things) /\ Distinct(rest) /\ ToSet(rest) = L \ {o}
  <2>1. PICK A, list, p : A = Things /\ list = h.list /\ p = o
    OBVIOUS
  <2>2. list \in Seq(A) /\ Distinct(list) /\ ToSet(list) \cap T = {p}
    BY <1>1, <1>4, <1>9, <2>1
  <2>3. /\ Without(list, T) \in Seq(A)
        /\ Distinct(Without(list, T))
        /\ \A x : x \in ToSet(Without(list, T)) <=> x \in ToSet(list) /\ x # p
    BY ONLY <2>2, WithoutOne, Zenon
  <2> QED
    BY <1>8, <2>1, <2>3
<1>11. OnePerSid(rest)
  <2>1. Apart(ToSet(rest))
    BY <1>4, <1>10 DEF Apart
  <2> QED
    BY <1>10, <2>1, OnePerSidIs
<1>12. PICK top : top = HighestID(Own(rest, 0))
  OBVIOUS
<1>13. /\ top \in Int
       /\ L \ {o} = {} => top = -1
       /\ L \ {o} # {} => \E a \in L \ {o} : a.id = top
       /\ \A a \in L \ {o} : a.id <= top
  <2>1. PICK own : own = Own(rest, 0)
    OBVIOUS
  <2>2. \A a \in ToSet(rest) : a.src = 0
    BY <1>1, <1>7, <1>10
  <2>3. own \in Seq(Things) /\ ToSet(own) = L \ {o}
    BY <1>10, <2>1, <2>2, OwnIsAll
  <2>4. max \in Nat /\ \A a \in ToSet(own) : a.id \in 0 .. max
    BY <1>3, <1>6, <2>3
  <2>5. /\ HighestID(own) \in Int
        /\ ToSet(own) = {} => HighestID(own) = -1
        /\ ToSet(own) # {} => \E a \in ToSet(own) : a.id = HighestID(own)
        /\ \A a \in ToSet(own) : a.id <= HighestID(own)
    BY <2>3, <2>4, HighestIDIs
  <2> QED
    BY <1>12, <2>1, <2>3, <2>5
<1>14. RemoveCursor(h, e) =
         IF e.id = max
         THEN [list |-> rest, free |-> Trimmed(h.free, 0, top), max |-> Given(h.max, 0, top)]
         ELSE [list |-> rest, max |-> h.max,
               free |-> IF e.id < max THEN Append(h.free, [src |-> 0, id |-> e.id]) ELSE h.free]
  BY <1>3, <1>7, <1>8, <1>12, <1>17 DEF RemoveCursor
<1> HIDE DEF L, F
<1>15. CASE e.id = max
  <2>1. PICK m : m = Given(h.max, 0, top)
    OBVIOUS
  <2>2. m \in [{0} -> Int] /\ m[0] = top
    BY <1>1, <1>13, <2>1, MaxIs
  <2>3. PICK free : free = Trimmed(h.free, 0, top)
    OBVIOUS
  <2>4. free \in Seq(Frees) /\ Distinct(free) /\ ToSet(free) = {f \in F : f.id <= top}
    <3> DEFINE keep == {f \in ToSet(h.free) : f.src = 0 => f.id <= top}
    <3>1. free = Chosen(h.free, keep)
      BY <2>3 DEF Trimmed
    <3>2. free \in Seq(Frees) /\ ToSet(free) = ToSet(h.free) \cap keep
      BY <1>1, <3>1, ChosenFacts
    <3>3. Distinct(free)
      BY <1>1, <1>5, <3>1, ChosenDistinct
    <3>4. \A f \in F : f.src = 0
      BY <1>1 DEF Frees
    <3> QED
      BY <3>2, <3>3, <3>4 DEF F
  <2>5. PICK g : g = [list |-> rest, free |-> free, max |-> m]
    OBVIOUS
  <2>6. g = RemoveCursor(h, e)
    BY <1>14, <1>15, <2>1, <2>3, <2>5
  <2>7. g.list = rest /\ g.free = free /\ g.max = m
    BY <2>5
  <2>8. g \in Shelves
    BY <1>10, <2>2, <2>4, <2>5 DEF Shelves
  <2>9. o.id = max /\ o \in L
    BY <1>15 DEF L
  <2>10. PoolOK(L \ {o}, {f \in F : f.id <= top}, top)
    BY <1>3, <1>5, <1>13, <2>9, HighestLeaves
  <2>11. Numbered(g)
    BY <1>10, <2>2, <2>4, <2>7, <2>10 DEF Numbered
  <2> QED
    BY <1>10, <1>11, <2>6, <2>7, <2>8, <2>11 DEF L
<1>16. CASE e.id # max
  <2>1. e.id < max /\ e.id \in Int /\ o.id = e.id /\ o \in L
    BY <1>3, <1>6, <1>16 DEF L
  <2>2. PICK f : f = [src |-> 0, id |-> e.id]
    OBVIOUS
  <2>3. f \in Frees /\ f.id = o.id
    BY <2>1, <2>2 DEF Frees
  <2>4. PICK free : free = Append(h.free, f)
    OBVIOUS
  <2>5. f \notin ToSet(h.free)
    BY <1>5, <2>1, <2>3 DEF PoolOK, F
  <2>6. free \in Seq(Frees) /\ Distinct(free) /\ ToSet(free) = F \cup {f}
    BY <1>1, <1>5, <2>3, <2>4, <2>5, AppendFacts DEF F
  <2>7. PICK g : g = [list |-> rest, free |-> free, max |-> h.max]
    OBVIOUS
  <2>8. g = RemoveCursor(h, e)
    BY <1>14, <1>16, <2>1, <2>2, <2>4, <2>7
  <2>9. g.list = rest /\ g.free = free /\ g.max = h.max
    BY <2>7
  <2>10. g \in Shelves
    BY <1>1, <1>10, <2>6, <2>7 DEF Shelves
  <2>11. PoolOK(L \ {o}, F \cup {f}, max)
    BY <1>3, <1>5, <2>1, <2>3, OtherLeaves
  <2>12. Numbered(g)
    BY <1>2, <1>10, <2>6, <2>9, <2>11 DEF Numbered
  <2> QED
    BY <1>10, <1>11, <2>8, <2>9, <2>10, <2>12 DEF L
<1> QED
  BY <1>15, <1>16

LEMMA ShownIs ==
  ASSUME NEW e \in Entries, NEW id \in Ids
  PROVE  /\ Shown(e, id) \in Things
         /\ Shown(e, id).sid = e.sid /\ Shown(e, id).id = id /\ Shown(e, id).place = e.place
<1>1. e.src = 0 /\ e.sid \in Int /\ e.place \in Int
  BY DEF Entries
<1> QED
  BY <1>1 DEF Shown, Things, AtRest

(* One that was not there is appended. *)
LEMMA AppendNew ==
  ASSUME NEW list \in Seq(Things), OnePerSid(list), NEW x \in Things,
         \A o \in ToSet(list) : o.sid # x.sid
  PROVE  /\ Append(list, x) \in Seq(Things)
         /\ OnePerSid(Append(list, x))
         /\ ToSet(Append(list, x)) = ToSet(list) \cup {x}
<1>1. Distinct(list) /\ Apart(ToSet(list))
  BY OnePerSidIs
<1>2. x \notin ToSet(list)
  OBVIOUS
<1>3. /\ Append(list, x) \in Seq(Things)
      /\ ToSet(Append(list, x)) = ToSet(list) \cup {x}
      /\ Distinct(Append(list, x))
  BY <1>1, <1>2, AppendFacts
<1>4. Apart(ToSet(Append(list, x)))
  BY <1>1, <1>3 DEF Apart
<1> QED
  BY <1>3, <1>4, OnePerSidIs

LEMMA AddCursorIs ==
  ASSUME NEW h, h \in Shelves, OnePerSid(h.list), Numbered(h),
         NEW e \in Entries, \A o \in ToSet(h.list) : o.sid # e.sid,
         NEW g \in AddCursor(h, e)
  PROVE  /\ g \in Shelves
         /\ OnePerSid(g.list)
         /\ Numbered(g)
         /\ \E id \in Ids : ToSet(g.list) = ToSet(h.list) \cup {Shown(e, id)}
<1> DEFINE L == ToSet(h.list)
           F == ToSet(h.free)
<1>1. /\ h.list \in Seq(Things) /\ h.free \in Seq(Frees) /\ h.max \in [{0} -> Int]
      /\ h.max[0] \in Int /\ L \subseteq Things /\ F \subseteq Frees
  BY ShelfHas
<1>2. PICK max : max = h.max[0]
  OBVIOUS
<1>3. max \in Int /\ Highest(h.max, 0) = max
  BY <1>1, <1>2, MaxIs
<1>4. Distinct(h.list) /\ Apart(L)
  BY <1>1, OnePerSidIs
<1>5. Distinct(h.free) /\ PoolOK(L, F, max)
  BY <1>2 DEF Numbered
<1>6. e.src = 0 /\ (\A a \in Things : a.src = 0) /\ \A a \in Frees : a.src = 0 /\ a.id \in Int
  BY DEF Entries, Things, Frees
<1>7. ASSUME NEW id \in Ids
      PROVE  /\ Append(h.list, Shown(e, id)) \in Seq(Things)
             /\ OnePerSid(Append(h.list, Shown(e, id)))
             /\ ToSet(Append(h.list, Shown(e, id))) = L \cup {Shown(e, id)}
  BY <1>1, <1>7, ShownIs, AppendNew
<1>8. PICK count : count = Len(Own(h.list, 0))
  OBVIOUS
<1>9. PICK kept : kept = Len(Own(h.free, 0))
  OBVIOUS
<1>10. count = Cardinality(L) /\ kept = Cardinality(F)
  BY <1>1, <1>4, <1>5, <1>6, <1>8, <1>9, OwnIsAll
<1>11. g \in IF kept \in 1 .. max
             THEN {[list |-> Append(h.list, Shown(e, h.free[n].id)), free |-> RemoveAt(h.free, n),
                    max |-> h.max] : n \in Closest(h.free, 0)}
             ELSE {[list |-> Append(h.list, Shown(e, count)), free |-> h.free,
                    max |-> Given(h.max, 0, count)]}
  BY <1>3, <1>6, <1>8, <1>9 DEF AddCursor, FindsFree
<1>12. CASE kept \in 1 .. max
  <2>1. PICK n \in Closest(h.free, 0) :
             g = [list |-> Append(h.list, Shown(e, h.free[n].id)), free |-> RemoveAt(h.free, n),
                  max |-> h.max]
    BY <1>11, <1>12
  <2>2. F # {}
    BY <1>10, <1>12, FS_EmptySet
  <2>3. n \in 1 .. Len(h.free)
    <3>1. Len(h.free) \in Nat /\ DOMAIN h.free = 1 .. Len(h.free) /\ Len(h.free) # 0
      BY <1>1, <2>2 DEF ToSet
    <3> QED
      BY <3>1 DEF Closest
  <2>4. PICK free, f : free = RemoveAt(h.free, n) /\ f = h.free[n]
    OBVIOUS
  <2>5. f \in F /\ f.id \in Int /\ f.id \in Ids
    BY <1>1, <1>6, <2>3, <2>4 DEF ToSet, Ids
  <2>6. free \in Seq(Frees) /\ Distinct(free) /\ ToSet(free) = F \ {f}
    <3>1. free \in Seq(Frees)
      BY <1>1, <2>3, <2>4, RemoveAtFacts
    <3>2. /\ ToSet(free) \subseteq F /\ F \ {f} \subseteq ToSet(free)
          /\ Distinct(free) /\ f \notin ToSet(free)
      BY <1>1, <1>5, <2>3, <2>4, RemoveAtKeeps
    <3> QED
      BY <3>1, <3>2
  <2>7. PICK x : x = Shown(e, f.id)
    OBVIOUS
  <2>8. x.id = f.id
    BY <2>5, <2>7, ShownIs
  <2>9. PICK list : list = Append(h.list, x)
    OBVIOUS
  <2>10. list \in Seq(Things) /\ OnePerSid(list) /\ ToSet(list) = L \cup {x}
    BY <1>7, <2>5, <2>7, <2>9
  <2>11. g = [list |-> list, free |-> free, max |-> h.max]
    BY <2>1, <2>4, <2>7, <2>9
  <2>12. g.list = list /\ g.free = free /\ g.max = h.max
    BY <2>11
  <2>13. g \in Shelves
    BY <1>1, <2>6, <2>10, <2>11 DEF Shelves
  <2> HIDE DEF L, F
  <2>14. PoolOK(L \cup {x}, F \ {f}, max)
    BY <1>3, <1>5, <2>5, <2>8, KeptIsGiven
  <2>15. Numbered(g)
    BY <1>2, <2>6, <2>10, <2>12, <2>14 DEF Numbered
  <2> QED
    BY <2>5, <2>7, <2>10, <2>12, <2>13, <2>15 DEF L
<1>13. CASE kept \notin 1 .. max
  <2> HIDE DEF L, F
  <2>1. F = {} /\ count = IF L = {} THEN 0 ELSE max + 1
    BY <1>3, <1>5, <1>10, <1>13, KeptAreCounted
  <2>2. count \in Int /\ count \in Ids
    BY <1>3, <2>1 DEF Ids
  <2>3. PICK x, m : x = Shown(e, count) /\ m = Given(h.max, 0, count)
    OBVIOUS
  <2>4. x.id = count /\ m \in [{0} -> Int] /\ m[0] = count
    BY <1>1, <2>2, <2>3, ShownIs, MaxIs
  <2>5. PICK list : list = Append(h.list, x)
    OBVIOUS
  <2>6. list \in Seq(Things) /\ OnePerSid(list) /\ ToSet(list) = L \cup {x}
    BY <1>7, <2>2, <2>3, <2>5
  <2>7. g = [list |-> list, free |-> h.free, max |-> m]
    BY <1>11, <1>13, <2>3, <2>5
  <2>8. g.list = list /\ g.free = h.free /\ g.max = m
    BY <2>7
  <2>9. g \in Shelves
    BY <1>1, <2>4, <2>6, <2>7 DEF Shelves
  <2>10. PoolOK(L \cup {x}, {}, x.id)
    BY <1>3, <1>5, <2>1, <2>4, NewIsGiven
  <2>11. Numbered(g)
    BY <1>5, <2>1, <2>4, <2>6, <2>8, <2>10 DEF Numbered, F
  <2> QED
    BY <2>2, <2>3, <2>6, <2>8, <2>9, <2>11 DEF L
<1> QED
  BY <1>12, <1>13

LEMMA RenewedIs ==
  ASSUME NEW o \in Things, NEW e \in Entries
  PROVE  /\ Renewed(o, e) \in Things
         /\ Renewed(o, e).sid = o.sid /\ Renewed(o, e).id = o.id /\ Renewed(o, e).place = e.place
<1>1. /\ o.src = 0 /\ o.sid \in Int /\ o.id \in Ids /\ e.place \in Int /\ e.motion \in Int
  BY DEF Entries, Things
<1>2. (IF o.place # e.place /\ e.motion = AtRest THEN Estimated ELSE e.motion) \in Int
  BY <1>1 DEF Estimated
<1> QED
  BY <1>1, <1>2 DEF Renewed, Things

LEMMA RefreshedIs ==
  ASSUME NEW list \in Seq(Things), OnePerSid(list), NEW e \in Entries,
         NEW o \in ToSet(list), o.sid = e.sid
  PROVE  /\ Refreshed(list, e) \in Seq(Things)
         /\ OnePerSid(Refreshed(list, e))
         /\ ToSet(Refreshed(list, e)) = (ToSet(list) \ {o}) \cup {Renewed(o, e)}
<1> DEFINE n == Len(list)
<1>1. PICK new : new = Refreshed(list, e)
  OBVIOUS
<1>2. n \in Nat /\ DOMAIN list = 1 .. n /\ \A i \in 1 .. n : list[i] \in Things
  OBVIOUS
<1>3. e.src = 0 /\ \A x \in Things : x.src = 0
  BY DEF Entries, Things
<1>4. new = [i \in 1 .. n |-> IF list[i].sid = e.sid THEN Renewed(list[i], e) ELSE list[i]]
  BY <1>1, <1>2, <1>3 DEF Refreshed
<1>5. \A i \in 1 .. n : new[i] \in Things /\ new[i].sid = list[i].sid
  BY <1>2, <1>4, RenewedIs
<1>6. new \in [1 .. n -> Things]
  BY <1>4, <1>5
<1>7. new \in Seq(Things) /\ Len(new) = n
  BY <1>2, <1>6
<1>8. \A i, j \in 1 .. n : list[i].sid = list[j].sid => i = j
  BY DEF OnePerSid
<1>9. OnePerSid(new)
  BY <1>5, <1>7, <1>8 DEF OnePerSid
<1>10. ToSet(list) = {list[i] : i \in 1 .. n} /\ ToSet(new) = {new[i] : i \in 1 .. n}
  BY <1>2, <1>7 DEF ToSet
<1>11. PICK k \in 1 .. n : list[k] = o
  BY <1>10
<1> HIDE DEF n
<1>12. new[k] = Renewed(o, e) /\ \A i \in 1 .. n : i # k => new[i] = list[i] /\ list[i] # o
  <2>1. new[k] = Renewed(o, e)
    BY <1>4, <1>11
  <2>2. ASSUME NEW i \in 1 .. n, i # k PROVE new[i] = list[i] /\ list[i] # o
    <3>1. list[i].sid # e.sid
      BY <1>8, <1>11, <2>2
    <3> QED
      BY <1>4, <3>1
  <2> QED
    BY <2>1, <2>2
<1>13. ToSet(new) = (ToSet(list) \ {o}) \cup {Renewed(o, e)}
  BY <1>10, <1>11, <1>12
<1> QED
  BY <1>1, <1>7, <1>9, <1>13

(* The numbers stay when something else changes. *)
LEMMA RenewedPool ==
  ASSUME NEW L, NEW F, NEW top \in Int, PoolOK(L, F, top), NEW o \in L, NEW x, x.id = o.id
  PROVE  PoolOK((L \ {o}) \cup {x}, F, top)
<1> DEFINE M == (L \ {o}) \cup {x}
<1>1. /\ \A a, b \in L : a.id = b.id => a = b
      /\ \A a, b \in F : a.id = b.id => a = b
      /\ \A a \in L, b \in F : a.id # b.id
      /\ \E a \in L : a.id = top
      /\ \A a \in L \cup F : a.id \in 0 .. top
      /\ \A i \in 0 .. top : \E a \in L \cup F : a.id = i
  BY DEF PoolOK
<1>2. (\A a, b \in M : a.id = b.id => a = b) /\ \A a \in M, b \in F : a.id # b.id
  BY <1>1
<1>3. (\E a \in M : a.id = top) /\ \A a \in M \cup F : a.id \in 0 .. top
  BY <1>1
<1>4. \A i \in 0 .. top : \E a \in M \cup F : a.id = i
  <2> SUFFICES ASSUME NEW i \in 0 .. top PROVE \E a \in M \cup F : a.id = i
    OBVIOUS
  <2>1. PICK a \in L \cup F : a.id = i
    BY <1>1
  <2>2. x \in M \cup F /\ (a = o \/ a \in M \cup F)
    BY <2>1
  <2> HIDE DEF M
  <2> QED
    BY <2>1, <2>2
<1> QED
  BY <1>1, <1>2, <1>3, <1>4 DEF PoolOK

-----------------------------------------------------------------------------
(* An entry e can be applied to the set L of things. *)
Fits(L, e) ==
  /\ e.state = "removed" => \E o \in L : o.sid = e.sid /\ o.id = e.id
  /\ e.state = "added"   => \A o \in L : o.sid # e.sid
  /\ e.state = "updated" => \E o \in L : o.sid = e.sid

(* The set M that it makes of it. *)
Makes(kind, L, e, M) ==
  /\ e.state = "removed" => \E o \in L : o.sid = e.sid /\ M = L \ {o}
  /\ e.state = "added"   => \E id \in Ids : /\ kind = "object" => id = e.id
                                            /\ M = L \cup {Shown(e, id)}
  /\ e.state = "updated" => \E o \in L : o.sid = e.sid /\ M = (L \ {o}) \cup {Renewed(o, e)}

LEMMA WithListIs ==
  ASSUME NEW h \in Shelves, NEW list \in Seq(Things)
  PROVE  /\ WithList(h, list) \in Shelves
         /\ WithList(h, list).list = list
         /\ WithList(h, list).free = h.free
         /\ WithList(h, list).max = h.max
  BY ShelfHas DEF WithList, Shelves

LEMMA RemovedIs ==
  ASSUME NEW kind \in Kinds, NEW h, ShelfOK(kind, h), NEW e \in Entries,
         NEW o \in ToSet(h.list), o.sid = e.sid, o.id = e.id
  PROVE  /\ ShelfOK(kind, Removed(kind, h, e))
         /\ ToSet(Removed(kind, h, e).list) = ToSet(h.list) \ {o}
<1>1. h \in Shelves /\ OnePerSid(h.list) /\ h.list \in Seq(Things) /\ (kind # "object" => Numbered(h))
  BY ShelfHas DEF ShelfOK
<1>2. CASE kind = "object"
  <2>1. PICK T : T = {a \in ToSet(h.list) : a.sid = e.sid}
    OBVIOUS
  <2>2. PICK A, list, p : A = Things /\ list = h.list /\ p = o
    OBVIOUS
  <2>3. Distinct(list) /\ Apart(ToSet(list))
    BY <1>1, <2>2, OnePerSidIs
  <2>4. list \in Seq(A) /\ Distinct(list) /\ ToSet(list) \cap T = {p}
    BY <1>1, <2>1, <2>2, <2>3 DEF Apart
  <2>5. /\ Without(list, T) \in Seq(A)
        /\ Distinct(Without(list, T))
        /\ \A x : x \in ToSet(Without(list, T)) <=> x \in ToSet(list) /\ x # p
    BY ONLY <2>4, WithoutOne, Zenon
  <2>6. PICK rest : rest = Without(h.list, T)
    OBVIOUS
  <2>7. rest \in Seq(Things) /\ Distinct(rest) /\ ToSet(rest) = ToSet(h.list) \ {o}
    BY <2>2, <2>5, <2>6
  <2>8. Apart(ToSet(rest))
    BY <2>2, <2>3, <2>7 DEF Apart
  <2>9. OnePerSid(rest)
    BY <2>7, <2>8, OnePerSidIs
  <2>10. Removed(kind, h, e) = WithList(h, rest)
    BY <1>2, <2>1, <2>6 DEF Removed, RemoveObject
  <2> QED
    BY <1>1, <1>2, <2>7, <2>9, <2>10, WithListIs DEF ShelfOK
<1>3. CASE kind # "object"
  <2>1. Removed(kind, h, e) = RemoveCursor(h, e)
    BY <1>3 DEF Removed, RemoveBlob, Kinds
  <2> QED
    BY <1>1, <1>3, <2>1, RemoveCursorIs DEF ShelfOK
<1> QED
  BY <1>2, <1>3

LEMMA AddedIs ==
  ASSUME NEW kind \in Kinds, NEW h, ShelfOK(kind, h), NEW e \in Entries,
         \A o \in ToSet(h.list) : o.sid # e.sid, NEW g \in Added(kind, h, e)
  PROVE  /\ ShelfOK(kind, g)
         /\ \E id \in Ids : /\ kind = "object" => id = e.id
                            /\ ToSet(g.list) = ToSet(h.list) \cup {Shown(e, id)}
<1>1. h \in Shelves /\ OnePerSid(h.list) /\ h.list \in Seq(Things) /\ (kind # "object" => Numbered(h))
  BY ShelfHas DEF ShelfOK
<1>2. CASE kind = "object"
  <2>1. PICK x : x = Shown(e, e.id)
    OBVIOUS
  <2>2. e.id \in Ids
    BY DEF Entries
  <2>3. x \in Things /\ x.sid = e.sid
    BY <2>1, <2>2, ShownIs
  <2>4. PICK list : list = Append(h.list, x)
    OBVIOUS
  <2>5. list \in Seq(Things) /\ OnePerSid(list) /\ ToSet(list) = ToSet(h.list) \cup {x}
    BY <1>1, <2>3, <2>4, AppendNew
  <2>6. g = WithList(h, list)
    BY <1>2, <2>1, <2>4 DEF Added, AddObject
  <2>7. g \in Shelves /\ g.list = list
    BY <1>1, <2>5, <2>6, WithListIs
  <2> QED
    BY <1>2, <2>1, <2>2, <2>5, <2>7 DEF ShelfOK
<1>3. CASE kind # "object"
  <2>1. g \in AddCursor(h, e)
    BY <1>3 DEF Added, AddBlob, Kinds
  <2> QED
    BY <1>1, <1>3, <2>1, AddCursorIs DEF ShelfOK
<1> QED
  BY <1>2, <1>3

LEMMA UpdatedIs ==
  ASSUME NEW kind \in Kinds, NEW h, ShelfOK(kind, h), NEW e \in Entries,
         NEW o \in ToSet(h.list), o.sid = e.sid
  PROVE  /\ ShelfOK(kind, Updated(kind, h, e))
         /\ ToSet(Updated(kind, h, e).list) = (ToSet(h.list) \ {o}) \cup {Renewed(o, e)}
<1>1. h \in Shelves /\ OnePerSid(h.list) /\ h.list \in Seq(Things) /\ (kind # "object" => Numbered(h))
  BY ShelfHas DEF ShelfOK
<1>2. PICK x : x = Renewed(o, e)
  OBVIOUS
<1>3. o \in Things /\ x.id = o.id
  <2>1. o \in Things
    BY <1>1, ShelfHas
  <2> QED
    BY <1>2, <2>1, RenewedIs
<1>4. PICK list : list = Refreshed(h.list, e)
  OBVIOUS
<1>5. list \in Seq(Things) /\ OnePerSid(list) /\ ToSet(list) = (ToSet(h.list) \ {o}) \cup {x}
  BY <1>1, <1>2, <1>4, RefreshedIs
<1>6. PICK g : g = WithList(h, list)
  OBVIOUS
<1>7. Updated(kind, h, e) = g
  BY <1>4, <1>6 DEF Updated, UpdateObject, UpdateBlob, UpdateCursor, Kinds
<1>8. g \in Shelves /\ g.list = list /\ g.free = h.free /\ g.max = h.max
  BY <1>1, <1>5, <1>6, WithListIs
<1>9. Numbered(h) => Numbered(g)
  <2> SUFFICES ASSUME Numbered(h) PROVE Numbered(g)
    OBVIOUS
  <2>1. PICK L, F, top : L = ToSet(h.list) /\ F = ToSet(h.free) /\ top = h.max[0]
    OBVIOUS
  <2>2. PoolOK(L, F, top) /\ Distinct(h.free) /\ top \in Int /\ o \in L
    BY <1>1, <2>1, ShelfHas DEF Numbered
  <2>3. PoolOK((L \ {o}) \cup {x}, F, top)
    BY <1>3, <2>2, RenewedPool
  <2> QED
    BY <1>5, <1>8, <2>1, <2>2, <2>3 DEF Numbered
<1> QED
  BY <1>1, <1>2, <1>5, <1>7, <1>8, <1>9 DEF ShelfOK

LEMMA AppliedIs ==
  ASSUME NEW kind \in Kinds, NEW h, ShelfOK(kind, h), NEW e \in Entries, Fits(ToSet(h.list), e),
         NEW g \in Applied(kind, h, e)
  PROVE  ShelfOK(kind, g) /\ Makes(kind, ToSet(h.list), e, ToSet(g.list))
<1>1. e.state \in {"removed", "added", "updated"}
  BY DEF Entries
<1>2. CASE e.state = "removed"
  <2>1. PICK o \in ToSet(h.list) : o.sid = e.sid /\ o.id = e.id
    BY <1>2 DEF Fits
  <2>2. g = Removed(kind, h, e)
    BY <1>2 DEF Applied
  <2>3. ShelfOK(kind, g) /\ ToSet(g.list) = ToSet(h.list) \ {o}
    BY <2>1, <2>2, RemovedIs
  <2> QED
    BY <1>2, <2>1, <2>3 DEF Makes
<1>3. CASE e.state = "added"
  <2>1. \A o \in ToSet(h.list) : o.sid # e.sid
    BY <1>3 DEF Fits
  <2>2. g \in Added(kind, h, e)
    BY <1>3 DEF Applied
  <2>3. /\ ShelfOK(kind, g)
        /\ \E id \in Ids : /\ kind = "object" => id = e.id
                           /\ ToSet(g.list) = ToSet(h.list) \cup {Shown(e, id)}
    BY <2>1, <2>2, AddedIs
  <2> QED
    BY <1>3, <2>3 DEF Makes
<1>4. CASE e.state = "updated"
  <2>1. PICK o \in ToSet(h.list) : o.sid = e.sid
    BY <1>4 DEF Fits
  <2>2. g = Updated(kind, h, e)
    BY <1>4 DEF Applied
  <2>3. ShelfOK(kind, g) /\ ToSet(g.list) = (ToSet(h.list) \ {o}) \cup {Renewed(o, e)}
    BY <2>1, <2>2, UpdatedIs
  <2> QED
    BY <1>4, <2>1, <2>3 DEF Makes
<1> QED
  BY <1>1, <1>2, <1>3, <1>4

-----------------------------------------------------------------------------
(* The entries of a frame, one after the other. *)

EntriesOK(L, es) == /\ es \in Seq(Entries)
                    /\ OnePerSid(es)
                    /\ \A i \in 1 .. Len(es) : Fits(L, es[i])

(* o has what an entry e says, and else what it had in L. *)
Retold(kind, L, e, o) ==
  /\ e.state # "removed"
  /\ o.sid = e.sid
  /\ o.place = e.place
  /\ e.state = "added" /\ kind = "object" => o.id = e.id
  /\ e.state = "updated" => \E p \in L : p.sid = e.sid /\ p.id = o.id

(* M is what the first i entries make of L. *)
Upto(kind, L, es, i, M) ==
  /\ \A o \in M : \/ o \in L /\ \A j \in 1 .. i : es[j].sid # o.sid
                  \/ \E j \in 1 .. i : Retold(kind, L, es[j], o)
  /\ \A o \in L : (\A j \in 1 .. i : es[j].sid # o.sid) => o \in M
  /\ \A j \in 1 .. i : es[j].state # "removed" => \E o \in M : o.sid = es[j].sid

LEMMA UptoFits ==
  ASSUME NEW kind, NEW L, NEW es, EntriesOK(L, es), NEW i \in 1 .. Len(es),
         NEW M, Upto(kind, L, es, i - 1, M)
  PROVE  Fits(M, es[i])
<1> DEFINE e == es[i]
<1>1. i \in Int /\ Len(es) \in Nat
  BY DEF EntriesOK
<1>2. Fits(L, e)
  BY DEF EntriesOK
<1>3. \A j \in 1 .. i - 1 : j \in 1 .. i /\ es[j].sid # e.sid
  BY <1>1 DEF EntriesOK, OnePerSid
<1>4. ASSUME NEW o \in L, o.sid = e.sid PROVE o \in M
  BY <1>3, <1>4 DEF Upto
<1>5. ASSUME NEW o \in M, o.sid = e.sid PROVE o \in L
  BY <1>3, <1>5 DEF Upto, Retold
<1> QED
  BY <1>2, <1>4, <1>5 DEF Fits

LEMMA UptoNext ==
  ASSUME NEW kind, NEW L, NEW es, EntriesOK(L, es), NEW i \in 1 .. Len(es),
         NEW M, M \subseteq Things, Apart(M), Upto(kind, L, es, i - 1, M),
         NEW N, Makes(kind, M, es[i], N)
  PROVE  Upto(kind, L, es, i, N)
<1>1. PICK e : e = es[i]
  OBVIOUS
<1>2. i \in Int /\ Len(es) \in Nat /\ e \in Entries
  <2>1. es \in Seq(Entries)
    BY DEF EntriesOK
  <2> QED
    BY <1>1, <2>1
<1>3. \A j \in 1 .. i - 1 : es[j].sid # e.sid
  BY <1>1, <1>2 DEF EntriesOK, OnePerSid
<1>4. \A j : j \in 1 .. i <=> j \in 1 .. i - 1 \/ j = i
  BY <1>2
<1>5. /\ \A o \in M : \/ o \in L /\ \A j \in 1 .. i - 1 : es[j].sid # o.sid
                      \/ \E j \in 1 .. i - 1 : Retold(kind, L, es[j], o)
      /\ \A o \in L : (\A j \in 1 .. i - 1 : es[j].sid # o.sid) => o \in M
      /\ \A j \in 1 .. i - 1 : es[j].state # "removed" => \E o \in M : o.sid = es[j].sid
  BY DEF Upto
<1>6. ASSUME NEW o \in M, o.sid = e.sid PROVE o \in L
  BY <1>3, <1>5, <1>6 DEF Retold
(* Those with another session stay as they are. *)
<1>7. ASSUME \A o : o.sid # e.sid => (o \in N <=> o \in M),
             \A o \in N : o.sid = e.sid => Retold(kind, L, e, o),
             e.state # "removed" => \E o \in N : o.sid = e.sid
      PROVE  Upto(kind, L, es, i, N)
  <2>1. ASSUME NEW o \in N
        PROVE  \/ o \in L /\ \A j \in 1 .. i : es[j].sid # o.sid
               \/ \E j \in 1 .. i : Retold(kind, L, es[j], o)
    <3>1. CASE o.sid = e.sid
      BY <1>1, <1>4, <1>7, <3>1
    <3>2. CASE o.sid # e.sid
      <4>1. o \in M
        BY <1>7, <3>2
      <4>2. CASE o \in L /\ \A j \in 1 .. i - 1 : es[j].sid # o.sid
        BY <1>1, <1>4, <3>2, <4>2
      <4>3. CASE \E j \in 1 .. i - 1 : Retold(kind, L, es[j], o)
        BY <1>4, <4>3
      <4> QED
        BY <1>5, <4>1, <4>2, <4>3
    <3> QED
      BY <3>1, <3>2
  <2>2. ASSUME NEW o \in L, \A j \in 1 .. i : es[j].sid # o.sid PROVE o \in N
    BY <1>1, <1>4, <1>5, <1>7, <2>2
  <2>3. ASSUME NEW j \in 1 .. i, es[j].state # "removed" PROVE \E o \in N : o.sid = es[j].sid
    <3>1. CASE j = i
      BY <1>1, <1>7, <2>3, <3>1
    <3>2. CASE j \in 1 .. i - 1
      <4>1. PICK o \in M : o.sid = es[j].sid
        BY <1>5, <2>3, <3>2
      <4> QED
        BY <1>3, <1>7, <3>2, <4>1
    <3> QED
      BY <1>4, <3>1, <3>2
  <2> QED
    BY <2>1, <2>2, <2>3 DEF Upto
<1>8. Makes(kind, M, e, N)
  BY <1>1
<1>9. e.state \in {"removed", "added", "updated"}
  BY <1>2 DEF Entries
<1>10. CASE e.state = "removed"
  <2>1. PICK o \in M : o.sid = e.sid /\ N = M \ {o}
    BY <1>8, <1>10 DEF Makes
  <2>2. \A p \in N : p.sid # e.sid
    BY <2>1 DEF Apart
  <2> QED
    BY <1>7, <1>10, <2>1, <2>2
<1>11. CASE e.state = "added"
  <2>1. PICK id \in Ids : (kind = "object" => id = e.id) /\ N = M \cup {Shown(e, id)}
    BY <1>8, <1>11 DEF Makes
  <2>2. PICK x : x = Shown(e, id)
    OBVIOUS
  <2>3. x.sid = e.sid /\ x.id = id /\ x.place = e.place
    BY <1>2, <2>2, ShownIs
  <2>4. \A p \in M : p.sid # e.sid
    <3>1. Fits(M, e)
      BY <1>1, UptoFits
    <3> QED
      BY <1>11, <3>1 DEF Fits
  <2>5. Retold(kind, L, e, x)
    BY <1>11, <2>1, <2>3 DEF Retold
  <2> QED
    BY <1>7, <2>1, <2>2, <2>3, <2>4, <2>5
<1>12. CASE e.state = "updated"
  <2>1. PICK o \in M : o.sid = e.sid /\ N = (M \ {o}) \cup {Renewed(o, e)}
    BY <1>8, <1>12 DEF Makes
  <2>2. PICK x : x = Renewed(o, e)
    OBVIOUS
  <2>3. x.sid = e.sid /\ x.id = o.id /\ x.place = e.place
    BY <1>2, <2>1, <2>2, RenewedIs
  <2>4. \A p \in M \ {o} : p.sid # e.sid
    BY <2>1 DEF Apart
  <2>5. o \in L
    BY <1>6, <2>1
  <2>6. Retold(kind, L, e, x)
    BY <1>12, <2>1, <2>3, <2>5 DEF Retold
  <2> QED
    BY <1>7, <2>1, <2>2, <2>3, <2>4, <2>6
<1> QED
  BY <1>9, <1>10, <1>11, <1>12

LEMMA AllAppliedIs ==
  ASSUME NEW kind \in Kinds, NEW h, ShelfOK(kind, h), NEW es, EntriesOK(ToSet(h.list), es),
         NEW g \in AllApplied(kind, h, es)
  PROVE  ShelfOK(kind, g) /\ Upto(kind, ToSet(h.list), es, Len(es), ToSet(g.list))
<1> DEFINE n == Len(es)
           L == ToSet(h.list)
           V == SUBSET Shelves
           Good(X, i) == \A x \in X : ShelfOK(kind, x) /\ Upto(kind, L, es, i, ToSet(x.list))
           Next1(X, i) == UNION {Applied(kind, x, es[i]) : x \in X}
           step == [i \in 1 .. n |-> [X \in V |-> IF Next1(X, i) \subseteq Shelves
                                                  THEN Next1(X, i) ELSE {}]]
           after[i \in 0 .. n] ==
             IF i = 0 THEN {h} ELSE UNION {Applied(kind, x, es[i]) : x \in after[i - 1]}
<1>1. n \in Nat /\ \A i \in 1 .. n : es[i] \in Entries
  <2>1. es \in Seq(Entries)
    BY DEF EntriesOK
  <2> QED
    BY <2>1
<1>2. AllApplied(kind, h, es) = after[n]
  BY DEF AllApplied
<1>3. {h} \in V /\ Good({h}, 0)
  BY <1>1 DEF ShelfOK, Upto
<1>4. ASSUME NEW i \in 1 .. n, NEW X, Good(X, i - 1)
      PROVE  Good(Next1(X, i), i) /\ Next1(X, i) \subseteq Shelves
  <2> SUFFICES ASSUME NEW x \in X, NEW y \in Applied(kind, x, es[i])
               PROVE  ShelfOK(kind, y) /\ Upto(kind, L, es, i, ToSet(y.list)) /\ y \in Shelves
    OBVIOUS
  <2>1. ShelfOK(kind, x) /\ Upto(kind, L, es, i - 1, ToSet(x.list))
    BY <1>4
  <2>2. Fits(ToSet(x.list), es[i])
    BY <2>1, UptoFits
  <2>3. ShelfOK(kind, y) /\ Makes(kind, ToSet(x.list), es[i], ToSet(y.list))
    BY <1>1, <2>1, <2>2, AppliedIs
  <2>4. ToSet(x.list) \subseteq Things /\ Apart(ToSet(x.list))
    BY <2>1, ShelfHas, OnePerSidIs DEF ShelfOK
  <2>5. PICK M, N : M = ToSet(x.list) /\ N = ToSet(y.list)
    OBVIOUS
  <2>6. /\ M \subseteq Things /\ Apart(M) /\ Upto(kind, L, es, i - 1, M)
        /\ Makes(kind, M, es[i], N)
    BY <2>1, <2>3, <2>4, <2>5
  <2>7. Upto(kind, L, es, i, N)
    BY <2>6, UptoNext
  <2> QED
    BY <2>3, <2>5, <2>7 DEF ShelfOK
<1> HIDE DEF n, V, Good, Next1
<1>5. step \in [1 .. n -> [V -> V]]
  BY DEF V
<1>6. \A i \in 1 .. n, X \in V : step[i][X] = IF Next1(X, i) \subseteq Shelves
                                              THEN Next1(X, i) ELSE {}
  OBVIOUS
<1> HIDE DEF step
<1>7. PICK f : f \in [0 .. n -> V] /\ f[0] = {h} /\ \A i \in 1 .. n : f[i] = step[i][f[i - 1]]
  <2>1. IsLoop(V, n, step)
    BY <1>5 DEF IsLoop
  <2>2. \E f : IsRun(V, {h}, n, step, f)
    BY <1>1, <1>3, <2>1, LoopExists
  <2> QED
    BY <2>2 DEF IsRun
<1>8. ASSUME NEW i \in 1 .. n, Good(f[i - 1], i - 1)
      PROVE  f[i] = Next1(f[i - 1], i) /\ Good(f[i], i)
  <2>1. i - 1 \in 0 .. n /\ f[i - 1] \in V
    BY <1>1, <1>7
  <2>2. Good(Next1(f[i - 1], i), i) /\ Next1(f[i - 1], i) \subseteq Shelves
    BY <1>4, <1>8
  <2> QED
    BY <1>6, <1>7, <2>1, <2>2
<1>9. \A i \in 0 .. n : Good(f[i], i)
  <2> DEFINE T == {i \in 0 .. n : Good(f[i], i)}
  <2>1. 0 \in T
    <3>1. 0 \in 0 .. n
      BY <1>1
    <3>2. Good(f[0], 0)
      BY <1>3, <1>7, Zenon
    <3> QED
      BY <3>1, <3>2, Zenon
  <2>2. \A i \in 1 .. n : i - 1 \in T => i \in T
    BY <1>1, <1>8
  <2> HIDE DEF T
  <2>3. \A i \in 0 .. n : i \in T
    BY ONLY <1>1, <2>1, <2>2, Counting, Zenon
  <2> QED
    BY <2>3 DEF T
<1>10. ASSUME NEW i \in 1 .. n
       PROVE  i # 0 /\ i \in 0 .. n /\ i - 1 \in 0 .. n /\ f[i] = Next1(f[i - 1], i)
  BY <1>1, <1>8, <1>9
<1>11. f = [i \in 0 .. n |->
              IF i = 0 THEN {h} ELSE UNION {Applied(kind, x, es[i]) : x \in f[i - 1]}]
  <2>1. \A i \in 0 .. n : i = 0 \/ i \in 1 .. n
    BY <1>1
  <2> QED
    BY <1>7, <1>10, <2>1 DEF Next1
<1>12. after = [i \in 0 .. n |->
                  IF i = 0 THEN {h} ELSE UNION {Applied(kind, x, es[i]) : x \in after[i - 1]}]
  BY <1>11
<1> HIDE DEF after
<1>13. after[0] = {h} /\ \A i \in 1 .. n : i - 1 \in 0 .. n /\ after[i] = Next1(after[i - 1], i)
  <2>1. 0 \in 0 .. n
    BY <1>1
  <2>2. after[0] = {h}
    BY <1>12, <2>1
  <2>3. ASSUME NEW i \in 1 .. n PROVE i - 1 \in 0 .. n /\ after[i] = Next1(after[i - 1], i)
    <3>1. i # 0 /\ i \in 0 .. n /\ i - 1 \in 0 .. n
      BY <1>10
    <3>2. after[i] = UNION {Applied(kind, x, es[i]) : x \in after[i - 1]}
      BY <1>12, <3>1
    <3> QED
      BY <3>1, <3>2 DEF Next1
  <2> QED
    BY <2>2, <2>3
<1>14. \A i \in 0 .. n : Good(after[i], i)
  <2> DEFINE T == {i \in 0 .. n : Good(after[i], i)}
  <2>1. 0 \in T
    <3>1. 0 \in 0 .. n
      BY <1>1
    <3>2. Good(after[0], 0)
      BY <1>3, <1>13, Zenon
    <3> QED
      BY <3>1, <3>2, Zenon
  <2>2. \A i \in 1 .. n : i - 1 \in T => i \in T
    BY <1>1, <1>4, <1>10, <1>13
  <2> HIDE DEF T
  <2>3. \A i \in 0 .. n : i \in T
    BY ONLY <1>1, <2>1, <2>2, Counting, Zenon
  <2> QED
    BY <2>3 DEF T
<1>15. Good(after[n], n) /\ g \in after[n]
  BY <1>1, <1>2, <1>14
<1> QED
  BY <1>15 DEF Good, n

-----------------------------------------------------------------------------
(* What a bundle makes of a list. *)

Messages == [sid : Int, id : Ids, place : Int, motion : Int]
Findings == [state : {"added", "updated", "removed", "same"}, src : {0}, sid : Int, id : Ids,
             place : Int, motion : Int]

(* m is what the client finds a set message s to say of the things L.      *)
Finds(kind, L, s, m) ==
  /\ m \in Findings
  /\ m.sid = s.sid /\ m.place = s.place
  /\ \/ /\ \A o \in L : o.sid # s.sid
        /\ m.state = "added"
        /\ kind = "object" => m.id = s.id
     \/ \E o \in L : /\ o.sid = s.sid /\ m.id = o.id
                     /\ \/ m.state = "updated"
                        \/ m.state = "same" /\ o.place = s.place

LEMMA NoticedIs ==
  ASSUME NEW c, c.source_id = 0, NEW s \in Messages, NEW list \in Seq(Things),
         NEW like, like = {n \in DOMAIN list : list[n].sid = s.sid},
         NEW differing, \A n \in DOMAIN list : list[n].place # s.place => n \in differing,
         NEW id \in Ids, NEW kind, kind = "object" => id = s.id
  PROVE  Finds(kind, ToSet(list), s, Noticed(c, s, list, like, differing, id))
<1>1. Len(list) \in Nat /\ DOMAIN list = 1 .. Len(list) /\ ToSet(list) = {list[n] : n \in 1 .. Len(list)}
  BY DEF ToSet
<1>2. PICK m : m = Noticed(c, s, list, like, differing, id)
  OBVIOUS
<1>3. s.sid \in Int /\ s.place \in Int /\ s.motion \in Int
  BY DEF Messages
<1>4. CASE like = {}
  <2>1. m = [state |-> "added", src |-> 0, sid |-> s.sid, id |-> id, place |-> s.place,
             motion |-> s.motion]
    BY <1>2, <1>4 DEF Noticed, Entry
  <2>2. m \in Findings
    BY <1>3, <2>1 DEF Findings
  <2>3. \A o \in ToSet(list) : o.sid # s.sid
    BY <1>1, <1>4
  <2>4. m.sid = s.sid /\ m.place = s.place /\ m.state = "added" /\ m.id = id
    BY <2>1
  <2> QED
    BY <1>2, <2>2, <2>3, <2>4 DEF Finds
<1>5. CASE like # {}
  <2>1. like \subseteq 1 .. Len(list)
    BY <1>1
  <2>2. PICK i : i = Min(like)
    OBVIOUS
  <2>3. i \in like
    BY <1>1, <1>5, <2>1, <2>2, MinIn
  <2>4. PICK o : o = list[i]
    OBVIOUS
  <2>5. o \in ToSet(list) /\ o.sid = s.sid /\ o \in Things /\ i \in DOMAIN list
    BY <1>1, <2>3, <2>4
  <2>6. PICK state : state = IF i \in differing THEN "updated" ELSE "same"
    OBVIOUS
  <2>7. m = [state |-> state, src |-> 0, sid |-> s.sid, id |-> o.id, place |-> s.place,
             motion |-> s.motion]
    BY <1>2, <1>5, <2>2, <2>4, <2>6 DEF Noticed, Entry
  <2>8. m \in Findings
    BY <1>3, <2>5, <2>6, <2>7 DEF Findings, Things
  <2>9. state = "updated" \/ (state = "same" /\ o.place = s.place)
    BY <2>4, <2>5, <2>6
  <2>10. m.sid = s.sid /\ m.place = s.place /\ m.state = state /\ m.id = o.id
    BY <2>7
  <2> QED
    BY <1>2, <2>5, <2>8, <2>9, <2>10 DEF Finds
<1> QED
  BY <1>4, <1>5

LEMMA SetMessageIs ==
  ASSUME NEW c, c.source_id = 0, NEW kind \in Kinds, c.held[kind].list \in Seq(Things),
         NEW s \in Messages
  PROVE  Finds(kind, ToSet(c.held[kind].list), s, SetMessage(c, kind, s))
<1>1. PICK list : list = c.held[kind].list
  OBVIOUS
<1>2. list \in Seq(Things)
  BY <1>1
<1>3. PICK like : like = {n \in DOMAIN list : list[n].sid = s.sid}
  OBVIOUS
<1>4. s.id \in Ids /\ -1 \in Ids
  BY DEF Messages, Ids
<1>5. CASE kind = "object"
  <2>1. PICK differing : differing = Moved(list, s)
    OBVIOUS
  <2>2. \A n \in DOMAIN list : list[n].place # s.place => n \in differing
    BY <2>1 DEF Moved
  <2>3. SetMessage(c, kind, s) = Noticed(c, s, list, like, differing, s.id)
    BY <1>1, <1>3, <1>5, <2>1 DEF SetMessage, ObjectSet
  <2>4. PICK id : id = s.id
    OBVIOUS
  <2>5. Finds(kind, ToSet(list), s, Noticed(c, s, list, like, differing, id))
    BY <1>2, <1>3, <1>4, <2>2, <2>4, NoticedIs
  <2> QED
    BY <1>1, <2>3, <2>4, <2>5
<1>6. CASE kind = "cursor"
  <2>1. PICK differing : differing = Moved(list, s)
    OBVIOUS
  <2>2. \A n \in DOMAIN list : list[n].place # s.place => n \in differing
    BY <2>1 DEF Moved
  <2>3. like = {n \in DOMAIN list : list[n].sid = s.sid /\ list[n].src = c.source_id}
    <3>1. \A n \in DOMAIN list : list[n] \in Things
      BY <1>2
    <3>2. \A n \in DOMAIN list : list[n].src = c.source_id
      BY <3>1 DEF Things
    <3> QED
      BY <1>3, <3>2
  <2>4. SetMessage(c, kind, s) = Noticed(c, s, list, like, differing, -1)
    BY <1>1, <1>6, <2>1, <2>3 DEF SetMessage, CursorSet
  <2>5. PICK id : id = -1
    OBVIOUS
  <2>6. Finds(kind, ToSet(list), s, Noticed(c, s, list, like, differing, id))
    BY <1>2, <1>3, <1>4, <1>6, <2>2, <2>5, NoticedIs
  <2> QED
    BY <1>1, <2>4, <2>5, <2>6
<1>7. CASE kind = "blob"
  <2>1. PICK differing : differing = {n \in DOMAIN list : list[n].place # s.place}
    OBVIOUS
  <2>2. \A n \in DOMAIN list : list[n].place # s.place => n \in differing
    BY <2>1
  <2>3. SetMessage(c, kind, s) = Noticed(c, s, list, like, differing, -1)
    BY <1>1, <1>3, <1>7, <2>1 DEF SetMessage, BlobSet
  <2>4. PICK id : id = -1
    OBVIOUS
  <2>5. Finds(kind, ToSet(list), s, Noticed(c, s, list, like, differing, id))
    BY <1>2, <1>3, <1>4, <1>7, <2>2, <2>4, NoticedIs
  <2> QED
    BY <1>1, <2>3, <2>4, <2>5
<1> QED
  BY <1>5, <1>6, <1>7 DEF Kinds

(* What the entries es say of the things L: sets and alive are the bundle. *)
Says(kind, L, sets, alive, es) ==
  /\ \A e \in ToSet(es) : e.state = "removed" => e.sid \notin alive
  /\ \A e \in ToSet(es) : e.state # "removed" =>
       \E s \in ToSet(sets) : /\ e.sid = s.sid /\ e.place = s.place
                              /\ e.state = "added" /\ kind = "object" => e.id = s.id
  /\ \A o \in L : o.sid \notin alive => \E e \in ToSet(es) : e.sid = o.sid
  /\ \A s \in ToSet(sets) : \/ \E e \in ToSet(es) : e.state # "removed" /\ e.sid = s.sid
                            \/ \E o \in L : o.sid = s.sid /\ o.place = s.place

LEMMA NotedIs ==
  ASSUME NEW c, c.source_id = 0, NEW kind \in Kinds, c.held[kind].list \in Seq(Things),
         NEW sets \in Seq(Messages), OnePerSid(sets)
  PROVE  LET es == Noted(c, kind, sets)
             L  == ToSet(c.held[kind].list)
         IN  /\ es \in Seq(Entries)
             /\ OnePerSid(es)
             /\ \A e \in ToSet(es) : \E s \in ToSet(sets) : Finds(kind, L, s, e) /\ e.state # "same"
             /\ \A s \in ToSet(sets) : \/ \E e \in ToSet(es) : Finds(kind, L, s, e) /\ e.state # "same"
                                       \/ \E o \in L : o.sid = s.sid /\ o.place = s.place
<1> DEFINE L == ToSet(c.held[kind].list)
           n == Len(sets)
<1>1. PICK all : all = [i \in DOMAIN sets |-> SetMessage(c, kind, sets[i])]
  OBVIOUS
<1>2. n \in Nat /\ DOMAIN sets = 1 .. n /\ \A i \in 1 .. n : sets[i] \in Messages
  OBVIOUS
<1>3. \A i \in 1 .. n : Finds(kind, L, sets[i], all[i])
  BY <1>1, <1>2, SetMessageIs
<1>4. \A i \in 1 .. n : all[i] \in Findings
  BY <1>3 DEF Finds
<1>5. all \in [1 .. n -> Findings]
  BY <1>1, <1>2, <1>4
<1>6. all \in Seq(Findings) /\ Len(all) = n
  BY <1>2, <1>5
<1>7. OnePerSid(all)
  <2>1. \A i, j \in 1 .. n : sets[i].sid = sets[j].sid => i = j
    BY DEF OnePerSid
  <2>2. \A i \in 1 .. n : all[i].sid = sets[i].sid
    BY <1>3 DEF Finds
  <2> QED
    BY <1>6, <2>1, <2>2 DEF OnePerSid
<1>8. PICK keep : keep = {e \in ToSet(all) : e.state # "same"}
  OBVIOUS
<1>9. PICK es : es = Chosen(all, keep)
  OBVIOUS
<1>10. es = Noted(c, kind, sets)
  BY <1>1, <1>8, <1>9 DEF Noted
<1>11. es \in Seq(Findings) /\ ToSet(es) = keep /\ OnePerSid(es)
  <2>1. Chosen(all, keep) \in Seq(Findings) /\ ToSet(Chosen(all, keep)) = ToSet(all) \cap keep
    BY <1>6, ChosenFacts
  <2>2. ToSet(all) \cap keep = keep
    BY <1>8
  <2>3. OnePerSid(Chosen(all, keep))
    BY <1>6, <1>7, OnePerSidChosen
  <2> QED
    BY <1>9, <2>1, <2>2, <2>3
<1>12. ToSet(all) = {all[i] : i \in 1 .. n} /\ ToSet(sets) = {sets[i] : i \in 1 .. n}
  BY <1>2, <1>6 DEF ToSet
<1> HIDE DEF L, n
<1>13. es \in Seq(Entries)
  <2>1. \A i \in 1 .. Len(es) : es[i] \in keep
    BY <1>11 DEF ToSet
  <2>2. \A e \in keep : e \in Findings /\ e.state # "same"
    BY <1>4, <1>8, <1>12
  <2>3. \A e \in Findings : e.state # "same" => e \in Entries
    BY DEF Findings, Entries
  <2> QED
    BY <1>11, <2>1, <2>2, <2>3
<1>14. \A e \in ToSet(es) : \E s \in ToSet(sets) : Finds(kind, L, s, e) /\ e.state # "same"
  BY <1>3, <1>8, <1>11, <1>12
<1>15. ASSUME NEW s \in ToSet(sets)
       PROVE  \/ \E e \in ToSet(es) : Finds(kind, L, s, e) /\ e.state # "same"
              \/ \E o \in L : o.sid = s.sid /\ o.place = s.place
  <2>1. PICK i \in 1 .. n : s = sets[i]
    BY <1>12
  <2>2. Finds(kind, L, s, all[i])
    BY <1>3, <2>1
  <2>3. CASE all[i].state # "same"
    BY <1>8, <1>11, <1>12, <2>2, <2>3
  <2>4. CASE all[i].state = "same"
    BY <2>2, <2>4 DEF Finds
  <2> QED
    BY <2>3, <2>4
<1> QED
  BY <1>10, <1>11, <1>13, <1>14, <1>15 DEF L

LEMMA GoneIs ==
  ASSUME NEW c, c.source_id = 0, NEW kind, c.held[kind].list \in Seq(Things),
         OnePerSid(c.held[kind].list), NEW alive
  PROVE  LET es == Gone(c, kind, alive)
             L  == ToSet(c.held[kind].list)
         IN  /\ es \in Seq(Entries)
             /\ OnePerSid(es)
             /\ \A e \in ToSet(es) : /\ e.state = "removed" /\ e.sid \notin alive
                                     /\ \E o \in L : o.sid = e.sid /\ o.id = e.id
             /\ \A o \in L : o.sid \notin alive => \E e \in ToSet(es) : e.sid = o.sid
<1>1. PICK list : list = c.held[kind].list
  OBVIOUS
<1>2. list \in Seq(Things) /\ OnePerSid(list)
  BY <1>1
<1>3. PICK keep : keep = {e \in ToSet(list) : e.src = c.source_id /\ e.sid \notin alive}
  OBVIOUS
<1>4. PICK gone : gone = Chosen(list, keep)
  OBVIOUS
<1>5. gone \in Seq(Things) /\ ToSet(gone) = ToSet(list) \cap keep /\ OnePerSid(gone)
  <2>1. Chosen(list, keep) \in Seq(Things) /\ ToSet(Chosen(list, keep)) = ToSet(list) \cap keep
    BY <1>2, ChosenFacts
  <2>2. OnePerSid(Chosen(list, keep))
    BY <1>2, OnePerSidChosen
  <2> QED
    BY <1>4, <2>1, <2>2
<1>6. PICK es : es = Gone(c, kind, alive)
  OBVIOUS
<1> DEFINE n == Len(gone)
<1>7. n \in Nat /\ DOMAIN gone = 1 .. n /\ \A i \in 1 .. n : gone[i] \in Things
  BY <1>5
<1>8. es = [i \in 1 .. n |-> [state |-> "removed", src |-> 0, sid |-> gone[i].sid, id |-> gone[i].id,
                              place |-> gone[i].place, motion |-> gone[i].motion]]
  BY <1>1, <1>3, <1>4, <1>6, <1>7 DEF Gone, Entry
<1>9. \A i \in 1 .. n : /\ es[i] \in Entries /\ es[i].state = "removed"
                        /\ es[i].sid = gone[i].sid /\ es[i].id = gone[i].id
  <2> SUFFICES ASSUME NEW i \in 1 .. n
               PROVE  /\ es[i] \in Entries /\ es[i].state = "removed"
                      /\ es[i].sid = gone[i].sid /\ es[i].id = gone[i].id
    OBVIOUS
  <2>1. PICK x : x = gone[i]
    OBVIOUS
  <2>2. x \in Things
    BY <1>7, <2>1
  <2>3. es[i] = [state |-> "removed", src |-> 0, sid |-> x.sid, id |-> x.id,
                 place |-> x.place, motion |-> x.motion]
    BY <1>8, <2>1
  <2> QED
    BY <2>1, <2>2, <2>3 DEF Things, Entries
<1>10. es \in [1 .. n -> Entries]
  BY <1>8, <1>9
<1>11. es \in Seq(Entries) /\ Len(es) = n
  BY <1>7, <1>10
<1>12. OnePerSid(es)
  BY <1>5, <1>9, <1>11 DEF OnePerSid
<1>13. ToSet(es) = {es[i] : i \in 1 .. n} /\ ToSet(gone) = {gone[i] : i \in 1 .. n}
  BY <1>7, <1>11 DEF ToSet
<1>14. \A o \in ToSet(gone) : o \in ToSet(list) /\ o.sid \notin alive
  BY <1>3, <1>5
<1>15. \A o \in ToSet(list) : o.sid \notin alive => o \in ToSet(gone)
  <2>1. \A o \in ToSet(list) : o \in Things
    BY <1>2 DEF ToSet
  <2>2. \A o \in ToSet(list) : o.src = 0
    BY <2>1 DEF Things
  <2> QED
    BY <1>3, <1>5, <2>2
<1> HIDE DEF n
<1>16. ASSUME NEW e \in ToSet(es)
       PROVE  /\ e.state = "removed" /\ e.sid \notin alive
              /\ \E o \in ToSet(list) : o.sid = e.sid /\ o.id = e.id
  <2>1. PICK i \in 1 .. n : e = es[i]
    BY <1>13
  <2>2. gone[i] \in ToSet(gone)
    BY <1>13
  <2> QED
    BY <1>9, <1>14, <2>1, <2>2
<1>17. ASSUME NEW o \in ToSet(list), o.sid \notin alive PROVE \E e \in ToSet(es) : e.sid = o.sid
  <2>1. PICK i \in 1 .. n : o = gone[i]
    BY <1>13, <1>15, <1>17
  <2> QED
    BY <1>9, <1>13, <2>1
<1> QED
  BY <1>1, <1>6, <1>11, <1>12, <1>16, <1>17

(* What a bundle with these sets and alive makes of the things L. *)
Outcome(kind, L, sets, alive, M) ==
  /\ \A o \in M : \/ o \in L /\ o.sid \in alive /\ \A s \in sets : s.sid # o.sid
                  \/ \E s \in sets : /\ s.sid = o.sid /\ s.place = o.place
                                     /\ \/ \E p \in L : p.sid = o.sid /\ p.id = o.id
                                        \/ kind = "object" => o.id = s.id
  /\ \A p \in L : p.sid \in alive => \E o \in M : o.sid = p.sid
  /\ \A s \in sets : \E o \in M : o.sid = s.sid

LEMMA EntriesSay ==
  ASSUME NEW c, c.source_id = 0, NEW kind \in Kinds, c.held[kind].list \in Seq(Things),
         OnePerSid(c.held[kind].list), NEW sets \in Seq(Messages), OnePerSid(sets),
         NEW alive, \A s \in ToSet(sets) : s.sid \in alive
  PROVE  LET es == Noted(c, kind, sets) \o Gone(c, kind, alive)
             L  == ToSet(c.held[kind].list)
         IN  EntriesOK(L, es) /\ Says(kind, L, sets, alive, es)
<1>1. PICK L : L = ToSet(c.held[kind].list)
  OBVIOUS
<1>2. PICK a, b : a = Noted(c, kind, sets) /\ b = Gone(c, kind, alive)
  OBVIOUS
<1>3. /\ a \in Seq(Entries) /\ OnePerSid(a)
      /\ \A e \in ToSet(a) : \E s \in ToSet(sets) : Finds(kind, L, s, e) /\ e.state # "same"
      /\ \A s \in ToSet(sets) : \/ \E e \in ToSet(a) : Finds(kind, L, s, e) /\ e.state # "same"
                                \/ \E o \in L : o.sid = s.sid /\ o.place = s.place
  BY <1>1, <1>2, NotedIs
<1>4. /\ b \in Seq(Entries) /\ OnePerSid(b)
      /\ \A e \in ToSet(b) : /\ e.state = "removed" /\ e.sid \notin alive
                             /\ \E o \in L : o.sid = e.sid /\ o.id = e.id
      /\ \A o \in L : o.sid \notin alive => \E e \in ToSet(b) : e.sid = o.sid
  BY <1>1, <1>2, GoneIs
<1>5. PICK es : es = a \o b
  OBVIOUS
<1>6. es \in Seq(Entries) /\ ToSet(es) = ToSet(a) \cup ToSet(b)
  BY <1>3, <1>4, <1>5, ConcatFacts
<1>7. \A e \in ToSet(a) : \E s \in ToSet(sets) : s.sid = e.sid
  BY <1>3 DEF Finds
<1>8. \A x \in ToSet(a), y \in ToSet(b) : x.sid # y.sid
  BY <1>4, <1>7
<1>9. OnePerSid(es)
  BY <1>3, <1>4, <1>5, <1>8, OnePerSidConcat
<1>10. ASSUME NEW e \in ToSet(es) PROVE Fits(L, e)
  <2>1. CASE e \in ToSet(a)
    <3>1. PICK s \in ToSet(sets) : Finds(kind, L, s, e) /\ e.state # "same"
      BY <1>3, <2>1
    <3> QED
      BY <3>1 DEF Finds, Fits
  <2>2. CASE e \in ToSet(b)
    BY <1>4, <2>2 DEF Fits
  <2> QED
    BY <1>6, <2>1, <2>2
<1>11. EntriesOK(L, es)
  <2>1. \A i \in 1 .. Len(es) : es[i] \in ToSet(es)
    BY <1>6 DEF ToSet
  <2> QED
    BY <1>6, <1>9, <1>10, <2>1 DEF EntriesOK
<1>12. Says(kind, L, sets, alive, es)
  <2>1. ASSUME NEW e \in ToSet(a)
        PROVE  /\ e.state # "removed"
               /\ \E s \in ToSet(sets) : /\ e.sid = s.sid /\ e.place = s.place
                                         /\ e.state = "added" /\ kind = "object" => e.id = s.id
    <3>1. PICK s \in ToSet(sets) : Finds(kind, L, s, e) /\ e.state # "same"
      BY <1>3, <2>1
    <3> QED
      BY <3>1 DEF Finds
  <2>2. \A e \in ToSet(es) : e.state = "removed" => e.sid \notin alive
    BY <1>4, <1>6, <2>1
  <2>3. \A e \in ToSet(es) : e.state # "removed" => e \in ToSet(a)
    BY <1>4, <1>6
  <2>4. \A o \in L : o.sid \notin alive => \E e \in ToSet(es) : e.sid = o.sid
    BY <1>4, <1>6
  <2>5. ASSUME NEW s \in ToSet(sets)
        PROVE  \/ \E e \in ToSet(es) : e.state # "removed" /\ e.sid = s.sid
               \/ \E o \in L : o.sid = s.sid /\ o.place = s.place
    <3>1. CASE \E e \in ToSet(a) : Finds(kind, L, s, e) /\ e.state # "same"
      BY <1>6, <2>1, <3>1 DEF Finds
    <3> QED
      BY <1>3, <3>1
  <2> QED
    BY <2>1, <2>2, <2>3, <2>4, <2>5 DEF Says
<1> QED
  BY <1>1, <1>2, <1>5, <1>11, <1>12

LEMMA SaidIsOutcome ==
  ASSUME NEW kind, NEW L, Apart(L), NEW sets \in Seq(Messages), NEW alive,
         \A s \in ToSet(sets) : s.sid \in alive,
         NEW es, EntriesOK(L, es), Says(kind, L, sets, alive, es),
         NEW M, Upto(kind, L, es, Len(es), M)
  PROVE  Outcome(kind, L, ToSet(sets), alive, M)
<1> DEFINE n == Len(es)
<1>1. n \in Nat /\ ToSet(es) = {es[i] : i \in 1 .. n}
  <2>1. es \in Seq(Entries)
    BY DEF EntriesOK
  <2> QED
    BY <2>1 DEF ToSet
<1>2. /\ \A o \in M : \/ o \in L /\ \A e \in ToSet(es) : e.sid # o.sid
                      \/ \E e \in ToSet(es) : Retold(kind, L, e, o)
      /\ \A o \in L : (\A e \in ToSet(es) : e.sid # o.sid) => o \in M
      /\ \A e \in ToSet(es) : e.state # "removed" => \E o \in M : o.sid = e.sid
  BY <1>1 DEF Upto
<1>3. \A e \in ToSet(es) : e.state \in {"removed", "added", "updated"}
  <2>1. es \in Seq(Entries)
    BY DEF EntriesOK
  <2>2. \A i \in 1 .. n : es[i] \in Entries
    BY <2>1
  <2> QED
    BY <1>1, <2>2 DEF Entries
<1> HIDE DEF n
<1>4. /\ \A e \in ToSet(es) : e.state = "removed" => e.sid \notin alive
      /\ \A e \in ToSet(es) : e.state # "removed" =>
           \E s \in ToSet(sets) : /\ e.sid = s.sid /\ e.place = s.place
                                  /\ e.state = "added" /\ kind = "object" => e.id = s.id
      /\ \A o \in L : o.sid \notin alive => \E e \in ToSet(es) : e.sid = o.sid
      /\ \A s \in ToSet(sets) : \/ \E e \in ToSet(es) : e.state # "removed" /\ e.sid = s.sid
                                \/ \E o \in L : o.sid = s.sid /\ o.place = s.place
  BY DEF Says
<1>5. ASSUME NEW o \in M
      PROVE  \/ o \in L /\ o.sid \in alive /\ \A s \in ToSet(sets) : s.sid # o.sid
             \/ \E s \in ToSet(sets) : /\ s.sid = o.sid /\ s.place = o.place
                                       /\ \/ \E p \in L : p.sid = o.sid /\ p.id = o.id
                                          \/ kind = "object" => o.id = s.id
  <2>1. CASE o \in L /\ \A e \in ToSet(es) : e.sid # o.sid
    <3>1. o.sid \in alive
      BY <1>4, <2>1
    <3>2. ASSUME NEW s \in ToSet(sets), s.sid = o.sid PROVE s.place = o.place
      <4>1. PICK p \in L : p.sid = s.sid /\ p.place = s.place
        BY <1>4, <2>1, <3>2
      <4> QED
        BY <2>1, <3>2, <4>1 DEF Apart
    <3> QED
      BY <2>1, <3>1, <3>2
  <2>2. CASE \E e \in ToSet(es) : Retold(kind, L, e, o)
    <3>1. PICK e \in ToSet(es) : Retold(kind, L, e, o)
      BY <2>2
    <3>2. e.state # "removed" /\ o.sid = e.sid /\ o.place = e.place
      BY <3>1 DEF Retold
    <3>3. PICK s \in ToSet(sets) : /\ e.sid = s.sid /\ e.place = s.place
                                   /\ e.state = "added" /\ kind = "object" => e.id = s.id
      BY <1>4, <3>2
    <3>4. CASE e.state = "updated"
      <4>1. \E p \in L : p.sid = e.sid /\ p.id = o.id
        BY <3>1, <3>4 DEF Retold
      <4> QED
        BY <3>2, <3>3, <4>1
    <3>5. CASE e.state = "added"
      <4>1. kind = "object" => o.id = s.id
        BY <3>1, <3>3, <3>5 DEF Retold
      <4> QED
        BY <3>2, <3>3, <4>1
    <3> QED
      BY <1>3, <3>2, <3>4, <3>5
  <2> QED
    BY <1>2, <2>1, <2>2
<1>6. ASSUME NEW p \in L, p.sid \in alive PROVE \E o \in M : o.sid = p.sid
  <2>1. CASE \E e \in ToSet(es) : e.sid = p.sid
    BY <1>2, <1>4, <1>6, <2>1
  <2>2. CASE \A e \in ToSet(es) : e.sid # p.sid
    BY <1>2, <2>2
  <2> QED
    BY <2>1, <2>2
<1>7. ASSUME NEW s \in ToSet(sets) PROVE \E o \in M : o.sid = s.sid
  <2>1. CASE \E e \in ToSet(es) : e.state # "removed" /\ e.sid = s.sid
    BY <1>2, <2>1
  <2>2. CASE \E o \in L : o.sid = s.sid /\ o.place = s.place
    <3>1. s.sid \in alive
      OBVIOUS
    <3> QED
      BY <1>6, <2>2, <3>1
  <2> QED
    BY <1>4, <2>1, <2>2
<1> QED
  BY <1>5, <1>6, <1>7 DEF Outcome

-----------------------------------------------------------------------------
(* What a bundle makes of the client of one server s. *)

Clients(s) == [sourceList : {<<>>, <<s>>}, source_id : {0}, currentFrame : Int,
               held : [Kinds -> Shelves]]

Shelved(held) == \A kind \in Kinds : ShelfOK(kind, held[kind])

ClientOK(s, c) ==
  /\ c \in Clients(s)
  /\ Shelved(c.held)
  /\ c.sourceList = <<>> => \A kind \in Kinds : ToSet(c.held[kind].list) = {}

PacketOK(s, p) ==
  /\ p.source = s
  /\ p.kind \in Kinds
  /\ p.fseq \in Int
  /\ p.sets \in Seq(Messages)
  /\ OnePerSid(p.sets)
  /\ \A m \in ToSet(p.sets) : m.sid \in p.alive

ShownOf(c, kind) == ToSet(c.held[kind].list)

LEMMA KnownIs ==
  ASSUME NEW s, NEW c
  PROVE  /\ c.sourceList = <<>> => ~ Known(c, s)
         /\ c.sourceList = <<s>> => Known(c, s) /\ NumberOf(c, s) = 0
<1>1. ASSUME c.sourceList = <<>> PROVE ~ Known(c, s)
  BY <1>1 DEF Known, Contains
<1>2. ASSUME c.sourceList = <<s>> PROVE Known(c, s) /\ NumberOf(c, s) = 0
  <2>1. PICK list : list = <<s>>
    OBVIOUS
  <2>2. DOMAIN list = {1} /\ list[1] = s /\ Len(list) = 1
    BY <2>1
  <2>3. (CHOOSE n \in DOMAIN list : list[n] = s) = 1
    BY <2>2
  <2>4. c.sourceList = list
    BY <1>2, <2>1
  <2> QED
    BY <2>2, <2>3, <2>4 DEF Known, NumberOf, Contains
<1> QED
  BY <1>1, <1>2

LEMMA ClientIs ==
  ASSUME NEW s, NEW c, ClientOK(s, c)
  PROVE  /\ c = [sourceList |-> c.sourceList, source_id |-> 0, currentFrame |-> c.currentFrame,
                 held |-> c.held]
         /\ c.sourceList \in {<<>>, <<s>>} /\ c.source_id = 0 /\ c.currentFrame \in Int
         /\ c.held \in [Kinds -> Shelves] /\ Shelved(c.held)
         /\ \A kind \in Kinds : /\ c.held[kind].list \in Seq(Things)
                                /\ OnePerSid(c.held[kind].list)
                                /\ ShelfOK(kind, c.held[kind])
<1>1. c \in Clients(s) /\ Shelved(c.held)
  BY DEF ClientOK
<1>2. /\ c = [sourceList |-> c.sourceList, source_id |-> c.source_id,
              currentFrame |-> c.currentFrame, held |-> c.held]
      /\ c.sourceList \in {<<>>, <<s>>} /\ c.source_id = 0 /\ c.currentFrame \in Int
      /\ c.held \in [Kinds -> Shelves]
  BY <1>1 DEF Clients
<1>3. \A kind \in Kinds : ShelfOK(kind, c.held[kind])
  BY <1>1 DEF Shelved
<1>4. \A kind \in Kinds : c.held[kind].list \in Seq(Things) /\ OnePerSid(c.held[kind].list)
  BY <1>3, ShelfHas DEF ShelfOK
<1> QED
  BY <1>1, <1>2, <1>3, <1>4

LEMMA EmptyShelf ==
  ASSUME NEW kind \in Kinds, NEW h, ShelfOK(kind, h), NEW max \in [{0} -> Int],
         NEW g, g = [list |-> <<>>, free |-> <<>>, max |-> max]
  PROVE  ShelfOK(kind, g) /\ ToSet(g.list) = {}
<1>1. g.list = <<>> /\ g.free = <<>> /\ g.max = max
  OBVIOUS
<1>2. ToSet(<<>>) = {} /\ Distinct(<<>>) /\ OnePerSid(<<>>)
  BY DEF ToSet, Distinct, OnePerSid
<1>3. g \in Shelves
  BY DEF Shelves
<1>4. PoolOK({}, {}, max[0])
  BY DEF PoolOK
<1> QED
  BY <1>1, <1>2, <1>3, <1>4 DEF ShelfOK, Numbered

LEMMA NothingListed ==
  ASSUME NEW S, NEW s \in Seq(S), ToSet(s) = {}
  PROVE  s = <<>>
<1>1. Len(s) \in Nat /\ ToSet(s) = {s[i] : i \in 1 .. Len(s)}
  BY DEF ToSet
<1>2. Len(s) = 0
  <2>1. 1 \notin 1 .. Len(s)
    BY <1>1
  <2> QED
    BY <1>1, <2>1
<1> QED
  BY <1>2

(* The source message, for the bundle of either kind. *)
Sourced(c, kind, s) == IF kind = "object" THEN ObjectSource(c, s) ELSE NumberedSource(c, kind, s)

LEMMA SourcedIs ==
  ASSUME NEW s, NEW c, ClientOK(s, c), NEW kind \in Kinds
  PROVE  LET d == Sourced(c, kind, s)
         IN  /\ ClientOK(s, d)
             /\ d.sourceList = <<s>> /\ d.currentFrame = c.currentFrame
             /\ \A k \in Kinds : ShownOf(d, k) = ShownOf(c, k)
<1>1. /\ c = [sourceList |-> c.sourceList, source_id |-> 0, currentFrame |-> c.currentFrame,
              held |-> c.held]
      /\ c.sourceList \in {<<>>, <<s>>} /\ c.source_id = 0 /\ c.currentFrame \in Int
      /\ c.held \in [Kinds -> Shelves] /\ Shelved(c.held)
      /\ \A k \in Kinds : ShelfOK(k, c.held[k])
  BY ClientIs
<1>2. PICK d : d = Sourced(c, kind, s)
  OBVIOUS
<1>3. <<>> # <<s>> /\ Append(<<>>, s) = <<s>> /\ Len(<<>>) = 0
  OBVIOUS
<1>4. CASE c.sourceList = <<s>>
  <2>1. Known(c, s) /\ NumberOf(c, s) = 0
    BY <1>4, KnownIs
  <2>2. ObjectSource(c, s) = [c EXCEPT !.source_id = 0]
    BY <2>1 DEF ObjectSource
  <2>3. d = ObjectSource(c, s)
    BY <1>2, <2>1 DEF Sourced, NumberedSource
  <2>4. d = c
    BY <1>1, <2>2, <2>3
  <2> QED
    BY <1>2, <1>4, <2>4
<1>5. CASE c.sourceList = <<>>
  <2>1. ~ Known(c, s)
    BY <1>5, KnownIs
  <2>2. PICK o : o = ObjectSource(c, s)
    OBVIOUS
  <2>3. o = [sourceList |-> <<s>>, source_id |-> 0, currentFrame |-> c.currentFrame,
             held |-> c.held]
    BY <1>1, <1>3, <1>5, <2>1, <2>2 DEF ObjectSource
  <2>4. PICK held : held = IF kind = "object" THEN c.held
                           ELSE [c.held EXCEPT ![kind] = Counted(c.held[kind], 0)]
    OBVIOUS
  <2>5. d = [sourceList |-> <<s>>, source_id |-> 0, currentFrame |-> c.currentFrame,
             held |-> held]
    <3>1. CASE kind = "object"
      BY <1>2, <2>2, <2>3, <2>4, <3>1 DEF Sourced
    <3>2. CASE kind # "object"
      <4>1. o.source_id = 0
        BY <2>3
      <4>2. d = [o EXCEPT !.held = [c.held EXCEPT ![kind] = Counted(c.held[kind], o.source_id)]]
        BY <1>2, <2>1, <2>2, <3>2 DEF Sourced, NumberedSource
      <4>3. d = [o EXCEPT !.held = held]
        BY <2>4, <3>2, <4>1, <4>2
      <4> QED
        BY <2>3, <4>3
    <3> QED
      BY <3>1, <3>2
  <2>6. \A k \in Kinds : ShownOf(c, k) = {}
    BY <1>5 DEF ClientOK, ShownOf
  <2>7. PICK g : g = Counted(c.held[kind], 0)
    OBVIOUS
  <2>8. kind # "object" => ShelfOK(kind, g) /\ ToSet(g.list) = {}
    <3> SUFFICES ASSUME kind # "object" PROVE ShelfOK(kind, g) /\ ToSet(g.list) = {}
      OBVIOUS
    <3>1. PICK h : h = c.held[kind]
      OBVIOUS
    <3>2. ShelfOK(kind, h) /\ h \in Shelves /\ ToSet(h.list) = {}
      BY <1>1, <2>6, <3>1 DEF ShownOf, ShelfOK
    <3>3. ToSet(h.free) = {}
      BY <3>2 DEF ShelfOK, Numbered, PoolOK
    <3>4. h.list \in Seq(Things) /\ h.free \in Seq(Frees) /\ h.max \in [{0} -> Int]
      BY <3>2, ShelfHas
    <3>5. h.list = <<>> /\ h.free = <<>>
      BY <3>2, <3>3, <3>4, NothingListed
    <3>6. PICK max : max = Given(h.max, 0, -1)
      OBVIOUS
    <3>7. max \in [{0} -> Int]
      BY <3>4, <3>6, MaxIs
    <3>8. g = [list |-> <<>>, free |-> <<>>, max |-> max]
      BY <2>7, <3>1, <3>5, <3>6 DEF Counted
    <3> QED
      BY <3>2, <3>7, <3>8, EmptyShelf
  <2>9. /\ held \in [Kinds -> Shelves]
        /\ \A k \in Kinds : ShelfOK(k, held[k]) /\ ToSet(held[k].list) = {}
    <3>1. CASE kind = "object"
      BY <1>1, <2>4, <2>6, <3>1 DEF ShownOf
    <3>2. CASE kind # "object"
      <4>1. g \in Shelves /\ held = [c.held EXCEPT ![kind] = g]
        BY <2>4, <2>7, <2>8, <3>2 DEF ShelfOK
      <4>2. held \in [Kinds -> Shelves]
        BY <1>1, <4>1
      <4>3. \A k \in Kinds : held[k] = IF k = kind THEN g ELSE c.held[k]
        BY <1>1, <4>1
      <4> QED
        BY <1>1, <2>6, <2>8, <3>2, <4>2, <4>3 DEF ShownOf
    <3> QED
      BY <3>1, <3>2
  <2>10. d \in Clients(s) /\ d.held = held
    BY <1>1, <2>5, <2>9 DEF Clients
  <2>11. ClientOK(s, d)
    BY <2>9, <2>10 DEF ClientOK, Shelved
  <2>12. \A k \in Kinds : ShownOf(d, k) = ShownOf(c, k)
    BY <2>6, <2>9, <2>10 DEF ShownOf
  <2> QED
    BY <1>2, <2>5, <2>11, <2>12
<1> QED
  BY <1>1, <1>4, <1>5

(* fseq *)
LEMMA CommittedIs ==
  ASSUME NEW s, NEW c, ClientOK(s, c), c.sourceList = <<s>>, NEW p, PacketOK(s, p),
         NEW d \in Committed(c, p.kind, p)
  PROVE  /\ ClientOK(s, d)
         /\ d.sourceList = <<s>>
         /\ \A k \in Kinds \ {p.kind} : ShownOf(d, k) = ShownOf(c, k)
         /\ Late(c, p.fseq) => d = c
         /\ ~ Late(c, p.fseq) =>
              /\ d.currentFrame = Arrived(c, p.fseq)
              /\ Outcome(p.kind, ShownOf(c, p.kind), ToSet(p.sets), p.alive, ShownOf(d, p.kind))
<1>1. CASE Late(c, p.fseq)
  <2>1. d = c
    BY <1>1 DEF Committed
  <2> QED
    BY <1>1, <2>1
<1>2. CASE ~ Late(c, p.fseq)
  <2>1. PICK kind, sets, alive : kind = p.kind /\ sets = p.sets /\ alive = p.alive
    OBVIOUS
  <2>2. /\ kind \in Kinds /\ p.fseq \in Int /\ sets \in Seq(Messages) /\ OnePerSid(sets)
        /\ \A m \in ToSet(sets) : m.sid \in alive
    BY <2>1 DEF PacketOK
  <2>3. /\ c.source_id = 0 /\ c.currentFrame \in Int /\ c.held \in [Kinds -> Shelves]
        /\ \A k \in Kinds : /\ c.held[k].list \in Seq(Things)
                            /\ OnePerSid(c.held[k].list)
                            /\ ShelfOK(k, c.held[k])
    BY ClientIs
  <2>4. PICK es : es = Noted(c, kind, sets) \o Gone(c, kind, alive)
    OBVIOUS
  <2>5. PICK g \in AllApplied(kind, c.held[kind], es) :
             d = [sourceList |-> c.sourceList, source_id |-> c.source_id,
                  currentFrame |-> Arrived(c, p.fseq), held |-> [c.held EXCEPT ![kind] = g]]
    BY <1>2, <2>1, <2>4 DEF Committed
  <2>6. PICK h, L : h = c.held[kind] /\ L = ToSet(h.list)
    OBVIOUS
  <2>7. EntriesOK(L, es) /\ Says(kind, L, sets, alive, es)
    BY <2>2, <2>3, <2>4, <2>6, EntriesSay
  <2>8. ShelfOK(kind, h)
    BY <2>2, <2>3, <2>6
  <2>9. ShelfOK(kind, g) /\ Upto(kind, L, es, Len(es), ToSet(g.list))
    BY <2>2, <2>5, <2>6, <2>7, <2>8, AllAppliedIs
  <2>10. Apart(L)
    BY <2>2, <2>3, <2>6, OnePerSidIs
  <2>11. PICK M : M = ToSet(g.list)
    OBVIOUS
  <2>12. Outcome(kind, L, ToSet(sets), alive, M)
    BY <2>2, <2>7, <2>9, <2>10, <2>11, SaidIsOutcome
  <2>13. PICK held : held = [c.held EXCEPT ![kind] = g]
    OBVIOUS
  <2>14. /\ held \in [Kinds -> Shelves]
         /\ \A k \in Kinds : held[k] = IF k = kind THEN g ELSE c.held[k]
    BY <2>2, <2>3, <2>9, <2>13 DEF ShelfOK
  <2>15. Arrived(c, p.fseq) \in Int
    BY <2>2, <2>3 DEF Arrived
  <2>16. d = [sourceList |-> <<s>>, source_id |-> 0, currentFrame |-> Arrived(c, p.fseq),
              held |-> held]
    BY <2>3, <2>5, <2>13
  <2>17. d \in Clients(s) /\ d.sourceList = <<s>> /\ d.held = held
    BY <2>14, <2>15, <2>16 DEF Clients
  <2>18. \A k \in Kinds : ShelfOK(k, held[k])
    BY <2>3, <2>9, <2>14
  <2>19. <<s>> # <<>>
    OBVIOUS
  <2>20. ClientOK(s, d)
    BY <2>17, <2>18, <2>19 DEF ClientOK, Shelved
  <2>21. \A k \in Kinds \ {kind} : ShownOf(d, k) = ShownOf(c, k)
    BY <2>14, <2>17 DEF ShownOf
  <2>22. ShownOf(d, kind) = M /\ ShownOf(c, kind) = L
    BY <2>2, <2>6, <2>11, <2>14, <2>17 DEF ShownOf
  <2> QED
    BY <1>2, <2>1, <2>12, <2>16, <2>17, <2>20, <2>21, <2>22
<1> QED
  BY <1>1, <1>2

LEMMA ProcessIs ==
  ASSUME NEW s, NEW c, ClientOK(s, c), NEW p, PacketOK(s, p), NEW d \in ProcessOSC(c, p)
  PROVE  /\ ClientOK(s, d)
         /\ d.sourceList = <<s>>
         /\ \A k \in Kinds \ {p.kind} : ShownOf(d, k) = ShownOf(c, k)
         /\ Late(c, p.fseq) => /\ d.currentFrame = c.currentFrame
                               /\ \A k \in Kinds : ShownOf(d, k) = ShownOf(c, k)
         /\ ~ Late(c, p.fseq) =>
              /\ d.currentFrame = Arrived(c, p.fseq)
              /\ Outcome(p.kind, ShownOf(c, p.kind), ToSet(p.sets), p.alive, ShownOf(d, p.kind))
<1>1. p.kind \in Kinds /\ p.source = s
  BY DEF PacketOK
<1>2. PICK e : e = Sourced(c, p.kind, s)
  OBVIOUS
<1>3. /\ ClientOK(s, e)
      /\ e.sourceList = <<s>> /\ e.currentFrame = c.currentFrame
      /\ \A k \in Kinds : ShownOf(e, k) = ShownOf(c, k)
  BY <1>1, <1>2, SourcedIs
<1>4. d \in Committed(e, p.kind, p)
  <2>1. CASE p.kind = "object"
    BY <1>1, <1>2, <2>1 DEF ProcessOSC, ObjectBundle, Sourced
  <2>2. CASE p.kind = "cursor"
    BY <1>1, <1>2, <2>2 DEF ProcessOSC, CursorBundle, CursorSource, Sourced
  <2>3. CASE p.kind = "blob"
    BY <1>1, <1>2, <2>3 DEF ProcessOSC, BlobBundle, BlobSource, Sourced
  <2> QED
    BY <1>1, <2>1, <2>2, <2>3 DEF Kinds
<1>5. /\ ClientOK(s, d)
      /\ d.sourceList = <<s>>
      /\ \A k \in Kinds \ {p.kind} : ShownOf(d, k) = ShownOf(e, k)
      /\ Late(e, p.fseq) => d = e
      /\ ~ Late(e, p.fseq) =>
           /\ d.currentFrame = Arrived(e, p.fseq)
           /\ Outcome(p.kind, ShownOf(e, p.kind), ToSet(p.sets), p.alive, ShownOf(d, p.kind))
  BY <1>3, <1>4, CommittedIs
<1>6. (Late(e, p.fseq) <=> Late(c, p.fseq)) /\ Arrived(e, p.fseq) = Arrived(c, p.fseq)
  BY <1>3 DEF Late, Arrived
<1> QED
  BY <1>1, <1>3, <1>5, <1>6

-----------------------------------------------------------------------------
(* What is seen of the things of a kind: objects have a symbol.            *)

Seen(kind, o) == [sid |-> o.sid, place |-> o.place, id |-> IF kind = "object" THEN o.id ELSE -1]
SeenAll(kind, S) == {Seen(kind, o) : o \in S}

Sights == [sid : Int, place : Int, id : Ids]

(* What a bundle makes of what is seen, if the symbols agree. *)
Merged(V, kind, sets, alive) ==
  {v \in V : v.sid \in alive /\ \A m \in sets : m.sid # v.sid} \cup SeenAll(kind, sets)

Agrees(V, kind, sets) == \A v \in V, m \in sets : v.sid = m.sid => v.id = Seen(kind, m).id

LEMMA SeenIs ==
  ASSUME NEW kind, NEW o
  PROVE  /\ Seen(kind, o).sid = o.sid /\ Seen(kind, o).place = o.place
         /\ Seen(kind, o).id = IF kind = "object" THEN o.id ELSE -1
  BY DEF Seen

LEMMA SeenSame ==
  ASSUME NEW kind, NEW o, NEW p, o.sid = p.sid, o.place = p.place, kind = "object" => o.id = p.id
  PROVE  Seen(kind, o) = Seen(kind, p)
  BY DEF Seen

LEMMA OutcomeIsMerged ==
  ASSUME NEW kind, NEW L, Apart(L), NEW sets, Apart(sets), NEW alive,
         NEW M, Outcome(kind, L, sets, alive, M), Agrees(SeenAll(kind, L), kind, sets)
  PROVE  SeenAll(kind, M) = Merged(SeenAll(kind, L), kind, sets, alive)
<1> DEFINE V == SeenAll(kind, L)
<1>1. /\ \A o \in M : \/ o \in L /\ o.sid \in alive /\ \A s \in sets : s.sid # o.sid
                      \/ \E s \in sets : /\ s.sid = o.sid /\ s.place = o.place
                                         /\ \/ \E p \in L : p.sid = o.sid /\ p.id = o.id
                                            \/ kind = "object" => o.id = s.id
      /\ \A p \in L : p.sid \in alive => \E o \in M : o.sid = p.sid
      /\ \A s \in sets : \E o \in M : o.sid = s.sid
  BY DEF Outcome
<1>2. ASSUME NEW o \in M, NEW s \in sets, s.sid = o.sid PROVE Seen(kind, o) = Seen(kind, s)
  <2>1. s.place = o.place /\ (\/ \E p \in L : p.sid = o.sid /\ p.id = o.id
                              \/ kind = "object" => o.id = s.id)
    BY <1>1, <1>2 DEF Apart
  <2>2. kind = "object" => o.id = s.id
    <3> SUFFICES ASSUME kind = "object", NEW p \in L, p.sid = o.sid, p.id = o.id
                 PROVE  o.id = s.id
      BY <2>1
    <3>1. Seen(kind, p) \in V /\ Seen(kind, p).sid = s.sid /\ Seen(kind, p).id = p.id
      BY <1>2, SeenIs DEF SeenAll
    <3>2. Seen(kind, s).id = s.id
      BY SeenIs
    <3> QED
      BY <3>1, <3>2 DEF Agrees
  <2> QED
    BY <1>2, <2>1, <2>2, SeenSame
<1>3. ASSUME NEW o \in M PROVE Seen(kind, o) \in Merged(V, kind, sets, alive)
  <2>1. CASE \E s \in sets : s.sid = o.sid
    BY <1>2, <2>1 DEF Merged, SeenAll
  <2>2. CASE \A s \in sets : s.sid # o.sid
    <3>1. o \in L /\ o.sid \in alive
      BY <1>1, <2>2
    <3>2. Seen(kind, o) \in V /\ Seen(kind, o).sid = o.sid
      BY <3>1, SeenIs DEF SeenAll
    <3> HIDE DEF V
    <3> QED
      BY <2>2, <3>1, <3>2 DEF Merged
  <2> QED
    BY <2>1, <2>2
<1>4. ASSUME NEW v \in Merged(V, kind, sets, alive) PROVE v \in SeenAll(kind, M)
  <2>1. CASE v \in SeenAll(kind, sets)
    <3>1. PICK s \in sets : v = Seen(kind, s)
      BY <2>1 DEF SeenAll
    <3>2. PICK o \in M : o.sid = s.sid
      BY <1>1
    <3>3. v = Seen(kind, o)
      BY <1>2, <3>1, <3>2
    <3> QED
      BY <3>3 DEF SeenAll
  <2>2. CASE v \in V /\ v.sid \in alive /\ \A s \in sets : s.sid # v.sid
    <3>1. PICK p \in L : v = Seen(kind, p)
      BY <2>2 DEF SeenAll
    <3>2. v.sid = p.sid
      BY <3>1, SeenIs
    <3>3. PICK o \in M : o.sid = p.sid
      BY <1>1, <2>2, <3>2
    <3>4. o \in L
      BY <1>1, <2>2, <3>2, <3>3
    <3>5. o = p
      BY <3>3, <3>4 DEF Apart
    <3> QED
      BY <3>1, <3>5 DEF SeenAll
  <2> QED
    BY <1>4, <2>1, <2>2 DEF Merged
<1>5. \A v \in SeenAll(kind, M) : v \in Merged(V, kind, sets, alive)
  BY <1>3 DEF SeenAll
<1> HIDE DEF V
<1>6. SeenAll(kind, M) = Merged(V, kind, sets, alive)
  BY <1>4, <1>5
<1> QED
  BY <1>6 DEF V

(* Two parts of a bundle say what one with the sets of both would. *)
LEMMA MergedTwice ==
  ASSUME NEW V, NEW kind, NEW T, Apart(T), NEW P \in SUBSET T, NEW Q \in SUBSET T, NEW alive,
         \A o \in T : o.sid \in alive, Agrees(V, kind, T)
  PROVE  /\ Merged(Merged(V, kind, P, alive), kind, Q, alive) = Merged(V, kind, P \cup Q, alive)
         /\ Agrees(Merged(V, kind, P, alive), kind, Q)
<1> DEFINE W == Merged(V, kind, P, alive)
<1>1. \A x : x \in W <=> \/ x \in V /\ x.sid \in alive /\ \A m \in P : m.sid # x.sid
                         \/ \E m \in P : x = Seen(kind, m)
  BY DEF Merged, SeenAll
<1>2. \A x : x \in Merged(V, kind, P \cup Q, alive) <=>
                \/ x \in V /\ x.sid \in alive /\ \A m \in P \cup Q : m.sid # x.sid
                \/ \E m \in P \cup Q : x = Seen(kind, m)
  BY DEF Merged, SeenAll
<1> HIDE DEF W
<1>3. \A x : x \in Merged(W, kind, Q, alive) <=>
                \/ x \in W /\ x.sid \in alive /\ \A m \in Q : m.sid # x.sid
                \/ \E m \in Q : x = Seen(kind, m)
  BY DEF Merged, SeenAll
<1>4. \A m \in T : Seen(kind, m).sid = m.sid /\ m.sid \in alive
  BY SeenIs
<1>5. \A m \in P, k \in Q : m.sid = k.sid => m = k
  BY DEF Apart
<1>6. ASSUME NEW x PROVE x \in Merged(W, kind, Q, alive) <=> x \in Merged(V, kind, P \cup Q, alive)
  <2>1. ASSUME x \in Merged(W, kind, Q, alive) PROVE x \in Merged(V, kind, P \cup Q, alive)
    BY <1>1, <1>2, <1>3, <2>1
  <2>2. ASSUME x \in Merged(V, kind, P \cup Q, alive) PROVE x \in Merged(W, kind, Q, alive)
    <3>1. CASE x \in V /\ x.sid \in alive /\ \A m \in P \cup Q : m.sid # x.sid
      BY <1>1, <1>3, <3>1
    <3>2. CASE \E m \in Q : x = Seen(kind, m)
      BY <1>3, <3>2
    <3>3. CASE \E m \in P : x = Seen(kind, m)
      <4>1. PICK m \in P : x = Seen(kind, m)
        BY <3>3
      <4>2. CASE \E k \in Q : k.sid = m.sid
        BY <1>3, <1>5, <4>1, <4>2
      <4>3. CASE \A k \in Q : k.sid # m.sid
        <5>1. x \in W /\ x.sid = m.sid /\ x.sid \in alive
          BY <1>1, <1>4, <4>1
        <5> QED
          BY <1>3, <4>3, <5>1
      <4> QED
        BY <4>2, <4>3
    <3> QED
      BY <1>2, <2>2, <3>1, <3>2, <3>3
  <2> QED
    BY <2>1, <2>2
<1>7. Agrees(W, kind, Q)
  <2> SUFFICES ASSUME NEW x \in W, NEW m \in Q, x.sid = m.sid PROVE x.id = Seen(kind, m).id
    BY DEF Agrees
  <2>1. CASE x \in V
    BY <2>1 DEF Agrees
  <2>2. CASE \E k \in P : x = Seen(kind, k)
    BY <1>4, <1>5, <2>2
  <2> QED
    BY <1>1, <2>1, <2>2
<1> QED
  BY <1>6, <1>7 DEF W

(* With all sets it is the table that is seen. *)
LEMMA MergedAll ==
  ASSUME NEW V, NEW kind, NEW T, Apart(T), NEW sets \in SUBSET T,
         NEW alive, alive = {o.sid : o \in T},
         \A v \in V, o \in T : v.sid = o.sid /\ o \notin sets => v = Seen(kind, o),
         \A o \in T : o \notin sets => Seen(kind, o) \in V
  PROVE  Merged(V, kind, sets, alive) = SeenAll(kind, T)
<1>1. \A x : x \in Merged(V, kind, sets, alive) <=>
                \/ x \in V /\ x.sid \in alive /\ \A m \in sets : m.sid # x.sid
                \/ \E m \in sets : x = Seen(kind, m)
  BY DEF Merged, SeenAll
<1>2. \A x : x \in SeenAll(kind, T) <=> \E o \in T : x = Seen(kind, o)
  BY DEF SeenAll
<1>3. ASSUME NEW x, x \in V, x.sid \in alive, \A m \in sets : m.sid # x.sid
      PROVE  x \in SeenAll(kind, T)
  <2>1. PICK o \in T : o.sid = x.sid
    BY <1>3
  <2> QED
    BY <1>2, <1>3, <2>1
<1>4. ASSUME NEW o \in T PROVE Seen(kind, o) \in Merged(V, kind, sets, alive)
  <2>1. CASE o \in sets
    BY <1>1, <2>1
  <2>2. CASE o \notin sets
    <3>1. \A m \in sets : m.sid # o.sid
      BY <2>2 DEF Apart
    <3>2. Seen(kind, o) \in V /\ Seen(kind, o).sid = o.sid /\ o.sid \in alive
      BY <2>2, SeenIs
    <3> QED
      BY <1>1, <3>1, <3>2
  <2> QED
    BY <2>1, <2>2
<1> QED
  BY <1>1, <1>2, <1>3, <1>4

-----------------------------------------------------------------------------
(* The parts of a bundle. *)

LEMMA DivisionIs ==
  ASSUME NEW a \in Nat, NEW c \in Nat \ {0}
  PROVE  a \div c \in Nat /\ c * (a \div c) <= a /\ a < c * (a \div c) + c
<1>1. PICK q \in Int : q = a \div c
  OBVIOUS
<1>2. c * q <= a /\ a < c * q + c
  BY <1>1
<1>3. q >= 0
  BY <1>2
<1> QED
  BY <1>1, <1>2, <1>3

(* The part n of bundle has the sets after cut[n - 1], up to cut[n].       *)
IsCut(size, c, count, cut) ==
  /\ cut \in [0 .. count -> 0 .. size]
  /\ cut[0] = 0 /\ cut[count] = size
  /\ \A n \in 1 .. count : /\ n - 1 \in 0 .. count
                           /\ (n - 1) * c = cut[n - 1]
                           /\ Min({n * c, size}) = cut[n]
                           /\ cut[n - 1] <= cut[n]

LEMMA CutExists ==
  ASSUME NEW size \in Nat, NEW c \in Nat \ {0},
         NEW count, count = IF size = 0 THEN 1 ELSE (size + c - 1) \div c
  PROVE  count \in Nat /\ count >= 1 /\ \E cut : IsCut(size, c, count, cut)
<1>1. /\ count \in Nat /\ count >= 1 /\ c * count >= size
      /\ size # 0 => c * count - c < size
      /\ size = 0 => count = 1
  <2>1. CASE size = 0
    BY <2>1
  <2>2. CASE size # 0
    <3>1. PICK a \in Nat : a = size + c - 1
      OBVIOUS
    <3>2. count = a \div c
      BY <2>2, <3>1
    <3>3. count \in Nat /\ c * count <= a /\ a < c * count + c
      BY <3>1, <3>2, DivisionIs
    <3>4. PICK m \in Int : m = c * count
      BY <3>3
    <3>5. m <= size + c - 1 /\ size + c - 1 < m + c
      BY <3>1, <3>3, <3>4
    <3>6. m >= size /\ m - c < size
      BY <3>4, <3>5
    <3>7. count # 0
      <4> SUFFICES ASSUME count = 0 PROVE FALSE
        OBVIOUS
      <4>1. m = 0
        BY <3>4
      <4> QED
        BY <2>2, <3>6, <4>1
    <3> QED
      BY <2>2, <3>3, <3>4, <3>6, <3>7
  <2> QED
    BY <2>1, <2>2
<1> DEFINE cut == [n \in 0 .. count |-> IF n * c <= size THEN n * c ELSE size]
<1>2. \A n \in 0 .. count : n * c \in Nat
  BY <1>1
<1>3. cut \in [0 .. count -> 0 .. size]
  BY <1>1, <1>2
<1>4. cut[0] = 0
  <2>1. 0 * c = 0 /\ 0 \in 0 .. count
    BY <1>1
  <2> QED
    BY <2>1
<1>5. cut[count] = size
  <2>1. PICK m \in Nat : m = count * c
    BY <1>1
  <2>2. m >= size
    BY <1>1, <2>1
  <2>3. count \in 0 .. count
    BY <1>1
  <2> QED
    BY <2>1, <2>2, <2>3
<1>6. ASSUME NEW n \in 1 .. count
      PROVE  /\ n - 1 \in 0 .. count
             /\ (n - 1) * c = cut[n - 1]
             /\ Min({n * c, size}) = cut[n]
             /\ cut[n - 1] <= cut[n]
  <2>1. n \in 0 .. count /\ n - 1 \in 0 .. count /\ n \in Int
    BY <1>1
  <2>2. PICK m \in Int : m = (n - 1) * c
    BY <2>1
  <2>3. n * c = m + c
    BY <2>1, <2>2
  <2>4. m <= size /\ m >= 0
    <3>1. m >= 0
      BY <1>2, <2>1, <2>2
    <3>2. CASE n = 1
      <4>1. m = 0
        BY <2>2, <3>2
      <4> QED
        BY <4>1
    <3>3. CASE n # 1
      <4>1. PICK d \in Nat : count = n + d
        <5>1. count - n \in Nat /\ count = n + (count - n)
          BY <1>1
        <5> QED
          BY <5>1
      <4>2. count # 1 /\ size # 0
        BY <1>1, <2>1, <3>3
      <4>3. c * count - c < size
        BY <1>1, <4>2
      <4>4. PICK e \in Nat : e = c * d
        BY <4>1
      <4>5. c * count = m + c + e
        <5>1. c * count = n * c + c * d
          BY <2>1, <4>1
        <5> QED
          BY <2>3, <4>4, <5>1
      <4> QED
        BY <3>1, <4>3, <4>4, <4>5
    <3> QED
      BY <3>2, <3>3
  <2>5. cut[n - 1] = m
    BY <2>1, <2>2, <2>4
  <2>6. cut[n] = IF m + c <= size THEN m + c ELSE size
    BY <2>1, <2>3
  <2>7. Min({m + c, size}) = IF m + c <= size THEN m + c ELSE size
    <3>1. PICK x \in Int : x = m + c
      OBVIOUS
    <3>2. Min({x, size}) = IF x <= size THEN x ELSE size
      BY <3>1 DEF Min
    <3> QED
      BY <3>1, <3>2
  <2> HIDE DEF cut
  <2> QED
    BY <2>1, <2>2, <2>3, <2>4, <2>5, <2>6, <2>7
<1> HIDE DEF cut
<1>7. IsCut(size, c, count, cut)
  BY <1>3, <1>4, <1>5, <1>6 DEF IsCut
<1> QED
  BY <1>1, <1>7

LEMMA SubSeqFacts ==
  ASSUME NEW S, NEW s \in Seq(S), NEW a \in 0 .. Len(s), NEW b \in a .. Len(s)
  PROVE  /\ SubSeq(s, a + 1, b) \in Seq(S)
         /\ Len(SubSeq(s, a + 1, b)) = b - a
         /\ \A i \in 1 .. b - a : SubSeq(s, a + 1, b)[i] = s[a + i]
         /\ ToSet(SubSeq(s, a + 1, b)) = {s[i] : i \in a + 1 .. b}
<1>1. PICK t : t = SubSeq(s, a + 1, b)
  OBVIOUS
<1>2. a \in Nat /\ b \in Nat /\ Len(s) \in Nat /\ a <= b /\ b <= Len(s)
  OBVIOUS
<1>3. t \in Seq(S) /\ Len(t) = b - a
  BY <1>1, <1>2
<1>4. \A i \in 1 .. b - a : t[i] = s[a + i]
  BY <1>1, <1>2
<1>5. ToSet(t) = {t[i] : i \in 1 .. b - a}
  BY <1>3 DEF ToSet
<1>6. ToSet(t) = {s[i] : i \in a + 1 .. b}
  <2>1. ASSUME NEW i \in 1 .. b - a PROVE a + i \in a + 1 .. b
    BY <1>2
  <2>2. ASSUME NEW i \in a + 1 .. b PROVE i - a \in 1 .. b - a /\ i = a + (i - a)
    BY <1>2
  <2>3. \A x \in ToSet(t) : \E i \in a + 1 .. b : x = s[i]
    BY <1>4, <1>5, <2>1
  <2>4. ASSUME NEW i \in a + 1 .. b PROVE s[i] \in ToSet(t)
    <3>1. t[i - a] = s[a + (i - a)]
      BY <1>4, <2>2
    <3> QED
      BY <1>5, <2>2, <3>1
  <2> QED
    BY <2>3, <2>4
<1> QED
  BY <1>1, <1>3, <1>4, <1>6

First(sets, c) == {sets[i] : i \in 1 .. c}

(* The parts, by where the bundle was cut. *)
CutAt(s, kind, table, sets, fseq, ps, cut) ==
  /\ ps \in Seq(ToSet(ps))
  /\ Len(ps) \in Nat /\ Len(ps) >= 1 /\ DOMAIN ps = 1 .. Len(ps)
  /\ \A n \in 1 .. Len(ps) : PacketOK(s, ps[n]) /\ ps[n].kind = kind
  /\ \A n \in 1 .. Len(ps) : ps[n].fseq = fseq /\ ToSet(ps[n].sets) \subseteq ToSet(sets)
  /\ cut \in [0 .. Len(ps) -> 0 .. Len(sets)]
  /\ cut[0] = 0 /\ cut[Len(ps)] = Len(sets)
  /\ \A n \in 1 .. Len(ps) :
       /\ n - 1 \in 0 .. Len(ps) /\ cut[n - 1] <= cut[n]
       /\ ps[n].alive = Sids(table)
       /\ ToSet(ps[n].sets) = {sets[i] : i \in cut[n - 1] + 1 .. cut[n]}

LEMMA PartsAre ==
  ASSUME NEW s, NEW kind \in Kinds, NEW table, NEW sets \in Seq(Messages), OnePerSid(sets),
         \A m \in ToSet(sets) : m.sid \in Sids(table),
         NEW fseq \in Int, NEW frame,
         NEW ps, ps = Parts(s, kind, table, sets, fseq, frame)
  PROVE  \E cut : CutAt(s, kind, table, sets, fseq, ps, cut)
<1>1. PICK size, count : size = Len(sets)
                         /\ count = IF size = 0 THEN 1 ELSE (size + Capacity - 1) \div Capacity
  OBVIOUS
<1>2. size \in Nat /\ (sets = <<>> <=> size = 0) /\ ToSet(sets) = {sets[i] : i \in 1 .. size}
  BY <1>1 DEF ToSet
<1>3. Capacity \in Nat \ {0}
  BY CapacityAssumption
<1>4. count \in Nat /\ count >= 1 /\ \E cut : IsCut(size, Capacity, count, cut)
  BY <1>1, <1>2, <1>3, CutExists
<1>5. PICK cut : IsCut(size, Capacity, count, cut)
  BY <1>4
<1>6. /\ cut \in [0 .. count -> 0 .. size]
      /\ cut[0] = 0 /\ cut[count] = size
      /\ \A n \in 1 .. count : /\ n - 1 \in 0 .. count
                               /\ (n - 1) * Capacity = cut[n - 1]
                               /\ Min({n * Capacity, size}) = cut[n]
                               /\ cut[n - 1] <= cut[n]
  BY <1>5 DEF IsCut
<1>8. ps = [n \in 1 .. count |->
              [source |-> s, kind |-> kind, alive |-> Sids(table),
               sets |-> SubSeq(sets, (n - 1) * Capacity + 1, Min({n * Capacity, size})),
               fseq |-> fseq, frame |-> frame, part |-> n]]
  BY <1>1, <1>2 DEF Parts
<1>9. Len(ps) = count /\ DOMAIN ps = 1 .. count
  <2>1. DOMAIN ps = 1 .. count
    BY <1>8
  <2> QED
    BY <1>4, <2>1
<1>12. ps \in Seq(ToSet(ps))
  <2>1. \A n \in 1 .. count : ps[n] \in ToSet(ps)
    BY <1>9 DEF ToSet
  <2>2. ps = [n \in 1 .. count |-> ps[n]]
    BY <1>8
  <2>3. ps \in [1 .. count -> ToSet(ps)]
    BY <2>1, <2>2
  <2> QED
    BY <1>4, <2>3
<1>10. ASSUME NEW n \in 1 .. count
       PROVE  /\ PacketOK(s, ps[n]) /\ ps[n].kind = kind /\ ps[n].fseq = fseq
              /\ n - 1 \in 0 .. count /\ cut[n - 1] <= cut[n]
              /\ ps[n].alive = Sids(table)
              /\ ToSet(ps[n].sets) = {sets[i] : i \in cut[n - 1] + 1 .. cut[n]}
              /\ ToSet(ps[n].sets) \subseteq ToSet(sets)
  <2>1. PICK a, b : a = cut[n - 1] /\ b = cut[n]
    OBVIOUS
  <2>2. n \in 0 .. count /\ n - 1 \in 0 .. count /\ a \in 0 .. size /\ b \in a .. size
    <3>1. n \in 0 .. count /\ n - 1 \in 0 .. count
      BY <1>4
    <3>2. cut[n - 1] \in 0 .. size /\ cut[n] \in 0 .. size /\ cut[n - 1] <= cut[n]
      BY <1>6, <3>1
    <3> QED
      BY <2>1, <3>1, <3>2
  <2>3. PICK t : t = SubSeq(sets, a + 1, b)
    OBVIOUS
  <2>4. ps[n] = [source |-> s, kind |-> kind, alive |-> Sids(table), sets |-> t,
                 fseq |-> fseq, frame |-> frame, part |-> n]
    BY <1>6, <1>8, <2>1, <2>3
  <2>5. /\ t \in Seq(Messages) /\ Len(t) = b - a
        /\ \A i \in 1 .. b - a : t[i] = sets[a + i]
        /\ ToSet(t) = {sets[i] : i \in a + 1 .. b}
    <3>1. a \in 0 .. Len(sets) /\ b \in a .. Len(sets)
      BY <1>1, <2>2
    <3>2. /\ SubSeq(sets, a + 1, b) \in Seq(Messages)
          /\ Len(SubSeq(sets, a + 1, b)) = b - a
          /\ \A i \in 1 .. b - a : SubSeq(sets, a + 1, b)[i] = sets[a + i]
          /\ ToSet(SubSeq(sets, a + 1, b)) = {sets[i] : i \in a + 1 .. b}
      BY ONLY <3>1, sets \in Seq(Messages), SubSeqFacts, Zenon
    <3> QED
      BY <2>3, <3>2
  <2>6. ToSet(t) \subseteq ToSet(sets)
    <3>1. \A i \in a + 1 .. b : i \in 1 .. size
      BY <1>2, <2>2
    <3> QED
      BY <1>2, <2>5, <3>1
  <2>7. OnePerSid(t)
    <3>1. ASSUME NEW i \in 1 .. b - a, NEW j \in 1 .. b - a, t[i].sid = t[j].sid PROVE i = j
      <4>1. a + i \in 1 .. size /\ a + j \in 1 .. size /\ a \in Int
        BY <1>2, <2>2
      <4>2. a + i = a + j
        BY <1>1, <2>5, <3>1, <4>1 DEF OnePerSid
      <4> QED
        BY <4>1, <4>2
    <3> QED
      BY <2>5, <3>1 DEF OnePerSid
  <2>8. PICK p : p = ps[n]
    OBVIOUS
  <2>9. /\ p.source = s /\ p.kind = kind /\ p.alive = Sids(table) /\ p.sets = t /\ p.fseq = fseq
    BY <2>4, <2>8
  <2>10. PacketOK(s, p)
    BY <2>5, <2>6, <2>7, <2>9 DEF PacketOK
  <2> QED
    BY <2>1, <2>2, <2>5, <2>6, <2>8, <2>9, <2>10
<1>11. CutAt(s, kind, table, sets, fseq, ps, cut)
  BY <1>1, <1>4, <1>6, <1>9, <1>10, <1>12 DEF CutAt
<1> QED
  BY <1>11

-----------------------------------------------------------------------------
(* What is seen of all kinds, and what packets that arrive in order make   *)
(* of it.                                                                  *)

Views == [Kinds -> SUBSET Sights]

Tells(A, p, B) ==
  /\ Agrees(A[p.kind], p.kind, ToSet(p.sets))
  /\ B = [A EXCEPT ![p.kind] = Merged(A[p.kind], p.kind, ToSet(p.sets), p.alive)]

IsWay(A, ps, B, G) ==
  /\ G \in [0 .. Len(ps) -> Views]
  /\ G[0] = A /\ G[Len(ps)] = B
  /\ \A n \in 1 .. Len(ps) : n - 1 \in 0 .. Len(ps) /\ Tells(G[n - 1], ps[n], G[n])

Leads(A, ps, B) == \E G : IsWay(A, ps, B, G)

LEMMA SeenIsSight ==
  ASSUME NEW kind, NEW m, m.sid \in Int, m.place \in Int, m.id \in Ids
  PROVE  Seen(kind, m) \in Sights
<1>1. (IF kind = "object" THEN m.id ELSE -1) \in Ids
  BY DEF Ids
<1> QED
  BY <1>1 DEF Seen, Sights

LEMMA MergedIsView ==
  ASSUME NEW V \in SUBSET Sights, NEW kind, NEW sets \in SUBSET Messages, NEW alive
  PROVE  Merged(V, kind, sets, alive) \in SUBSET Sights
<1>1. \A m \in sets : Seen(kind, m) \in Sights
  BY SeenIsSight DEF Messages
<1> QED
  BY <1>1 DEF Merged, SeenAll

(* A bundle of a table leads to what is seen of the table, if the sets     *)
(* have what is not yet seen of it.                                        *)
LEMMA PartsLead ==
  ASSUME NEW s, NEW kind \in Kinds, NEW A \in Views,
         NEW table \in Seq(Messages), OnePerSid(table),
         NEW sets \in Seq(Messages), OnePerSid(sets), ToSet(sets) \subseteq ToSet(table),
         Agrees(A[kind], kind, ToSet(table)),
         \A v \in A[kind], o \in ToSet(table) : v.sid = o.sid /\ o \notin ToSet(sets) => v = Seen(kind, o),
         \A o \in ToSet(table) : o \notin ToSet(sets) => Seen(kind, o) \in A[kind],
         NEW fseq \in Int, NEW frame
  PROVE  Leads(A, Parts(s, kind, table, sets, fseq, frame),
               [A EXCEPT ![kind] = SeenAll(kind, ToSet(table))])
<1> DEFINE T == ToSet(table)
           V == A[kind]
           alive == Sids(table)
<1>1. PICK ps : ps = Parts(s, kind, table, sets, fseq, frame)
  OBVIOUS
<1>2. alive = {o.sid : o \in T} /\ Apart(T) /\ T \subseteq Messages
  BY OnePerSidIs DEF Sids, ToSet
<1>3. \A m \in ToSet(sets) : m.sid \in alive
  BY <1>2
<1>4. PICK cut : CutAt(s, kind, table, sets, fseq, ps, cut)
  <2>1. \A m \in ToSet(sets) : m.sid \in Sids(table)
    BY <1>3
  <2>2. kind \in Kinds /\ sets \in Seq(Messages) /\ OnePerSid(sets) /\ fseq \in Int
    OBVIOUS
  <2> QED
    BY ONLY <1>1, <2>1, <2>2, PartsAre, Zenon
<1>5. /\ Len(ps) \in Nat /\ Len(ps) >= 1
      /\ \A n \in 1 .. Len(ps) : ps[n].kind = kind
      /\ cut \in [0 .. Len(ps) -> 0 .. Len(sets)]
      /\ cut[0] = 0 /\ cut[Len(ps)] = Len(sets)
      /\ \A n \in 1 .. Len(ps) :
           /\ n - 1 \in 0 .. Len(ps) /\ cut[n - 1] <= cut[n]
           /\ ps[n].alive = alive
           /\ ToSet(ps[n].sets) = {sets[i] : i \in cut[n - 1] + 1 .. cut[n]}
  BY <1>4 DEF CutAt
<1>6. PICK count : count = Len(ps)
  OBVIOUS
<1>7. count \in Nat /\ count >= 1
  BY <1>5, <1>6
<1>8. A = [k \in Kinds |-> A[k]] /\ V \subseteq Sights
  BY DEF Views
<1>9. ToSet(sets) = First(sets, Len(sets)) /\ Len(sets) \in Nat
  BY DEF ToSet, First
<1> HIDE DEF T, V, alive
<1>10. \A c \in 0 .. Len(sets) : First(sets, c) \subseteq T
  <2>1. \A c \in 0 .. Len(sets) : \A i \in 1 .. c : i \in 1 .. Len(sets)
    BY <1>9
  <2> QED
    BY <1>9, <2>1 DEF First, T
<1> DEFINE M(c) == Merged(V, kind, First(sets, c), alive)
           G == [n \in 0 .. count |-> IF n = 0 THEN A ELSE [A EXCEPT ![kind] = M(cut[n])]]
<1>11. \A n \in 0 .. count : cut[n] \in 0 .. Len(sets) /\ M(cut[n]) \in SUBSET Sights
  <2> SUFFICES ASSUME NEW n \in 0 .. count
               PROVE  cut[n] \in 0 .. Len(sets) /\ M(cut[n]) \in SUBSET Sights
    OBVIOUS
  <2>1. cut[n] \in 0 .. Len(sets)
    BY <1>5, <1>6
  <2>2. PICK P : P = First(sets, cut[n])
    OBVIOUS
  <2>3. P \in SUBSET Messages
    BY <1>2, <1>10, <2>1, <2>2
  <2>4. Merged(V, kind, P, alive) \in SUBSET Sights
    BY <1>8, <2>3, MergedIsView
  <2> QED
    BY <2>1, <2>2, <2>4
<1>12. G \in [0 .. count -> Views]
  <2>1. ASSUME NEW X \in SUBSET Sights PROVE [A EXCEPT ![kind] = X] \in Views
    BY <2>1 DEF Views
  <2> HIDE DEF M
  <2> QED
    BY <1>11, <2>1
<1>13. G[0] = A /\ \A n \in 1 .. count : G[n] = [A EXCEPT ![kind] = M(cut[n])]
  <2> HIDE DEF M
  <2> QED
    BY <1>7
<1>14. G[count] = [A EXCEPT ![kind] = SeenAll(kind, T)]
  <2>1. M(Len(sets)) = Merged(V, kind, ToSet(sets), alive)
    BY <1>9
  <2>2. PICK all : all = ToSet(sets)
    OBVIOUS
  <2>3. /\ all \in SUBSET T
        /\ \A v \in V, o \in T : v.sid = o.sid /\ o \notin all => v = Seen(kind, o)
        /\ \A o \in T : o \notin all => Seen(kind, o) \in V
    BY <2>2 DEF T, V
  <2>4. Merged(V, kind, all, alive) = SeenAll(kind, T)
    BY ONLY <1>2, <2>3, MergedAll
  <2>5. M(cut[count]) = SeenAll(kind, T)
    BY <1>5, <1>6, <2>1, <2>2, <2>4
  <2> HIDE DEF M, G
  <2> QED
    BY <1>7, <1>13, <2>5
<1>15. ASSUME NEW n \in 1 .. count PROVE n - 1 \in 0 .. count /\ Tells(G[n - 1], ps[n], G[n])
  <2>1. PICK a, b, Q : a = cut[n - 1] /\ b = cut[n] /\ Q = {sets[i] : i \in a + 1 .. b}
    OBVIOUS
  <2>2. /\ n - 1 \in 0 .. count /\ n \in 0 .. count /\ a <= b
        /\ ps[n].kind = kind /\ ps[n].alive = alive /\ ToSet(ps[n].sets) = Q
    <3>1. n \in 1 .. Len(ps) /\ n \in 0 .. count
      BY <1>6, <1>7
    <3>2. ps[n].kind = kind
      BY <1>5, <3>1
    <3>3. /\ n - 1 \in 0 .. count /\ cut[n - 1] <= cut[n] /\ ps[n].alive = alive
          /\ ToSet(ps[n].sets) = {sets[i] : i \in cut[n - 1] + 1 .. cut[n]}
      BY <1>5, <1>6, <3>1
    <3> QED
      BY <2>1, <3>1, <3>2, <3>3
  <2>3. a \in 0 .. Len(sets) /\ b \in 0 .. Len(sets)
    BY <1>11, <2>1, <2>2
  <2>4. First(sets, b) = First(sets, a) \cup Q
    <3>1. \A i : i \in 1 .. b <=> i \in 1 .. a \/ i \in a + 1 .. b
      BY <1>9, <2>2, <2>3
    <3> QED
      BY <2>1, <3>1 DEF First
  <2>5. Q \in SUBSET T /\ First(sets, a) \in SUBSET T
    BY <1>10, <2>3, <2>4
  <2>6. PICK X : X = G[n - 1][kind]
    OBVIOUS
  <2>7. /\ Agrees(X, kind, Q)
        /\ Merged(X, kind, Q, alive) = M(b)
        /\ G[n - 1] = [A EXCEPT ![kind] = X]
    <3>1. CASE n = 1
      <4>1. G[n - 1] = A /\ X = V
        BY <1>13, <2>6, <3>1 DEF V
      <4>2. a = 0
        BY <1>5, <2>1, <3>1
      <4>3. First(sets, a) = {}
        BY <4>2 DEF First
      <4>4. Agrees(V, kind, Q)
        BY <2>5 DEF Agrees, V, T
      <4>5. A = [A EXCEPT ![kind] = A[kind]]
        BY <1>8
      <4>6. First(sets, b) = Q
        BY <2>4, <4>3
      <4> HIDE DEF G
      <4> QED
        BY <4>1, <4>4, <4>5, <4>6 DEF V
    <3>2. CASE n # 1
      <4>1. n - 1 \in 1 .. count
        BY <1>7, <3>2
      <4>2. G[n - 1] = [A EXCEPT ![kind] = M(a)]
        BY <1>13, <2>1, <4>1
      <4>3. X = M(a)
        <5> HIDE DEF M, G
        <5> QED
          BY <1>8, <2>6, <4>2
      <4>4. PICK P : P = First(sets, a)
        OBVIOUS
      <4>5. /\ P \in SUBSET T /\ Agrees(V, kind, T) /\ \A o \in T : o.sid \in alive
        BY <1>2, <2>5, <4>4 DEF V, T
      <4>6. /\ Merged(Merged(V, kind, P, alive), kind, Q, alive) = Merged(V, kind, P \cup Q, alive)
            /\ Agrees(Merged(V, kind, P, alive), kind, Q)
        <5>1. Apart(T) /\ Q \in SUBSET T
          BY <1>2, <2>5
        <5> QED
          BY ONLY <4>5, <5>1, MergedTwice, Zenon
      <4> HIDE DEF G
      <4> QED
        BY <2>4, <4>2, <4>3, <4>4, <4>6
    <3> QED
      BY <3>1, <3>2
  <2>8. G[n] = [A EXCEPT ![kind] = M(b)]
    BY <1>13, <2>1
  <2> HIDE DEF M, G
  <2>9. G[n] = [G[n - 1] EXCEPT ![kind] = Merged(X, kind, Q, alive)]
    BY <1>8, <2>7, <2>8
  <2> QED
    BY <2>2, <2>6, <2>7, <2>9 DEF Tells
<1> HIDE DEF G
<1>16. IsWay(A, ps, [A EXCEPT ![kind] = SeenAll(kind, T)], G)
  BY <1>6, <1>12, <1>13, <1>14, <1>15 DEF IsWay
<1> QED
  BY <1>1, <1>16 DEF Leads, T

-----------------------------------------------------------------------------
(* One way after another. *)

Joins(V, a, F, b, G, J) ==
  /\ J \in [0 .. a + b -> V]
  /\ \A i \in 0 .. a : i \in 0 .. a + b /\ J[i] = F[i]
  /\ \A i \in 0 .. b : a + i \in 0 .. a + b /\ J[a + i] = G[i]

LEMMA JoinWays ==
  ASSUME NEW V, NEW a \in Nat, NEW b \in Nat, NEW F \in [0 .. a -> V], NEW G \in [0 .. b -> V],
         F[a] = G[0]
  PROVE  \E J : Joins(V, a, F, b, G, J)
<1> DEFINE J == [i \in 0 .. a + b |-> IF i <= a THEN F[i] ELSE G[i - a]]
<1>1. J \in [0 .. a + b -> V]
  <2>1. ASSUME NEW i \in 0 .. a + b PROVE (IF i <= a THEN F[i] ELSE G[i - a]) \in V
    <3>1. CASE i <= a
      <4>1. i \in 0 .. a
        BY <3>1
      <4> QED
        BY <3>1, <4>1
    <3>2. CASE ~ (i <= a)
      <4>1. i - a \in 0 .. b
        BY <3>2
      <4> QED
        BY <3>2, <4>1
    <3> QED
      BY <3>1, <3>2
  <2> QED
    BY <2>1
<1>2. ASSUME NEW i \in 0 .. a PROVE i \in 0 .. a + b /\ J[i] = F[i]
  <2>1. i \in 0 .. a + b /\ i <= a
    OBVIOUS
  <2> QED
    BY <2>1
<1>3. ASSUME NEW i \in 0 .. b PROVE a + i \in 0 .. a + b /\ J[a + i] = G[i]
  <2>1. a + i \in 0 .. a + b /\ (a + i) - a = i
    OBVIOUS
  <2>2. CASE i = 0
    <3>1. a + i = a /\ a \in 0 .. a + b
      BY <2>2
    <3>2. J[a] = F[a]
      BY <3>1
    <3> HIDE DEF J
    <3> QED
      BY <2>2, <3>1, <3>2
  <2>3. CASE i # 0
    <3>1. ~ (a + i <= a)
      BY <2>3
    <3> QED
      BY <2>1, <3>1
  <2> QED
    BY <2>2, <2>3
<1> HIDE DEF J
<1>4. Joins(V, a, F, b, G, J)
  BY <1>1, <1>2, <1>3 DEF Joins
<1> QED
  BY <1>4

LEMMA LeadsNone ==
  ASSUME NEW A \in Views
  PROVE  Leads(A, <<>>, A)
<1> DEFINE G == [n \in 0 .. 0 |-> A]
<1>1. IsWay(A, <<>>, A, G)
  BY DEF IsWay
<1> QED
  BY <1>1 DEF Leads

LEMMA LeadsConcat ==
  ASSUME NEW S, NEW p \in Seq(S), NEW q \in Seq(S), NEW A, NEW B, NEW C,
         Leads(A, p, B), Leads(B, q, C)
  PROVE  Leads(A, p \o q, C)
<1>1. PICK F : IsWay(A, p, B, F)
  BY DEF Leads
<1>2. PICK G : IsWay(B, q, C, G)
  BY DEF Leads
<1>3. PICK a, b : a = Len(p) /\ b = Len(q)
  OBVIOUS
<1>4. a \in Nat /\ b \in Nat
  BY <1>3
<1>5. /\ F \in [0 .. a -> Views] /\ F[0] = A /\ F[a] = B
      /\ \A n \in 1 .. a : n - 1 \in 0 .. a /\ Tells(F[n - 1], p[n], F[n])
  BY <1>1, <1>3 DEF IsWay
<1>6. /\ G \in [0 .. b -> Views] /\ G[0] = B /\ G[b] = C
      /\ \A n \in 1 .. b : n - 1 \in 0 .. b /\ Tells(G[n - 1], q[n], G[n])
  BY <1>2, <1>3 DEF IsWay
<1>7. PICK J : /\ J \in [0 .. a + b -> Views]
               /\ \A i \in 0 .. a : i \in 0 .. a + b /\ J[i] = F[i]
               /\ \A i \in 0 .. b : a + i \in 0 .. a + b /\ J[a + i] = G[i]
  <2>1. F[a] = G[0] /\ F \in [0 .. a -> Views] /\ G \in [0 .. b -> Views]
    BY <1>5, <1>6
  <2>2. \E J : Joins(Views, a, F, b, G, J)
    BY ONLY <1>4, <2>1, JoinWays, Zenon
  <2> QED
    BY <2>2 DEF Joins
<1>8. PICK t : t = p \o q
  OBVIOUS
<1>9. /\ Len(t) = a + b
      /\ \A i \in 1 .. a : t[i] = p[i]
      /\ \A i \in 1 .. b : t[a + i] = q[i]
  BY <1>3, <1>8, ConcatFacts
<1>10. J[0] = A /\ J[a + b] = C
  <2>1. 0 \in 0 .. a /\ b \in 0 .. b
    BY <1>4
  <2> QED
    BY <1>5, <1>6, <1>7, <2>1
<1>11. ASSUME NEW n \in 1 .. a + b PROVE n - 1 \in 0 .. a + b /\ Tells(J[n - 1], t[n], J[n])
  <2>1. n - 1 \in 0 .. a + b
    BY <1>4
  <2>2. CASE n <= a
    <3>1. n \in 1 .. a /\ n \in 0 .. a /\ n - 1 \in 0 .. a
      BY <1>4, <2>2
    <3>2. J[n - 1] = F[n - 1] /\ J[n] = F[n] /\ t[n] = p[n]
      BY <1>7, <1>9, <3>1
    <3> QED
      BY <1>5, <2>1, <3>1, <3>2
  <2>3. CASE n > a
    <3>1. PICK i : i = n - a
      OBVIOUS
    <3>2. i \in 1 .. b /\ i \in 0 .. b /\ i - 1 \in 0 .. b /\ n = a + i /\ n - 1 = a + (i - 1)
      BY <1>4, <2>3, <3>1
    <3>3. J[n - 1] = G[i - 1] /\ J[n] = G[i] /\ t[n] = q[i]
      BY <1>7, <1>9, <3>2
    <3> QED
      BY <1>6, <2>1, <3>2, <3>3
  <2> QED
    BY <1>4, <2>2, <2>3
<1>12. IsWay(A, t, C, J)
  BY <1>7, <1>9, <1>10, <1>11 DEF IsWay
<1> QED
  BY <1>8, <1>12 DEF Leads

(* The bundles of the three kinds, those that are enabled, each of which   *)
(* leads to what X is of its kind.                                         *)
Bundled(s, ps) == ps \in Seq(ToSet(ps)) /\ \A p \in ToSet(ps) : PacketOK(s, p)

LEMMA BundledConcat ==
  ASSUME NEW s, NEW p, Bundled(s, p), NEW q, Bundled(s, q)
  PROVE  /\ Bundled(s, p \o q)
         /\ ToSet(p \o q) = ToSet(p) \cup ToSet(q)
         /\ \E S : p \in Seq(S) /\ q \in Seq(S)
<1>1. PICK S : S = ToSet(p) \cup ToSet(q)
  OBVIOUS
<1>2. p \in Seq(S) /\ q \in Seq(S)
  BY <1>1 DEF Bundled
<1>3. p \o q \in Seq(S) /\ ToSet(p \o q) = ToSet(p) \cup ToSet(q)
  BY <1>2, ConcatFacts
<1> QED
  BY <1>1, <1>2, <1>3 DEF Bundled

LEMMA NoneBundled ==
  ASSUME NEW s
  PROVE  Bundled(s, <<>>) /\ ToSet(<<>>) = {}
<1>1. ToSet(<<>>) = {}
  BY DEF ToSet
<1> QED
  BY <1>1 DEF Bundled

Turns(A, kind, ps, X) ==
  \A B \in Views : B[kind] = A[kind] => Leads(B, ps, [B EXCEPT ![kind] = X[kind]])

Settles(A, ps, on, X) ==
  \E B : Leads(A, ps, B) /\ \A kind \in on : B[kind] = X[kind]

LEMMA ThreeLead ==
  ASSUME NEW s, NEW A \in Views, NEW X \in Views, NEW on \in SUBSET Kinds,
         NEW pc, Bundled(s, pc), "cursor" \in on => Turns(A, "cursor", pc, X),
         "cursor" \notin on => pc = <<>>,
         NEW po, Bundled(s, po), "object" \in on => Turns(A, "object", po, X),
         "object" \notin on => po = <<>>,
         NEW pb, Bundled(s, pb), "blob" \in on => Turns(A, "blob", pb, X),
         "blob" \notin on => pb = <<>>
  PROVE  Settles(A, pc \o po \o pb, on, X)
<1> DEFINE C == IF "cursor" \in on THEN [A EXCEPT !["cursor"] = X["cursor"]] ELSE A
           O == IF "object" \in on THEN [C EXCEPT !["object"] = X["object"]] ELSE C
           E == IF "blob" \in on THEN [O EXCEPT !["blob"] = X["blob"]] ELSE O
<1>1. /\ C \in Views
      /\ C["object"] = A["object"] /\ C["blob"] = A["blob"]
      /\ "cursor" \in on => C["cursor"] = X["cursor"]
  BY DEF Views, Kinds
<1>2. Leads(A, pc, C)
  <2>1. CASE "cursor" \in on
    BY <2>1 DEF Turns
  <2>2. CASE "cursor" \notin on
    BY <2>2, LeadsNone
  <2> QED
    BY <2>1, <2>2
<1> HIDE DEF C
<1>3. /\ O \in Views
      /\ O["blob"] = A["blob"]
      /\ "cursor" \in on => O["cursor"] = X["cursor"]
      /\ "object" \in on => O["object"] = X["object"]
  BY <1>1 DEF Views, Kinds
<1>4. Leads(C, po, O)
  <2>1. CASE "object" \in on
    BY <1>1, <2>1 DEF Turns
  <2>2. CASE "object" \notin on
    BY <1>1, <2>2, LeadsNone
  <2> QED
    BY <2>1, <2>2
<1> HIDE DEF O
<1>5. /\ E \in Views
      /\ "cursor" \in on => E["cursor"] = X["cursor"]
      /\ "object" \in on => E["object"] = X["object"]
      /\ "blob" \in on => E["blob"] = X["blob"]
  BY <1>3 DEF Views, Kinds
<1>6. Leads(O, pb, E)
  <2>1. CASE "blob" \in on
    BY <1>3, <2>1 DEF Turns
  <2>2. CASE "blob" \notin on
    BY <1>3, <2>2, LeadsNone
  <2> QED
    BY <2>1, <2>2
<1> HIDE DEF E
<1>7. PICK pco : pco = pc \o po
  OBVIOUS
<1>8. Bundled(s, pco) /\ Leads(A, pco, O)
  <2>1. Bundled(s, pc \o po) /\ \E S : pc \in Seq(S) /\ po \in Seq(S)
    BY BundledConcat
  <2>2. Leads(A, pc \o po, O)
    BY <1>2, <1>4, <2>1, LeadsConcat
  <2> QED
    BY <1>7, <2>1, <2>2
<1>9. Leads(A, pco \o pb, E)
  <2>1. \E S : pco \in Seq(S) /\ pb \in Seq(S)
    BY <1>8, BundledConcat
  <2> QED
    BY <1>6, <1>8, <2>1, LeadsConcat
<1>10. \A kind \in on : E[kind] = X[kind]
  BY <1>5 DEF Kinds
<1> QED
  BY <1>7, <1>9, <1>10 DEF Settles
-----------------------------------------------------------------------------
(* What the bundles of a table do to what is seen.                         *)

Bundle(s, kind, sets, ps) ==
  Bundled(s, ps) /\ \A p \in ToSet(ps) : p.kind = kind /\ ToSet(p.sets) \subseteq ToSet(sets)

LEMMA PartsBundled ==
  ASSUME NEW s, NEW kind \in Kinds, NEW table, NEW sets \in Seq(Messages), OnePerSid(sets),
         \A m \in ToSet(sets) : m.sid \in Sids(table),
         NEW fseq \in Int, NEW frame,
         NEW ps, ps = Parts(s, kind, table, sets, fseq, frame)
  PROVE  Bundle(s, kind, sets, ps)
<1>1. PICK cut : CutAt(s, kind, table, sets, fseq, ps, cut)
  <2>1. /\ kind \in Kinds /\ sets \in Seq(Messages) /\ OnePerSid(sets) /\ fseq \in Int
        /\ \A m \in ToSet(sets) : m.sid \in Sids(table)
        /\ ps = Parts(s, kind, table, sets, fseq, frame)
    OBVIOUS
  <2> QED
    BY ONLY <2>1, PartsAre, Zenon
<1>2. /\ ps \in Seq(ToSet(ps))
      /\ \A n \in 1 .. Len(ps) : PacketOK(s, ps[n]) /\ ps[n].kind = kind
      /\ \A n \in 1 .. Len(ps) : ToSet(ps[n].sets) \subseteq ToSet(sets)
  BY <1>1 DEF CutAt
<1>3. ToSet(ps) = {ps[n] : n \in 1 .. Len(ps)}
  BY <1>1 DEF ToSet, CutAt
<1> QED
  BY <1>2, <1>3 DEF Bundle, Bundled

LEMMA PartsTurn ==
  ASSUME NEW s, NEW kind \in Kinds, NEW A \in Views,
         NEW old \in Seq(Messages), OnePerSid(old), A[kind] = SeenAll(kind, ToSet(old)),
         NEW table \in Seq(Messages), OnePerSid(table),
         \A o \in ToSet(old), m \in ToSet(table) : o.sid = m.sid => Seen(kind, o).id = Seen(kind, m).id,
         NEW sets \in Seq(Messages), OnePerSid(sets), ToSet(sets) \subseteq ToSet(table),
         ToSet(table) \ ToSet(old) \subseteq ToSet(sets),
         NEW fseq \in Int, NEW frame
  PROVE  Leads(A, Parts(s, kind, table, sets, fseq, frame),
               [A EXCEPT ![kind] = SeenAll(kind, ToSet(table))])
<1>1. Agrees(A[kind], kind, ToSet(table))
  BY SeenIs DEF Agrees, SeenAll
<1>2. Apart(ToSet(old))
  BY OnePerSidIs
<1>3. \A o \in ToSet(table) : o \notin ToSet(sets) => o \in ToSet(old)
  OBVIOUS
<1>4. \A v \in A[kind], o \in ToSet(table) : v.sid = o.sid /\ o \notin ToSet(sets) => v = Seen(kind, o)
  <2> SUFFICES ASSUME NEW v \in A[kind], NEW o \in ToSet(table), v.sid = o.sid, o \notin ToSet(sets)
               PROVE  v = Seen(kind, o)
    OBVIOUS
  <2>1. PICK p \in ToSet(old) : v = Seen(kind, p)
    BY DEF SeenAll
  <2>2. p.sid = o.sid
    BY <2>1, SeenIs
  <2>3. p = o
    BY <1>2, <1>3, <2>2 DEF Apart
  <2> QED
    BY <2>1, <2>3
<1>5. \A o \in ToSet(table) : o \notin ToSet(sets) => Seen(kind, o) \in A[kind]
  BY <1>3 DEF SeenAll
<1>6. /\ kind \in Kinds /\ A \in Views /\ table \in Seq(Messages) /\ OnePerSid(table)
      /\ sets \in Seq(Messages) /\ OnePerSid(sets) /\ ToSet(sets) \subseteq ToSet(table)
      /\ fseq \in Int
  OBVIOUS
<1> QED
  BY ONLY <1>1, <1>4, <1>5, <1>6, PartsLead, Zenon

NoView == [kind \in Kinds |-> {}]

LEMMA EmptyTurns ==
  ASSUME NEW s, NEW kind \in Kinds, NEW A, NEW frame
  PROVE  /\ Turns(A, kind, Parts(s, kind, <<>>, <<>>, -1, frame), NoView)
         /\ Bundled(s, Parts(s, kind, <<>>, <<>>, -1, frame))
         /\ \A p \in ToSet(Parts(s, kind, <<>>, <<>>, -1, frame)) : ToSet(p.sets) = {}
<1>1. <<>> \in Seq(Messages) /\ ToSet(<<>>) = {} /\ OnePerSid(<<>>)
  BY DEF ToSet, OnePerSid
<1>2. SeenAll(kind, {}) = {} /\ NoView[kind] = {}
  BY DEF SeenAll, NoView
<1>3. ASSUME NEW B \in Views
      PROVE  Leads(B, Parts(s, kind, <<>>, <<>>, -1, frame), [B EXCEPT ![kind] = {}])
  <2>1. PICK e : e = <<>>
    OBVIOUS
  <2>2. /\ e \in Seq(Messages) /\ OnePerSid(e) /\ ToSet(e) = {} /\ -1 \in Int
    BY <1>1, <2>1
  <2>3. /\ ToSet(e) \subseteq ToSet(e)
        /\ Agrees(B[kind], kind, ToSet(e))
        /\ \A v \in B[kind], o \in ToSet(e) : v.sid = o.sid /\ o \notin ToSet(e) => v = Seen(kind, o)
        /\ \A o \in ToSet(e) : o \notin ToSet(e) => Seen(kind, o) \in B[kind]
    BY <2>2 DEF Agrees
  <2>4. Leads(B, Parts(s, kind, e, e, -1, frame), [B EXCEPT ![kind] = SeenAll(kind, ToSet(e))])
    <3>1. kind \in Kinds /\ B \in Views
      OBVIOUS
    <3> QED
      BY ONLY <2>2, <2>3, <3>1, PartsLead, Zenon
  <2> QED
    BY <1>2, <2>1, <2>2, <2>4
<1>4. PICK ps, e, minus : ps = Parts(s, kind, e, e, minus, frame) /\ e = <<>> /\ minus = -1
  OBVIOUS
<1>5. Bundle(s, kind, e, ps)
  <2>1. /\ kind \in Kinds /\ e \in Seq(Messages) /\ OnePerSid(e) /\ minus \in Int
        /\ \A m \in ToSet(e) : m.sid \in Sids(e)
    BY <1>1, <1>4
  <2>2. ps = Parts(s, kind, e, e, minus, frame)
    BY <1>4
  <2> QED
    BY ONLY <2>1, <2>2, PartsBundled, Zenon
<1> QED
  BY <1>1, <1>2, <1>3, <1>4, <1>5 DEF Turns, Bundle

(* All that is on a table is sent again. *)
LEMMA FullTurns ==
  ASSUME NEW s, NEW kind \in Kinds, NEW A, NEW table \in Seq(Messages), OnePerSid(table),
         NEW old \in Seq(Messages), OnePerSid(old), ToSet(old) \subseteq ToSet(table),
         A[kind] = SeenAll(kind, ToSet(old)), NEW X, X[kind] = SeenAll(kind, ToSet(table)), NEW frame
  PROVE  /\ Turns(A, kind, Parts(s, kind, table, table, -1, frame), X)
         /\ Bundled(s, Parts(s, kind, table, table, -1, frame))
<1>1. Apart(ToSet(table))
  BY OnePerSidIs
<1>2. \A o \in ToSet(old), m \in ToSet(table) : o.sid = m.sid => Seen(kind, o).id = Seen(kind, m).id
  BY <1>1 DEF Apart
<1>3. ToSet(table) \subseteq ToSet(table) /\ ToSet(table) \ ToSet(old) \subseteq ToSet(table)
  OBVIOUS
<1>4. PICK minus : minus = -1
  OBVIOUS
<1>5. minus \in Int
  BY <1>4
<1>6. ASSUME NEW B \in Views, B[kind] = A[kind]
      PROVE  Leads(B, Parts(s, kind, table, table, minus, frame),
                   [B EXCEPT ![kind] = SeenAll(kind, ToSet(table))])
  <2>1. /\ kind \in Kinds /\ B \in Views /\ table \in Seq(Messages) /\ OnePerSid(table)
        /\ old \in Seq(Messages) /\ OnePerSid(old) /\ B[kind] = SeenAll(kind, ToSet(old))
    BY <1>6
  <2> QED
    BY ONLY <1>2, <1>3, <1>5, <2>1, PartsTurn, Zenon
<1>7. PICK ps : ps = Parts(s, kind, table, table, minus, frame)
  OBVIOUS
<1>8. Bundle(s, kind, table, ps)
  <2>1. \A m \in ToSet(table) : m.sid \in Sids(table)
    BY DEF Sids, ToSet
  <2>2. kind \in Kinds /\ table \in Seq(Messages) /\ OnePerSid(table)
    OBVIOUS
  <2> QED
    BY ONLY <1>5, <1>7, <2>1, <2>2, PartsBundled, Zenon
<1> QED
  BY <1>4, <1>6, <1>7, <1>8 DEF Turns, Bundle
-----------------------------------------------------------------------------
(* As long as packets arrive in order, there is a history H of views: at r *)
(* is what the client shows, at n what the server v announces, and every   *)
(* packet of the network N leads from one view to the next.                *)

ViewOf(c) == [kind \in Kinds |-> SeenAll(kind, ShownOf(c, kind))]

Announced(v, B) ==
  v # Down => \A kind \in v.mode.profiles : B[kind] = SeenAll(kind, ToSet(Told(v, kind)))

Step(H, n, q) == /\ q.number \in 1 .. n
                 /\ q.number - 1 \in 0 .. n
                 /\ Tells(H[q.number - 1], q.packet, H[q.number])

IsHistory(v, N, c, n, r, H) ==
  /\ n \in Nat /\ r \in 0 .. n
  /\ H \in [0 .. n -> Views]
  /\ H[r] = ViewOf(c)
  /\ Announced(v, H[n])
  /\ \A q \in N : Step(H, n, q)

LEMMA ViewIsView ==
  ASSUME NEW s, NEW c, ClientOK(s, c)
  PROVE  ViewOf(c) \in Views
<1>1. ASSUME NEW kind \in Kinds PROVE SeenAll(kind, ShownOf(c, kind)) \in SUBSET Sights
  <2>1. c.held[kind].list \in Seq(Things)
    BY ClientIs
  <2>2. ShownOf(c, kind) \subseteq Things
    <3>1. ToSet(c.held[kind].list) = {c.held[kind].list[n] : n \in 1 .. Len(c.held[kind].list)}
      BY <2>1 DEF ToSet
    <3> QED
      BY <2>1, <3>1 DEF ShownOf
  <2>3. \A o \in ShownOf(c, kind) : Seen(kind, o) \in Sights
    <3>1. \A o \in Things : o.sid \in Int /\ o.place \in Int /\ o.id \in Ids
      BY DEF Things
    <3> QED
      BY <2>2, <3>1, SeenIsSight
  <2> QED
    BY <2>3 DEF SeenAll
<1> QED
  BY <1>1 DEF ViewOf, Views

(* The server sends more: w is what has become of it. *)
LEMMA HistoryGrows ==
  ASSUME NEW v, NEW N, NEW c, NEW n, NEW r, NEW H, IsHistory(v, N, c, n, r, H),
         NEW S, S \subseteq N, NEW added, added \in Seq(ToSet(added)),
         NEW B, Leads(H[n], added, B), NEW w, Announced(w, B),
         NEW M, M = S \cup {[packet |-> added[i], number |-> n + i] : i \in DOMAIN added}
  PROVE  \E J : IsHistory(w, M, c, n + Len(added), r, J)
<1>1. PICK m : m = Len(added)
  OBVIOUS
<1>2. m \in Nat /\ DOMAIN added = 1 .. m /\ n \in Nat /\ r \in 0 .. n
  BY <1>1 DEF IsHistory
<1>3. PICK G : IsWay(H[n], added, B, G)
  BY DEF Leads
<1>4. /\ G \in [0 .. m -> Views] /\ G[0] = H[n] /\ G[m] = B
      /\ \A i \in 1 .. m : i - 1 \in 0 .. m /\ Tells(G[i - 1], added[i], G[i])
  BY <1>1, <1>3 DEF IsWay
<1>5. PICK J : /\ J \in [0 .. n + m -> Views]
               /\ \A i \in 0 .. n : i \in 0 .. n + m /\ J[i] = H[i]
               /\ \A i \in 0 .. m : n + i \in 0 .. n + m /\ J[n + i] = G[i]
  <2>1. H[n] = G[0] /\ H \in [0 .. n -> Views] /\ G \in [0 .. m -> Views]
    BY <1>4 DEF IsHistory
  <2>2. \E J : Joins(Views, n, H, m, G, J)
    BY ONLY <1>2, <2>1, JoinWays, Zenon
  <2> QED
    BY <2>2 DEF Joins
<1>6. J[r] = ViewOf(c)
  BY <1>2, <1>5 DEF IsHistory
<1>7. Announced(w, J[n + m])
  <2>1. m \in 0 .. m
    BY <1>2
  <2> QED
    BY <1>4, <1>5, <2>1
<1>8. ASSUME NEW q \in S PROVE Step(J, n + m, q)
  <2>1. Step(H, n, q)
    BY DEF IsHistory
  <2>2. q.number \in 1 .. n /\ q.number - 1 \in 0 .. n /\ q.number \in 0 .. n
    BY <1>2, <2>1 DEF Step
  <2>3. q.number \in 1 .. n + m
    BY <1>2, <2>2
  <2> QED
    BY <1>5, <2>1, <2>2, <2>3 DEF Step
<1>9. ASSUME NEW i \in 1 .. m PROVE Step(J, n + m, [packet |-> added[i], number |-> n + i])
  <2>1. /\ i \in 0 .. m /\ i - 1 \in 0 .. m /\ (n + i) - 1 = n + (i - 1) /\ n + i \in 1 .. n + m
    BY <1>2
  <2> QED
    BY <1>4, <1>5, <2>1 DEF Step
<1>10. \A q \in M : Step(J, n + m, q)
  BY <1>2, <1>8, <1>9
<1>11. n + m \in Nat /\ r \in 0 .. n + m
  BY <1>2
<1> QED
  BY <1>1, <1>5, <1>6, <1>7, <1>10, <1>11 DEF IsHistory

(* The client reads the next packet. *)
LEMMA HistoryRead ==
  ASSUME NEW v, NEW N, NEW s, NEW c, ClientOK(s, c), NEW n, NEW r, NEW H, IsHistory(v, N, c, n, r, H),
         NEW q \in N, q.number = r + 1, PacketOK(s, q.packet), ~ Late(c, q.packet.fseq),
         NEW d \in ProcessOSC(c, q.packet)
  PROVE  IsHistory(v, N, d, n, r + 1, H)
<1>1. PICK p : p = q.packet
  OBVIOUS
<1>2. Step(H, n, q) /\ n \in Nat /\ r \in 0 .. n /\ H[r] = ViewOf(c) /\ H \in [0 .. n -> Views]
  BY DEF IsHistory
<1>3. r + 1 \in 0 .. n /\ (r + 1) - 1 = r
  BY <1>2 DEF Step
<1>4. Tells(ViewOf(c), p, H[r + 1])
  BY <1>1, <1>2, <1>3 DEF Step
<1>5. PICK kind : kind = p.kind
  OBVIOUS
<1>6. PICK V, sets, alive : V = ViewOf(c) /\ sets = ToSet(p.sets) /\ alive = p.alive
  OBVIOUS
<1>7. Agrees(V[kind], kind, sets) /\ H[r + 1] = [V EXCEPT ![kind] = Merged(V[kind], kind, sets, alive)]
  BY <1>4, <1>5, <1>6 DEF Tells
<1>8. kind \in Kinds /\ p.sets \in Seq(Messages) /\ OnePerSid(p.sets)
  BY <1>1, <1>5 DEF PacketOK
<1>9. PICK L, M : L = ShownOf(c, kind) /\ M = ShownOf(d, kind)
  OBVIOUS
<1>10. /\ Outcome(kind, L, sets, alive, M)
       /\ \A k \in Kinds \ {kind} : ShownOf(d, k) = ShownOf(c, k)
  <2>1. /\ \A k \in Kinds \ {p.kind} : ShownOf(d, k) = ShownOf(c, k)
        /\ Outcome(p.kind, ShownOf(c, p.kind), ToSet(p.sets), p.alive, ShownOf(d, p.kind))
    BY <1>1, ProcessIs
  <2> QED
    BY <1>5, <1>6, <1>9, <2>1
<1>11. Apart(L) /\ Apart(sets)
  <2>1. c.held[kind].list \in Seq(Things) /\ OnePerSid(c.held[kind].list)
    BY <1>8, ClientIs
  <2> QED
    BY <1>6, <1>8, <1>9, <2>1, OnePerSidIs DEF ShownOf
<1>12. V[kind] = SeenAll(kind, L)
  BY <1>6, <1>8, <1>9 DEF ViewOf
<1>15. Agrees(SeenAll(kind, L), kind, sets) /\ Outcome(kind, L, sets, alive, M)
  <2>1. Agrees(V[kind], kind, sets)
    BY <1>7
  <2>2. Agrees(SeenAll(kind, L), kind, sets)
    BY ONLY <1>12, <2>1, Zenon
  <2> QED
    BY <1>10, <2>2, Zenon
<1>13. SeenAll(kind, M) = Merged(SeenAll(kind, L), kind, sets, alive)
  BY ONLY <1>11, <1>15, OutcomeIsMerged
<1>14. H[r + 1] = ViewOf(d)
  <2>1. H[r + 1] = [V EXCEPT ![kind] = SeenAll(kind, M)]
    BY <1>7, <1>12, <1>13
  <2>2. V = [k \in Kinds |-> SeenAll(k, ShownOf(c, k))]
    BY <1>6 DEF ViewOf
  <2>3. \A k \in Kinds \ {kind} : SeenAll(k, ShownOf(d, k)) = SeenAll(k, ShownOf(c, k))
    BY <1>10
  <2> QED
    BY <1>8, <1>9, <2>1, <2>2, <2>3 DEF ViewOf
<1> QED
  BY <1>2, <1>3, <1>14 DEF IsHistory
-----------------------------------------------------------------------------
(* The inductive invariant, for the one server s.                          *)

TableOK(table, session) == /\ OnePerSid(table)
                           /\ \A m \in ToSet(table) : m.sid <= session

ServerOK(v) ==
  /\ v = [mode |-> v.mode, table |-> v.table, hidden |-> v.hidden, whole |-> v.whole,
          session |-> v.session, currentFrame |-> v.currentFrame]
  /\ v.mode \in Modes
  /\ v.table \in [v.mode.profiles -> Seq(Messages)]
  /\ v.hidden = [kind \in v.mode.profiles |-> v.hidden[kind]]
  /\ "object" \in v.mode.profiles => v.hidden["object"] = {}
  /\ v.session \in Int
  /\ v.currentFrame \in Int
  /\ \A kind \in v.mode.profiles : TableOK(v.table[kind], v.session)

(* As long as nothing was restarted, Y has the marker that a session has.  *)
Claim(o) == [sid |-> o.sid, id |-> o.id]

IsClaim(v, N, c, Y) ==
  /\ \A y, z \in Y : y.sid = z.sid => y.id = z.id
  /\ \A o \in ShownOf(c, "object") : Claim(o) \in Y
  /\ \A q \in N : q.packet.kind = "object" => \A m \in ToSet(q.packet.sets) : Claim(m) \in Y
  /\ \A y \in Y : v # Down /\ y.sid \in Int /\ y.sid <= v.session
  /\ v # Down /\ "object" \in v.mode.profiles => \A m \in ToSet(v.table["object"]) : Claim(m) \in Y

ServerInv(s) == /\ server = [x \in {s} |-> server[s]]
                /\ server[s] # Down => ServerOK(server[s])
CountersInv == events \in Nat /\ clock \in Int /\ sent \in Nat
ClientInv(s) == ClientOK(s, client)
NetInv(s) == \A q \in net : PacketOK(s, q.packet)
HistoryInv(s) == read # Disorder => \E H : IsHistory(server[s], net, client, sent, read, H)
ClaimInv(s) == events = 0 => \E Y : IsClaim(server[s], net, client, Y)

IInv(s) == /\ ServerInv(s)
           /\ CountersInv
           /\ ClientInv(s)
           /\ NetInv(s)
           /\ HistoryInv(s)
           /\ ClaimInv(s)

LEMMA ProfilesAre ==
  ASSUME NEW mode \in Modes
  PROVE  mode.profiles \in SUBSET Kinds
  BY ModesAssumption

LEMMA MessagesAre ==
  ASSUME NEW ms \in Seq(Messages)
  PROVE  ToSet(ms) \subseteq Messages /\ \A m \in ToSet(ms) : m.sid \in Int
<1>1. ToSet(ms) \subseteq Messages
  BY DEF ToSet
<1> QED
  BY <1>1 DEF Messages

LEMMA SeenMessages ==
  ASSUME NEW kind, NEW ms \in Seq(Messages)
  PROVE  SeenAll(kind, ToSet(ms)) \in SUBSET Sights
<1>1. ToSet(ms) \subseteq Messages
  BY MessagesAre
<1> QED
  BY <1>1, SeenIsSight DEF SeenAll, Messages

(* What is listed, and what was told. *)
LEMMA ListedIs ==
  ASSUME NEW table \in Seq(Messages), OnePerSid(table), NEW hidden, NEW list, list = Listed(table, hidden)
  PROVE  /\ list \in Seq(Messages) /\ OnePerSid(list) /\ ToSet(list) \subseteq ToSet(table)
         /\ hidden = {} => ToSet(list) = ToSet(table)
<1>1. PICK keep : keep = {e \in ToSet(table) : e.sid \notin hidden}
  OBVIOUS
<1>2. list = Chosen(table, keep)
  BY <1>1 DEF Listed
<1>3. OnePerSid(list)
  BY <1>2, OnePerSidChosen
<1>4. list \in Seq(Messages) /\ ToSet(list) = ToSet(table) \cap keep
  BY <1>2, ChosenFacts
<1> QED
  BY <1>1, <1>3, <1>4

LEMMA ToldIs ==
  ASSUME NEW v, ServerOK(v), NEW kind \in v.mode.profiles, NEW told, told = Told(v, kind)
  PROVE  /\ told \in Seq(Messages) /\ OnePerSid(told) /\ ToSet(told) \subseteq ToSet(v.table[kind])
         /\ ToSet(Listed(v.table[kind], v.hidden[kind])) \subseteq ToSet(told)
         /\ kind = "object" => ToSet(told) = ToSet(v.table[kind])
<1>1. PICK table, hidden, list : /\ table = v.table[kind] /\ hidden = v.hidden[kind]
                                 /\ list = Listed(table, hidden)
  OBVIOUS
<1>2. table \in Seq(Messages) /\ OnePerSid(table) /\ (kind = "object" => hidden = {})
  BY <1>1 DEF ServerOK, TableOK
<1>3. /\ list \in Seq(Messages) /\ OnePerSid(list) /\ ToSet(list) \subseteq ToSet(table)
      /\ hidden = {} => ToSet(list) = ToSet(table)
  BY <1>1, <1>2, ListedIs
<1>4. told = IF kind \in v.whole THEN table ELSE list
  BY <1>1 DEF Told
<1>5. CASE kind \in v.whole
  BY <1>1, <1>2, <1>3, <1>4, <1>5
<1>6. CASE kind \notin v.whole
  BY <1>1, <1>2, <1>3, <1>4, <1>6
<1> QED
  BY <1>5, <1>6

LEMMA NewClientIs ==
  ASSUME NEW s
  PROVE  ClientOK(s, NewClient) /\ \A kind \in Kinds : ShownOf(NewClient, kind) = {}
<1>1. PICK max : max = [n \in {0} |-> -1]
  OBVIOUS
<1>2. max \in [{0} -> Int] /\ max[0] = -1
  BY <1>1
<1>3. PICK h : h = [list |-> <<>>, free |-> <<>>, max |-> max]
  OBVIOUS
<1>4. h \in Shelves /\ h.list = <<>> /\ h.free = <<>> /\ h.max[0] = -1 /\ ToSet(<<>>) = {}
  BY <1>2, <1>3 DEF Shelves, ToSet
<1>5. Numbered(h) /\ OnePerSid(h.list)
  <2>1. PoolOK({}, {}, -1)
    BY DEF PoolOK
  <2>2. Distinct(<<>>) /\ OnePerSid(<<>>)
    BY DEF Distinct, OnePerSid
  <2> QED
    BY <1>4, <2>1, <2>2 DEF Numbered
<1>6. NewClient = [sourceList |-> <<>>, source_id |-> 0, currentFrame |-> -1,
                   held |-> [kind \in Kinds |-> h]]
  BY <1>1, <1>3 DEF NewClient
<1>7. \A kind \in Kinds : NewClient.held[kind] = h
  BY <1>6
<1>8. NewClient \in Clients(s) /\ NewClient.sourceList = <<>>
  BY <1>4, <1>6 DEF Clients
<1>9. \A kind \in Kinds : ShelfOK(kind, NewClient.held[kind])
  BY <1>4, <1>5, <1>7 DEF ShelfOK
<1>10. \A kind \in Kinds : ToSet(NewClient.held[kind].list) = {}
  BY <1>4, <1>7
<1> QED
  BY <1>8, <1>9, <1>10 DEF ClientOK, Shelved, ShownOf

LEMMA InitKeeps ==
  ASSUME NEW s, Sources = {s}, Init
  PROVE  IInv(s)
<1>1. /\ server = [x \in {s} |-> Down] /\ net = {} /\ client = NewClient
      /\ clock = 0 /\ events = 0 /\ sent = 0 /\ read = 0
  BY DEF Init
<1>2. server[s] = Down /\ ServerInv(s)
  BY <1>1 DEF ServerInv
<1>3. CountersInv /\ NetInv(s)
  BY <1>1 DEF CountersInv, NetInv
<1>4. ClientInv(s) /\ \A kind \in Kinds : ShownOf(client, kind) = {}
  BY <1>1, NewClientIs DEF ClientInv
<1>5. ViewOf(client) \in Views
  BY <1>4, ViewIsView DEF ClientInv
<1>6. HistoryInv(s)
  <2> DEFINE H == [n \in 0 .. 0 |-> ViewOf(client)]
  <2>1. H \in [0 .. 0 -> Views] /\ H[0] = ViewOf(client)
    BY <1>5
  <2> HIDE DEF H
  <2>2. IsHistory(server[s], net, client, sent, read, H)
    BY <1>1, <1>2, <2>1 DEF IsHistory, Announced
  <2> QED
    BY <2>2 DEF HistoryInv
<1>7. ClaimInv(s)
  <2>1. IsClaim(server[s], net, client, {})
    BY <1>1, <1>2, <1>4 DEF IsClaim, Kinds
  <2> QED
    BY <2>1 DEF ClaimInv
<1> QED
  BY <1>2, <1>3, <1>4, <1>6, <1>7 DEF IInv

(* Packets of the server are sent, and others arrive no more. *)
LEMMA NetworkIs ==
  ASSUME NEW s, CountersInv, NEW S, \A q \in S : PacketOK(s, q.packet),
         NEW added, Bundled(s, added), NEW stays, Network(S, added, stays)
  PROVE  /\ sent' \in Nat
         /\ NetInv(s)'
         /\ \A q \in net' : \/ \E p \in S : q.packet = p.packet
                            \/ q.packet \in ToSet(added)
<1>1. PICK m : m = Len(added)
  OBVIOUS
<1>2. m \in Nat /\ DOMAIN added = 1 .. m /\ ToSet(added) = {added[n] : n \in DOMAIN added}
  BY <1>1 DEF Bundled, ToSet
<1>3. sent' \in Nat
  BY <1>1, <1>2 DEF Network, CountersInv
<1>4. \A q \in net' : \/ \E p \in S : q.packet = p.packet
                      \/ q.packet \in ToSet(added)
  <2>1. CASE InOrder(S, stays)
    <3>1. net' = S \cup {[packet |-> added[n], number |-> sent + n] : n \in DOMAIN added}
      BY <2>1 DEF Network
    <3> QED
      BY <1>2, <3>1
  <2>2. CASE ~ InOrder(S, stays)
    <3>1. net' = {[packet |-> q.packet, number |-> 0] : q \in S}
                   \cup {[packet |-> added[n], number |-> 0] : n \in DOMAIN added}
      BY <2>2 DEF Network
    <3> QED
      BY <1>2, <3>1
  <2> QED
    BY <2>1, <2>2
<1>5. \A q \in net' : PacketOK(s, q.packet)
  <2> SUFFICES ASSUME NEW q \in net' PROVE PacketOK(s, q.packet)
    OBVIOUS
  <2>1. CASE \E p \in S : q.packet = p.packet
    BY <2>1
  <2>2. CASE q.packet \in ToSet(added)
    BY <2>2 DEF Bundled
  <2> QED
    BY <1>4, <2>1, <2>2
<1> QED
  BY <1>3, <1>4, <1>5 DEF NetInv

LEMMA SendKeepsHistory ==
  ASSUME NEW s, CountersInv, HistoryInv(s), NEW S, S \subseteq net,
         NEW added, Bundled(s, added), Network(S, added, read), NEW w,
         \A H : IsHistory(server[s], net, client, sent, read, H) =>
                  \E B : Leads(H[sent], added, B) /\ Announced(w, B)
  PROVE  read' # Disorder => \E J : IsHistory(w, net', client, sent', read', J)
<1> SUFFICES ASSUME read' # Disorder
             PROVE  \E J : IsHistory(w, net', client, sent', read', J)
  OBVIOUS
<1>1. InOrder(S, read)
  BY DEF Network
<1>2. read # Disorder
  BY <1>1 DEF InOrder
<1>3. PICK H : IsHistory(server[s], net, client, sent, read, H)
  BY <1>2 DEF HistoryInv
<1>4. PICK B : Leads(H[sent], added, B) /\ Announced(w, B)
  BY <1>3
<1>5. /\ net' = S \cup {[packet |-> added[n], number |-> sent + n] : n \in DOMAIN added}
      /\ sent' = sent + Len(added) /\ read' = read
  BY <1>1 DEF Network
<1>6. PICK v, N, c, n, r : v = server[s] /\ N = net /\ c = client /\ n = sent /\ r = read
  OBVIOUS
<1>7. PICK M : M = S \cup {[packet |-> added[i], number |-> n + i] : i \in DOMAIN added}
  OBVIOUS
<1>8. /\ IsHistory(v, N, c, n, r, H) /\ S \subseteq N /\ added \in Seq(ToSet(added))
      /\ Leads(H[n], added, B) /\ Announced(w, B)
  BY <1>3, <1>4, <1>6 DEF Bundled
<1>9. \E J : IsHistory(w, M, c, n + Len(added), r, J)
  BY ONLY <1>7, <1>8, HistoryGrows, Zenon
<1> QED
  BY <1>5, <1>6, <1>7, <1>9
-----------------------------------------------------------------------------
(* A server starts, ends, or sends all there is. *)

LEMMA EmptyBundlesAre ==
  ASSUME NEW s, NEW mode \in Modes, NEW frame,
         NEW ps, ps = EmptyBundles(s, mode, frame)
  PROVE  /\ Bundled(s, ps)
         /\ \A p \in ToSet(ps) : ToSet(p.sets) = {}
         /\ \A A \in Views : \E B : /\ Leads(A, ps, B)
                                    /\ \A kind \in mode.profiles : B[kind] = {}
<1> DEFINE Empty(kind) == Parts(s, kind, <<>>, <<>>, -1, frame)
<1>1. PICK on : on = mode.profiles
  OBVIOUS
<1>2. on \in SUBSET Kinds
  BY <1>1, ProfilesAre
<1>3. PICK pc, po, pb : /\ pc = (IF "cursor" \in on THEN Empty("cursor") ELSE <<>>)
                        /\ po = (IF "object" \in on THEN Empty("object") ELSE <<>>)
                        /\ pb = (IF "blob" \in on THEN Empty("blob") ELSE <<>>)
  OBVIOUS
<1>4. ps = pc \o po \o pb
  BY <1>1, <1>3 DEF EmptyBundles
<1>5. ASSUME NEW kind \in Kinds, NEW p, p = (IF kind \in on THEN Empty(kind) ELSE <<>>)
      PROVE  /\ Bundled(s, p)
             /\ \A q \in ToSet(p) : ToSet(q.sets) = {}
             /\ \A A : kind \in on => Turns(A, kind, p, NoView)
             /\ kind \notin on => p = <<>>
  <2>1. CASE kind \in on
    <3>1. p = Parts(s, kind, <<>>, <<>>, -1, frame)
      BY <1>5, <2>1
    <3> QED
      BY <2>1, <3>1, EmptyTurns
  <2>2. CASE kind \notin on
    <3>1. p = <<>>
      BY <1>5, <2>2
    <3> QED
      BY <2>2, <3>1, NoneBundled
  <2> QED
    BY <2>1, <2>2
<1> HIDE DEF Empty
<1>6. "cursor" \in Kinds /\ "object" \in Kinds /\ "blob" \in Kinds
  BY DEF Kinds
<1>7. /\ Bundled(s, pc) /\ \A q \in ToSet(pc) : ToSet(q.sets) = {}
      /\ \A A : "cursor" \in on => Turns(A, "cursor", pc, NoView)
      /\ "cursor" \notin on => pc = <<>>
  BY <1>3, <1>5, <1>6
<1>8. /\ Bundled(s, po) /\ \A q \in ToSet(po) : ToSet(q.sets) = {}
      /\ \A A : "object" \in on => Turns(A, "object", po, NoView)
      /\ "object" \notin on => po = <<>>
  BY <1>3, <1>5, <1>6
<1>9. /\ Bundled(s, pb) /\ \A q \in ToSet(pb) : ToSet(q.sets) = {}
      /\ \A A : "blob" \in on => Turns(A, "blob", pb, NoView)
      /\ "blob" \notin on => pb = <<>>
  BY <1>3, <1>5, <1>6
<1>10. PICK pco : pco = pc \o po
  OBVIOUS
<1>11. Bundled(s, pco) /\ ToSet(pco) = ToSet(pc) \cup ToSet(po)
  BY <1>7, <1>8, <1>10, BundledConcat
<1>12. Bundled(s, ps) /\ ToSet(ps) = ToSet(pco) \cup ToSet(pb)
  BY <1>4, <1>9, <1>10, <1>11, BundledConcat
<1>13. \A p \in ToSet(ps) : ToSet(p.sets) = {}
  BY <1>7, <1>8, <1>9, <1>11, <1>12
<1>14. ASSUME NEW A \in Views
       PROVE  \E B : Leads(A, ps, B) /\ \A kind \in on : B[kind] = {}
  <2>1. NoView \in Views
    BY DEF NoView, Views
  <2>2. Settles(A, pc \o po \o pb, on, NoView)
    <3>1. PICK X : X = NoView
      OBVIOUS
    <3>2. /\ A \in Views /\ X \in Views /\ on \in SUBSET Kinds
          /\ Bundled(s, pc) /\ Bundled(s, po) /\ Bundled(s, pb)
          /\ "cursor" \in on => Turns(A, "cursor", pc, X)
          /\ "cursor" \notin on => pc = <<>>
          /\ "object" \in on => Turns(A, "object", po, X)
          /\ "object" \notin on => po = <<>>
          /\ "blob" \in on => Turns(A, "blob", pb, X)
          /\ "blob" \notin on => pb = <<>>
      BY <1>2, <1>7, <1>8, <1>9, <2>1, <3>1
    <3>3. Settles(A, pc \o po \o pb, on, X)
      BY ONLY <3>2, ThreeLead, Zenon
    <3> QED
      BY <3>1, <3>3
  <2>3. \A kind \in on : NoView[kind] = {}
    BY <1>2 DEF NoView
  <2> QED
    BY <1>4, <2>2, <2>3 DEF Settles
<1> QED
  BY <1>1, <1>12, <1>13, <1>14

LEMMA StartKeeps ==
  ASSUME NEW s, IInv(s), Start(s)
  PROVE  IInv(s)'
<1>1. PICK mode \in Modes :
         /\ server' = [server EXCEPT ![s] = Booted(mode)]
         /\ Network({q \in net : q.packet.source # s}, EmptyBundles(s, mode, 0), read)
  BY DEF Start
<1>2. PICK w, ps, S : /\ w = Booted(mode) /\ ps = EmptyBundles(s, mode, 0)
                      /\ S = {q \in net : q.packet.source # s}
  OBVIOUS
<1>3. server[s] = Down /\ client' = client /\ clock' = clock /\ events' = events
  BY DEF Start
<1>4. server' = [x \in {s} |-> w] /\ server'[s] = w
  BY <1>1, <1>2 DEF IInv, ServerInv
<1>5. /\ w = [mode |-> mode, table |-> [kind \in mode.profiles |-> <<>>],
              hidden |-> [kind \in mode.profiles |-> {}], whole |-> {},
              session |-> -1, currentFrame |-> 0]
      /\ w.mode = mode /\ w.session = -1
      /\ \A kind \in mode.profiles : w.table[kind] = <<>>
  BY <1>2 DEF Booted
<1>6. ToSet(<<>>) = {}
  BY DEF ToSet
<1>7. ServerOK(w)
  <2>1. <<>> \in Seq(Messages) /\ OnePerSid(<<>>)
    BY DEF OnePerSid
  <2>2. \A kind \in mode.profiles : TableOK(w.table[kind], w.session)
    BY <1>5, <1>6, <2>1 DEF TableOK
  <2>3. /\ w.table = [kind \in mode.profiles |-> <<>>] /\ w.currentFrame = 0
        /\ w.hidden = [kind \in mode.profiles |-> {}] /\ w.whole = {}
    BY <1>5
  <2>4. /\ w.hidden = [kind \in mode.profiles |-> w.hidden[kind]]
        /\ "object" \in mode.profiles => w.hidden["object"] = {}
    BY <2>3
  <2>5. w = [mode |-> w.mode, table |-> w.table, hidden |-> w.hidden, whole |-> w.whole,
             session |-> w.session, currentFrame |-> w.currentFrame]
    BY <1>5, <2>3
  <2> QED
    BY <1>5, <2>1, <2>2, <2>3, <2>4, <2>5 DEF ServerOK
<1>8. /\ Bundled(s, ps)
      /\ \A p \in ToSet(ps) : ToSet(p.sets) = {}
      /\ \A A \in Views : \E B : Leads(A, ps, B) /\ \A kind \in mode.profiles : B[kind] = {}
  BY <1>2, EmptyBundlesAre
<1>9. S \subseteq net /\ Network(S, ps, read) /\ CountersInv
  BY <1>1, <1>2 DEF IInv
<1>10. \A q \in S : PacketOK(s, q.packet)
  BY <1>9 DEF IInv, NetInv
<1>11. /\ sent' \in Nat /\ NetInv(s)'
       /\ \A q \in net' : \/ \E p \in S : q.packet = p.packet
                          \/ q.packet \in ToSet(ps)
  BY <1>8, <1>9, <1>10, NetworkIs
<1>12. HistoryInv(s)'
  <2>1. ASSUME NEW H, IsHistory(server[s], net, client, sent, read, H)
        PROVE  \E B : Leads(H[sent], ps, B) /\ Announced(w, B)
    <3>1. H[sent] \in Views
      BY <2>1 DEF IsHistory
    <3>2. PICK B : Leads(H[sent], ps, B) /\ \A kind \in mode.profiles : B[kind] = {}
      BY <1>8, <3>1
    <3>3. \A kind \in mode.profiles : ToSet(Told(w, kind)) = {}
      BY <1>5, <1>6, <1>7, ToldIs
    <3>4. \A kind : SeenAll(kind, {}) = {}
      BY DEF SeenAll
    <3>5. Announced(w, B)
      BY <1>5, <3>2, <3>3, <3>4 DEF Announced
    <3> QED
      BY <3>2, <3>5
  <2>2. HistoryInv(s)
    BY DEF IInv
  <2>3. read' # Disorder => \E J : IsHistory(w, net', client, sent', read', J)
    BY <1>8, <1>9, <2>1, <2>2, SendKeepsHistory
  <2> QED
    BY <1>3, <1>4, <2>3 DEF HistoryInv
<1>13. ClaimInv(s)'
  <2> SUFFICES ASSUME events' = 0 PROVE \E Y : IsClaim(w, net', client, Y)
    BY <1>3, <1>4 DEF ClaimInv
  <2>1. PICK Y : IsClaim(server[s], net, client, Y)
    BY <1>3 DEF IInv, ClaimInv
  <2>2. Y = {}
    BY <1>3, <2>1 DEF IsClaim
  <2>3. \A q \in net' : q.packet.kind = "object" => \A m \in ToSet(q.packet.sets) : Claim(m) \in Y
    <3> SUFFICES ASSUME NEW q \in net', q.packet.kind = "object", NEW m \in ToSet(q.packet.sets)
                 PROVE  Claim(m) \in Y
      OBVIOUS
    <3>1. CASE \E p \in S : q.packet = p.packet
      BY <1>9, <2>1, <3>1 DEF IsClaim
    <3>2. CASE q.packet \in ToSet(ps)
      BY <1>8, <3>2
    <3> QED
      BY <1>11, <3>1, <3>2
  <2>4. IsClaim(w, net', client, Y)
    BY <1>5, <1>6, <2>1, <2>2, <2>3 DEF IsClaim
  <2> QED
    BY <2>4
<1>14. ServerInv(s)' /\ CountersInv' /\ ClientInv(s)'
  BY <1>3, <1>4, <1>7, <1>11 DEF IInv, ServerInv, CountersInv, ClientInv
<1> QED
  BY <1>11, <1>12, <1>13, <1>14 DEF IInv

(* A server that is down, and counted as an event. *)
LEMMA DownKeeps ==
  ASSUME NEW s, IInv(s), server' = [server EXCEPT ![s] = Down], events' = events + 1,
         clock' = clock, client' = client,
         sent' \in Nat, NetInv(s)',
         read' # Disorder => \E J : IsHistory(Down, net', client, sent', read', J)
  PROVE  IInv(s)'
<1>1. server' = [x \in {s} |-> Down] /\ server'[s] = Down
  BY DEF IInv, ServerInv
<1>2. ServerInv(s)' /\ CountersInv' /\ ClientInv(s)'
  BY <1>1 DEF IInv, ServerInv, CountersInv, ClientInv
<1>3. HistoryInv(s)'
  BY <1>1 DEF HistoryInv
<1>4. ClaimInv(s)'
  BY DEF IInv, CountersInv, ClaimInv
<1> QED
  BY <1>2, <1>3, <1>4 DEF IInv

LEMMA CrashKeeps ==
  ASSUME NEW s, IInv(s), Crash(s)
  PROVE  IInv(s)'
<1>1. /\ server' = [server EXCEPT ![s] = Down] /\ events' = events + 1
      /\ net' = net /\ client' = client /\ clock' = clock /\ sent' = sent /\ read' = read
  BY DEF Crash
<1>2. sent' \in Nat /\ NetInv(s)'
  BY <1>1 DEF IInv, CountersInv, NetInv
<1>3. read' # Disorder => \E J : IsHistory(Down, net', client, sent', read', J)
  <2> SUFFICES ASSUME read # Disorder PROVE \E J : IsHistory(Down, net, client, sent, read, J)
    BY <1>1
  <2>1. PICK H : IsHistory(server[s], net, client, sent, read, H)
    BY DEF IInv, HistoryInv
  <2>2. IsHistory(Down, net, client, sent, read, H)
    BY <2>1 DEF IsHistory, Announced
  <2> QED
    BY <2>2
<1> QED
  BY <1>1, <1>2, <1>3, DownKeeps

LEMMA ShutdownKeeps ==
  ASSUME NEW s, IInv(s), Shutdown(s)
  PROVE  IInv(s)'
<1>1. PICK frame : frame = server[s].currentFrame + 2
  OBVIOUS
<1>2. PICK ps, S : /\ ps = EmptyBundles(s, server[s].mode, frame)
                   /\ S = {q \in net : q.packet.source = s => frame - q.packet.frame <= MaxDelay}
  OBVIOUS
<1>3. /\ server[s] # Down /\ server' = [server EXCEPT ![s] = Down] /\ events' = events + 1
      /\ client' = client /\ clock' = clock
      /\ Network(S, ps, read)
  BY <1>1, <1>2 DEF Shutdown, Deliver
<1>4. server[s].mode \in Modes
  BY <1>3 DEF IInv, ServerInv, ServerOK
<1>5. /\ Bundled(s, ps)
      /\ \A A \in Views : \E B : Leads(A, ps, B)
  BY <1>2, <1>4, EmptyBundlesAre
<1>6. S \subseteq net /\ \A q \in S : PacketOK(s, q.packet)
  BY <1>2 DEF IInv, NetInv
<1>7. CountersInv /\ HistoryInv(s)
  BY DEF IInv
<1>8. sent' \in Nat /\ NetInv(s)'
  BY <1>3, <1>5, <1>6, <1>7, NetworkIs
<1>9. read' # Disorder => \E J : IsHistory(Down, net', client, sent', read', J)
  <2>1. ASSUME NEW H, IsHistory(server[s], net, client, sent, read, H)
        PROVE  \E B : Leads(H[sent], ps, B) /\ Announced(Down, B)
    <3>1. H[sent] \in Views
      BY <2>1 DEF IsHistory
    <3> QED
      BY <1>5, <3>1 DEF Announced
  <2> QED
    BY <1>3, <1>5, <1>6, <1>7, <2>1, SendKeepsHistory
<1> QED
  BY <1>3, <1>8, <1>9, DownKeeps
-----------------------------------------------------------------------------
LEMMA UpIsNotDown ==
  ASSUME NEW m, NEW t, NEW h, NEW o, NEW e, NEW f
  PROVE  [mode |-> m, table |-> t, hidden |-> h, whole |-> o, session |-> e, currentFrame |-> f] # Down
<1>1. "mode" \in DOMAIN [mode |-> m, table |-> t, hidden |-> h, whole |-> o, session |-> e,
                         currentFrame |-> f]
  OBVIOUS
<1>2. "mode" \notin DOMAIN Down
  BY DEF Down
<1> QED
  BY <1>1, <1>2

LEMMA TablesAre ==
  ASSUME NEW v, ServerOK(v), NEW kind \in v.mode.profiles
  PROVE  /\ v.table[kind] \in Seq(Messages) /\ OnePerSid(v.table[kind])
         /\ \A m \in ToSet(v.table[kind]) : m.sid <= v.session
         /\ kind \in Kinds
<1>1. v.table[kind] \in Seq(Messages)
  BY DEF ServerOK
<1>2. TableOK(v.table[kind], v.session) /\ v.mode \in Modes
  BY DEF ServerOK
<1> QED
  BY <1>1, <1>2, ProfilesAre DEF TableOK

(* All there is of a kind. *)
LEMMA EverythingIs ==
  ASSUME NEW v, ServerOK(v), NEW kind \in Kinds, NEW all, all = Everything(v, kind)
  PROVE  /\ all \in Seq(Messages) /\ OnePerSid(all)
         /\ kind \in v.mode.profiles => all = v.table[kind]
         /\ kind \notin v.mode.profiles => all = <<>>
<1>1. <<>> \in Seq(Messages) /\ OnePerSid(<<>>)
  BY DEF OnePerSid
<1>2. all = IF kind \in v.mode.profiles THEN v.table[kind] ELSE <<>>
  BY DEF Everything
<1>3. CASE kind \in v.mode.profiles
  BY <1>2, <1>3, TablesAre
<1>4. CASE kind \notin v.mode.profiles
  BY <1>1, <1>2, <1>4
<1> QED
  BY <1>3, <1>4

(* The server v has sent all there is. *)
Completed(v) == [mode |-> v.mode, table |-> v.table, hidden |-> v.hidden, whole |-> Kinds,
                 session |-> v.session, currentFrame |-> v.currentFrame]

LEMMA CompletedIs ==
  ASSUME NEW v, ServerOK(v), NEW w, w = Completed(v)
  PROVE  /\ ServerOK(w) /\ w # Down
         /\ w.mode = v.mode /\ w.table = v.table /\ w.session = v.session
         /\ w.currentFrame = v.currentFrame
         /\ \A kind \in w.mode.profiles : Told(w, kind) = v.table[kind]
         /\ w = [v EXCEPT !.whole = Kinds]
<1>1. PICK m, t, h, o, e, f : /\ m = v.mode /\ t = v.table /\ h = v.hidden /\ o = v.whole
                              /\ e = v.session /\ f = v.currentFrame
  OBVIOUS
<1>2. /\ v = [mode |-> m, table |-> t, hidden |-> h, whole |-> o, session |-> e, currentFrame |-> f]
      /\ w = [mode |-> m, table |-> t, hidden |-> h, whole |-> Kinds, session |-> e, currentFrame |-> f]
  BY <1>1 DEF ServerOK, Completed
<1>3. /\ w.mode = m /\ w.table = t /\ w.hidden = h /\ w.whole = Kinds
      /\ w.session = e /\ w.currentFrame = f
  BY <1>2
<1>4. m \in Modes
  BY <1>1 DEF ServerOK
<1>5. \A kind \in m.profiles : Told(w, kind) = t[kind]
  BY <1>3, <1>4, ProfilesAre DEF Told
<1>6. w # Down
  BY <1>2, UpIsNotDown
<1>7. /\ t \in [m.profiles -> Seq(Messages)] /\ e \in Int /\ f \in Int
      /\ h = [kind \in m.profiles |-> h[kind]] /\ ("object" \in m.profiles => h["object"] = {})
      /\ \A kind \in m.profiles : TableOK(t[kind], e)
  BY <1>1 DEF ServerOK
<1>8. ServerOK(w)
  BY <1>2, <1>3, <1>4, <1>7 DEF ServerOK
<1>9. w = [v EXCEPT !.whole = Kinds]
  BY <1>2
<1> QED
  BY <1>1, <1>3, <1>5, <1>6, <1>8, <1>9

(* What is sent of a table v, in order to say all of it. *)
LEMMA AllBundlesAre ==
  ASSUME NEW s, NEW v, ServerOK(v), NEW frame, NEW A \in Views,
         \A kind \in v.mode.profiles : A[kind] = SeenAll(kind, ToSet(Told(v, kind))),
         NEW pc, pc = Parts(s, "cursor", Everything(v, "cursor"), Everything(v, "cursor"), -1, frame),
         NEW po, po = Parts(s, "object", Everything(v, "object"), Everything(v, "object"), -1, frame),
         NEW pb, pb = Parts(s, "blob", Everything(v, "blob"), Everything(v, "blob"), -1, frame),
         NEW w, w = Completed(v)
  PROVE  \E B : Leads(A, pc \o po \o pb, B) /\ Announced(w, B)
<1>1. PICK X : X = [kind \in Kinds |-> SeenAll(kind, ToSet(Everything(v, kind)))]
  OBVIOUS
<1>2. Kinds \in SUBSET Kinds /\ v.mode.profiles \in SUBSET Kinds
  BY ProfilesAre DEF ServerOK
<1>3. ASSUME NEW kind \in Kinds
      PROVE  /\ Turns(A, kind, Parts(s, kind, Everything(v, kind), Everything(v, kind), -1, frame), X)
             /\ Bundled(s, Parts(s, kind, Everything(v, kind), Everything(v, kind), -1, frame))
             /\ X[kind] \in SUBSET Sights
  <2>1. PICK all : all = Everything(v, kind)
    OBVIOUS
  <2>2. /\ all \in Seq(Messages) /\ OnePerSid(all)
        /\ kind \in v.mode.profiles => all = v.table[kind]
        /\ kind \notin v.mode.profiles => all = <<>>
    BY <2>1, EverythingIs
  <2>3. X[kind] = SeenAll(kind, ToSet(all))
    BY <1>1, <2>1
  <2>4. CASE kind \in v.mode.profiles
    <3>1. PICK told : told = Told(v, kind)
      OBVIOUS
    <3>2. told \in Seq(Messages) /\ OnePerSid(told) /\ ToSet(told) \subseteq ToSet(all)
      BY <2>2, <2>4, <3>1, ToldIs
    <3>3. A[kind] = SeenAll(kind, ToSet(told))
      BY <2>4, <3>1
    <3>4. /\ Turns(A, kind, Parts(s, kind, all, all, -1, frame), X)
          /\ Bundled(s, Parts(s, kind, all, all, -1, frame))
      BY <2>2, <2>3, <3>2, <3>3, FullTurns
    <3> QED
      BY <2>1, <2>2, <2>3, <3>4, SeenMessages
  <2>5. CASE kind \notin v.mode.profiles
    <3>1. all = <<>> /\ ToSet(all) = {}
      BY <2>2, <2>5 DEF ToSet
    <3>2. X[kind] = NoView[kind] /\ X[kind] = {}
      BY <2>3, <3>1 DEF NoView, SeenAll
    <3>3. PICK ps : ps = Parts(s, kind, all, all, -1, frame)
      OBVIOUS
    <3>4. Turns(A, kind, ps, NoView) /\ Bundled(s, ps)
      BY <3>1, <3>3, EmptyTurns
    <3>5. Turns(A, kind, ps, X)
      BY <3>2, <3>4 DEF Turns
    <3> QED
      BY <2>1, <3>2, <3>3, <3>4, <3>5
  <2> QED
    BY <2>4, <2>5
<1>4. "cursor" \in Kinds /\ "object" \in Kinds /\ "blob" \in Kinds
  BY DEF Kinds
<1>5. X \in Views
  BY <1>1, <1>3 DEF Views
<1>6. /\ Bundled(s, pc) /\ Turns(A, "cursor", pc, X)
      /\ Bundled(s, po) /\ Turns(A, "object", po, X)
      /\ Bundled(s, pb) /\ Turns(A, "blob", pb, X)
  BY <1>3, <1>4
<1>7. Settles(A, pc \o po \o pb, Kinds, X)
  <2>1. PICK on : on = Kinds
    OBVIOUS
  <2>2. /\ A \in Views /\ X \in Views /\ on \in SUBSET Kinds
        /\ Bundled(s, pc) /\ Bundled(s, po) /\ Bundled(s, pb)
        /\ "cursor" \in on => Turns(A, "cursor", pc, X)
        /\ "cursor" \notin on => pc = <<>>
        /\ "object" \in on => Turns(A, "object", po, X)
        /\ "object" \notin on => po = <<>>
        /\ "blob" \in on => Turns(A, "blob", pb, X)
        /\ "blob" \notin on => pb = <<>>
    BY <1>4, <1>5, <1>6, <2>1
  <2>3. Settles(A, pc \o po \o pb, on, X)
    BY ONLY <2>2, ThreeLead, Zenon
  <2> QED
    BY <2>1, <2>3
<1>8. PICK B : Leads(A, pc \o po \o pb, B) /\ \A kind \in Kinds : B[kind] = X[kind]
  BY <1>7 DEF Settles
<1>9. Announced(w, B)
  <2>1. w.mode = v.mode /\ \A kind \in v.mode.profiles : Told(w, kind) = v.table[kind]
    BY CompletedIs
  <2>2. ASSUME NEW kind \in v.mode.profiles PROVE X[kind] = SeenAll(kind, ToSet(v.table[kind]))
    BY <1>1, <1>2, EverythingIs
  <2> QED
    BY <1>2, <1>8, <2>1, <2>2 DEF Announced
<1> QED
  BY <1>8, <1>9

LEMMA AllBundled ==
  ASSUME NEW s, NEW v, ServerOK(v), NEW frame, NEW kind \in Kinds,
         NEW p, p = Parts(s, kind, Everything(v, kind), Everything(v, kind), -1, frame)
  PROVE  Bundled(s, p)
<1>1. PICK all, minus : all = Everything(v, kind) /\ minus = -1
  OBVIOUS
<1>2. /\ all \in Seq(Messages) /\ OnePerSid(all) /\ minus \in Int
      /\ \A m \in ToSet(all) : m.sid \in Sids(all)
      /\ p = Parts(s, kind, all, all, minus, frame)
  BY <1>1, EverythingIs DEF Sids, ToSet
<1>3. kind \in Kinds
  OBVIOUS
<1>4. Bundle(s, kind, all, p)
  BY ONLY <1>2, <1>3, PartsBundled, Zenon
<1> QED
  BY <1>4 DEF Bundle

LEMMA FullKeeps ==
  ASSUME NEW s, IInv(s), SendFullMessages(s)
  PROVE  IInv(s)'
<1>1. PICK v, frame : v = server[s] /\ frame = server[s].currentFrame
  OBVIOUS
<1>2. PICK pc, po, pb :
        /\ pc = Parts(s, "cursor", Everything(v, "cursor"), Everything(v, "cursor"), -1, frame)
        /\ po = Parts(s, "object", Everything(v, "object"), Everything(v, "object"), -1, frame)
        /\ pb = Parts(s, "blob", Everything(v, "blob"), Everything(v, "blob"), -1, frame)
  OBVIOUS
<1>3. PICK ps, S : /\ ps = pc \o po \o pb
                   /\ S = {q \in net : q.packet.source = s => frame - q.packet.frame <= MaxDelay}
  OBVIOUS
<1>4. /\ server[s] # Down /\ events' = events + 1
      /\ server' = [server EXCEPT ![s].whole = Kinds] /\ client' = client /\ clock' = clock
      /\ Network(S, ps, read)
  BY <1>1, <1>2, <1>3 DEF SendFullMessages, Deliver
<1>5. ServerOK(v) /\ server = [x \in {s} |-> v]
  BY <1>1, <1>4 DEF IInv, ServerInv
<1>13. PICK w : w = Completed(v)
  OBVIOUS
<1>14. ServerOK(w) /\ server' = [x \in {s} |-> w]
  <2>1. PICK f : f = server
    OBVIOUS
  <2>2. ServerOK(w) /\ w = [v EXCEPT !.whole = Kinds] /\ f = [x \in {s} |-> v]
    BY <1>5, <1>13, <2>1, CompletedIs
  <2>3. [f EXCEPT ![s].whole = Kinds] = [x \in {s} |-> w]
    BY <2>2
  <2> QED
    BY <1>4, <2>1, <2>2, <2>3
<1>6. Bundled(s, ps)
  <2>1. "cursor" \in Kinds /\ "object" \in Kinds /\ "blob" \in Kinds
    BY DEF Kinds
  <2>2. Bundled(s, pc)
    BY <1>2, <1>5, <2>1, AllBundled
  <2>3. Bundled(s, po)
    BY <1>2, <1>5, <2>1, AllBundled
  <2>4. Bundled(s, pb)
    BY <1>2, <1>5, <2>1, AllBundled
  <2>5. Bundled(s, pc \o po)
    BY <2>2, <2>3, BundledConcat
  <2> QED
    BY <1>3, <2>4, <2>5, BundledConcat
<1>7. S \subseteq net /\ \A q \in S : PacketOK(s, q.packet)
  BY <1>3 DEF IInv, NetInv
<1>8. CountersInv /\ HistoryInv(s)
  BY DEF IInv
<1>9. sent' \in Nat /\ NetInv(s)'
  BY <1>4, <1>6, <1>7, <1>8, NetworkIs
<1>10. HistoryInv(s)'
  <2>1. ASSUME NEW H, IsHistory(server[s], net, client, sent, read, H)
        PROVE  \E B : Leads(H[sent], ps, B) /\ Announced(w, B)
    <3>1. PICK A : A = H[sent]
      OBVIOUS
    <3>2. /\ A \in Views
          /\ \A kind \in v.mode.profiles : A[kind] = SeenAll(kind, ToSet(Told(v, kind)))
      BY <1>1, <1>4, <2>1, <3>1 DEF IsHistory, Announced
    <3>3. \E B : Leads(A, pc \o po \o pb, B) /\ Announced(w, B)
      BY <1>2, <1>5, <1>13, <3>2, AllBundlesAre
    <3> QED
      BY <1>3, <3>1, <3>3
  <2>2. read' # Disorder => \E J : IsHistory(w, net', client, sent', read', J)
    BY <1>4, <1>6, <1>7, <1>8, <2>1, SendKeepsHistory
  <2> QED
    BY <1>4, <1>14, <2>2 DEF HistoryInv
<1>11. ServerInv(s)' /\ CountersInv' /\ ClientInv(s)'
  <2>1. server'[s] = w
    BY <1>14
  <2> QED
    BY <1>4, <1>9, <1>14, <2>1 DEF IInv, ServerInv, CountersInv, ClientInv
<1>12. ClaimInv(s)'
  BY <1>4 DEF IInv, CountersInv, ClaimInv
<1> QED
  BY <1>9, <1>10, <1>11, <1>12 DEF IInv

(* The client disconnects, or reads a packet.                              *)
LEMMA DisconnectedIs ==
  ASSUME NEW s, NEW c, ClientOK(s, c)
  PROVE  ClientOK(s, Disconnected(c))
<1>1. PICK d : d = Disconnected(c)
  OBVIOUS
<1>2. d = [sourceList |-> c.sourceList, source_id |-> 0, currentFrame |-> c.currentFrame,
           held |-> [kind \in Kinds |-> Emptied(c.held[kind])]]
  BY <1>1, ClientIs DEF Disconnected
<1>3. /\ d.sourceList = c.sourceList
      /\ d.held = [kind \in Kinds |-> Emptied(c.held[kind])]
  BY <1>2
<1>4. ASSUME NEW kind \in Kinds
      PROVE  ShelfOK(kind, d.held[kind]) /\ ToSet(d.held[kind].list) = {}
  <2>1. PICK h, g, max : h = c.held[kind] /\ g = d.held[kind] /\ max = h.max
    OBVIOUS
  <2>2. ShelfOK(kind, h) /\ max \in [{0} -> Int]
    <3>1. ShelfOK(kind, h)
      BY <2>1, ClientIs
    <3> QED
      BY <2>1, <3>1, ShelfHas DEF ShelfOK
  <2>3. g = [list |-> <<>>, free |-> <<>>, max |-> max]
    BY <1>3, <2>1 DEF Emptied
  <2> QED
    BY <2>1, <2>2, <2>3, EmptyShelf
<1>5. d \in Clients(s)
  <2>1. \A kind \in Kinds : Emptied(c.held[kind]) \in Shelves
    BY <1>3, <1>4 DEF ShelfOK
  <2> QED
    BY <1>2, <2>1, ClientIs DEF Clients
<1> QED
  BY <1>1, <1>3, <1>4, <1>5 DEF ClientOK, Shelved

LEMMA ReconnectKeeps ==
  ASSUME NEW s, IInv(s), Reconnect
  PROVE  IInv(s)'
<1>1. /\ events' = events + 1 /\ client' = Disconnected(client)
      /\ server' = server /\ clock' = clock /\ Network(net, <<>>, Disorder)
  BY DEF Reconnect
<1>2. ServerInv(s)' /\ ClientInv(s)'
  <2>1. ClientOK(s, Disconnected(client))
    BY DisconnectedIs DEF IInv, ClientInv
  <2> QED
    BY <1>1, <2>1 DEF IInv, ServerInv, ClientInv
<1>3. sent' \in Nat /\ NetInv(s)'
  <2>1. Bundled(s, <<>>) /\ CountersInv /\ \A q \in net : PacketOK(s, q.packet)
    BY NoneBundled DEF IInv, NetInv
  <2> QED
    BY <1>1, <2>1, NetworkIs
<1>4. read' = Disorder
  BY <1>1 DEF Network, InOrder
<1>5. CountersInv' /\ HistoryInv(s)' /\ ClaimInv(s)'
  BY <1>1, <1>3, <1>4 DEF IInv, CountersInv, HistoryInv, ClaimInv
<1> QED
  BY <1>2, <1>3, <1>5 DEF IInv
(* What the client shows of objects was said by a packet. *)
LEMMA ClaimRead ==
  ASSUME NEW s, NEW c, ClientOK(s, c), NEW p, PacketOK(s, p), NEW d \in ProcessOSC(c, p),
         NEW Y, \A o \in ShownOf(c, "object") : Claim(o) \in Y,
         p.kind = "object" => \A m \in ToSet(p.sets) : Claim(m) \in Y,
         NEW o \in ShownOf(d, "object")
  PROVE  Claim(o) \in Y
<1>1. "object" \in Kinds
  BY DEF Kinds
<1>2. /\ \A k \in Kinds \ {p.kind} : ShownOf(d, k) = ShownOf(c, k)
      /\ Late(c, p.fseq) => \A k \in Kinds : ShownOf(d, k) = ShownOf(c, k)
      /\ ~ Late(c, p.fseq) =>
           Outcome(p.kind, ShownOf(c, p.kind), ToSet(p.sets), p.alive, ShownOf(d, p.kind))
  BY ProcessIs
<1>3. CASE p.kind # "object" \/ Late(c, p.fseq)
  <2>1. o \in ShownOf(c, "object")
    BY <1>1, <1>2, <1>3
  <2> QED
    BY <2>1
<1>4. CASE p.kind = "object" /\ ~ Late(c, p.fseq)
  <2>1. PICK L, M, sets : L = ShownOf(c, "object") /\ M = ShownOf(d, "object") /\ sets = ToSet(p.sets)
    OBVIOUS
  <2>2. Outcome("object", L, sets, p.alive, M) /\ o \in M
    BY <1>2, <1>4, <2>1
  <2>3. \/ o \in L
        \/ \E m \in sets : /\ m.sid = o.sid
                           /\ \/ \E a \in L : a.sid = o.sid /\ a.id = o.id
                              \/ o.id = m.id
    BY <2>2 DEF Outcome
  <2>4. (\A a \in L : Claim(a) \in Y) /\ (\A m \in sets : Claim(m) \in Y)
    BY <1>4, <2>1
  <2>5. ASSUME NEW a, a.sid = o.sid, a.id = o.id PROVE Claim(a) = Claim(o)
    BY <2>5 DEF Claim
  <2> QED
    BY <2>3, <2>4, <2>5
<1> QED
  BY <1>3, <1>4

LEMMA ReceiveKeeps ==
  ASSUME NEW s, IInv(s), NEW q \in net, Receive(q)
  PROVE  IInv(s)'
<1>1. PICK stays : stays = IF read # Disorder /\ q.number = read + 1 /\ ~ Late(client, q.packet.fseq)
                           THEN q.number ELSE Disorder
  OBVIOUS
<1>2. /\ server' = server /\ clock' = clock /\ events' = events
      /\ client' \in ProcessOSC(client, q.packet)
      /\ Network(net, <<>>, stays)
  BY <1>1 DEF Receive
<1>3. PICK c, d, p : c = client /\ d = client' /\ p = q.packet
  OBVIOUS
<1>4. ClientOK(s, c) /\ PacketOK(s, p) /\ d \in ProcessOSC(c, p)
  BY <1>2, <1>3 DEF IInv, ClientInv, NetInv
<1>5. ServerInv(s)' /\ ClientInv(s)'
  <2>1. ClientOK(s, d)
    BY <1>4, ProcessIs
  <2> QED
    BY <1>2, <1>3, <2>1 DEF IInv, ServerInv, ClientInv
<1>6. /\ sent' \in Nat /\ NetInv(s)'
      /\ \A r \in net' : \E t \in net : r.packet = t.packet
  <2>1. Bundled(s, <<>>) /\ ToSet(<<>>) = {} /\ CountersInv /\ \A t \in net : PacketOK(s, t.packet)
    BY NoneBundled DEF IInv, NetInv
  <2>2. PICK none : none = <<>>
    OBVIOUS
  <2>3. Bundled(s, none) /\ ToSet(none) = {} /\ Network(net, none, stays)
    BY <1>2, <2>1, <2>2
  <2> QED
    BY <2>1, <2>3, NetworkIs
<1>7. HistoryInv(s)'
  <2> SUFFICES ASSUME read' # Disorder
               PROVE  \E H : IsHistory(server[s], net', client', sent', read', H)
    BY <1>2 DEF HistoryInv
  <2>1. InOrder(net, stays)
    BY <1>2 DEF Network
  <2>2. stays # Disorder /\ read' = stays /\ net' = net \cup {[packet |-> <<>>[n], number |-> sent + n] : n \in DOMAIN <<>>}
        /\ sent' = sent + Len(<<>>)
    BY <1>2, <2>1 DEF Network, InOrder
  <2>3. read # Disorder /\ q.number = read + 1 /\ ~ Late(c, p.fseq) /\ stays = read + 1
    BY <1>1, <1>3, <2>2
  <2>4. net' = net /\ sent' = sent /\ read' = read + 1
    <3>1. DOMAIN <<>> = {} /\ Len(<<>>) = 0 /\ sent + 0 = sent
      BY DEF IInv, CountersInv
    <3> QED
      BY <2>2, <2>3, <3>1
  <2>5. PICK H : IsHistory(server[s], net, client, sent, read, H)
    BY <2>3 DEF IInv, HistoryInv
  <2>6. PICK v, N, n, r : v = server[s] /\ N = net /\ n = sent /\ r = read
    OBVIOUS
  <2>7. /\ IsHistory(v, N, c, n, r, H) /\ q \in N /\ q.number = r + 1 /\ PacketOK(s, q.packet)
        /\ ~ Late(c, q.packet.fseq) /\ d \in ProcessOSC(c, q.packet) /\ ClientOK(s, c)
    BY <1>3, <1>4, <2>3, <2>5, <2>6
  <2>8. IsHistory(v, N, d, n, r + 1, H)
    BY ONLY <2>7, HistoryRead, Zenon
  <2> QED
    BY <1>3, <2>4, <2>6, <2>8
<1>8. ClaimInv(s)'
  <2> SUFFICES ASSUME events = 0 PROVE \E Y : IsClaim(server[s], net', client', Y)
    BY <1>2 DEF ClaimInv
  <2>1. PICK Y : IsClaim(server[s], net, client, Y)
    BY DEF IInv, ClaimInv
  <2>2. \A o \in ShownOf(c, "object") : Claim(o) \in Y
    BY <1>3, <2>1 DEF IsClaim
  <2>3. p.kind = "object" => \A m \in ToSet(p.sets) : Claim(m) \in Y
    BY <1>3, <2>1 DEF IsClaim
  <2>4. \A o \in ShownOf(d, "object") : Claim(o) \in Y
    BY <1>4, <2>2, <2>3, ClaimRead
  <2>5. \A r \in net' : r.packet.kind = "object" => \A m \in ToSet(r.packet.sets) : Claim(m) \in Y
    BY <1>6, <2>1 DEF IsClaim
  <2>6. IsClaim(server[s], net', client', Y)
    BY <1>3, <2>1, <2>4, <2>5 DEF IsClaim
  <2> QED
    BY <2>6
<1>9. CountersInv'
  BY <1>2, <1>6 DEF IInv, CountersInv
<1> QED
  BY <1>5, <1>6, <1>7, <1>8, <1>9 DEF IInv
-----------------------------------------------------------------------------
(* A frame. *)

LEMMA MinOfTwo ==
  ASSUME NEW a \in Int, NEW b \in Int
  PROVE  Min({a, b}) = IF a <= b THEN a ELSE b
<1>1. Min({a, b}) = CHOOSE x \in {a, b} : \A y \in {a, b} : x <= y
  BY DEF Min
<1>2. PICK m : m = IF a <= b THEN a ELSE b
  OBVIOUS
<1>3. m \in {a, b} /\ \A y \in {a, b} : m <= y
  BY <1>2
<1>4. \A x \in {a, b} : (\A y \in {a, b} : x <= y) => x = m
  BY <1>2
<1> QED
  BY <1>1, <1>2, <1>3, <1>4

LEMMA FatedIs ==
  ASSUME clock \in Int, NEW old \in Seq(Messages), OnePerSid(old), NEW fate
  PROVE  /\ Fated(old, fate) \in Seq(Messages)
         /\ OnePerSid(Fated(old, fate))
         /\ \A m \in ToSet(Fated(old, fate)) :
              \E o \in ToSet(old) : /\ o.sid = m.sid /\ o.id = m.id
                                    /\ m.place = o.place \/ m.place = clock + 1
<1>1. PICK kept, size : kept = Fated(old, fate) /\ size = Len(old)
  OBVIOUS
<1>2. size \in Nat /\ DOMAIN old = 1 .. size
  BY <1>1
<1> DEFINE Fate(n) == CASE fate[n] = "moves" -> [sid |-> old[n].sid, id |-> old[n].id,
                                                 place |-> clock + 1, motion |-> 1]
                        [] fate[n] = "stops" -> [old[n] EXCEPT !.motion = AtRest]
                        [] OTHER -> old[n]
<1>3. kept = [n \in 1 .. size |-> Fate(n)]
  BY <1>1, <1>2 DEF Fated
<1>4. ASSUME NEW n \in 1 .. size
      PROVE  /\ Fate(n) \in Messages /\ Fate(n).sid = old[n].sid /\ Fate(n).id = old[n].id
             /\ Fate(n).place = old[n].place \/ Fate(n).place = clock + 1
  <2>1. PICK o : o = old[n]
    OBVIOUS
  <2>2. o \in Messages
    BY <1>2, <2>1
  <2>3. PICK now : now = clock + 1
    OBVIOUS
  <2>4. now \in Int
    BY <2>3
  <2>5. /\ [sid |-> o.sid, id |-> o.id, place |-> now, motion |-> 1] \in Messages
        /\ [sid |-> o.sid, id |-> o.id, place |-> now, motion |-> 1].sid = o.sid
        /\ [sid |-> o.sid, id |-> o.id, place |-> now, motion |-> 1].id = o.id
        /\ [sid |-> o.sid, id |-> o.id, place |-> now, motion |-> 1].place = now
    BY <2>2, <2>4 DEF Messages
  <2>6. /\ [o EXCEPT !.motion = AtRest] \in Messages
        /\ [o EXCEPT !.motion = AtRest].sid = o.sid
        /\ [o EXCEPT !.motion = AtRest].id = o.id
        /\ [o EXCEPT !.motion = AtRest].place = o.place
    BY <2>2 DEF Messages, AtRest
  <2>7. CASE fate[n] = "moves"
    BY <2>1, <2>3, <2>5, <2>7
  <2>8. CASE fate[n] = "stops"
    BY <2>1, <2>6, <2>8
  <2>9. CASE fate[n] # "moves" /\ fate[n] # "stops"
    BY <2>1, <2>2, <2>9
  <2> QED
    BY <2>7, <2>8, <2>9
<1> HIDE DEF Fate
<1>5. Len(kept) = size /\ \A n \in 1 .. size : kept[n] = Fate(n)
  BY <1>2, <1>3
<1>6. kept \in Seq(Messages)
  <2>1. kept \in [1 .. size -> Messages]
    BY <1>3, <1>4
  <2> QED
    BY <1>2, <2>1
<1>7. OnePerSid(kept)
  <2>1. ASSUME NEW i \in 1 .. size, NEW j \in 1 .. size, kept[i].sid = kept[j].sid PROVE i = j
    <3>1. old[i].sid = old[j].sid
      BY <1>4, <1>5, <2>1
    <3> QED
      BY <1>1, <3>1 DEF OnePerSid
  <2> QED
    BY <1>5, <2>1 DEF OnePerSid
<1>8. ASSUME NEW m \in ToSet(kept)
      PROVE  \E o \in ToSet(old) : /\ o.sid = m.sid /\ o.id = m.id
                                   /\ m.place = o.place \/ m.place = clock + 1
  <2>1. PICK n \in 1 .. size : m = kept[n]
    BY <1>5, <1>6 DEF ToSet
  <2>2. old[n] \in ToSet(old)
    BY <1>2 DEF ToSet
  <2> QED
    BY <1>4, <1>5, <2>1, <2>2
<1> QED
  BY <1>1, <1>6, <1>7, <1>8

LEMMA FreshIs ==
  ASSUME clock \in Int, NEW s, server[s].session \in Int, NEW kind, NEW fresh \in Fresh(s, kind)
  PROVE  /\ fresh \in Seq(Messages)
         /\ \A k \in 1 .. Len(fresh) : /\ fresh[k].sid = server[s].session + k
                                       /\ fresh[k].place = clock + 1
<1>1. PICK e, now : e = server[s].session /\ now = clock + 1
  OBVIOUS
<1>2. e \in Int /\ now \in Int
  BY <1>1
<1>3. PICK n, sign :
        /\ n \in 0 .. Min({2, MaxSessions - server[s].session})
        /\ sign \in [1 .. n -> IF kind = "object" THEN Symbols \X {AtRest} ELSE {-1} \X {AtRest, 1}]
        /\ fresh = [k \in 1 .. n |-> [sid |-> server[s].session + k, id |-> sign[k][1],
                                      place |-> clock + 1, motion |-> sign[k][2]]]
  <2> DEFINE Signs(n) == [1 .. n -> IF kind = "object" THEN Symbols \X {AtRest} ELSE {-1} \X {AtRest, 1}]
             Lists(n) == {[k \in 1 .. n |-> [sid |-> server[s].session + k, id |-> sign[k][1],
                                             place |-> clock + 1, motion |-> sign[k][2]]]
                            : sign \in Signs(n)}
  <2>1. fresh \in UNION {Lists(n) : n \in 0 .. Min({2, MaxSessions - server[s].session})}
    BY DEF Fresh
  <2> HIDE DEF Lists
  <2>2. PICK n \in 0 .. Min({2, MaxSessions - server[s].session}) : fresh \in Lists(n)
    BY <2>1
  <2> USE DEF Lists
  <2> HIDE DEF Signs
  <2>3. PICK sign \in Signs(n) :
          fresh = [k \in 1 .. n |-> [sid |-> server[s].session + k, id |-> sign[k][1],
                                     place |-> clock + 1, motion |-> sign[k][2]]]
    BY <2>2
  <2> USE DEF Signs
  <2> QED
    BY <2>2, <2>3
<1>4. n \in Nat
  <2>1. Min({2, MaxSessions - server[s].session}) \in Int
    <3>1. PICK x : x = MaxSessions - server[s].session
      OBVIOUS
    <3>2. x \in Int
      BY <3>1, BoundsAssumption
    <3>3. Min({2, x}) = IF 2 <= x THEN 2 ELSE x
      BY <3>2, MinOfTwo
    <3> QED
      BY <3>1, <3>2, <3>3
  <2> QED
    BY <1>3, <2>1
<1>5. ASSUME NEW k \in 1 .. n PROVE fresh[k] \in Messages /\ fresh[k].sid = e + k /\ fresh[k].place = now
  <2>1. sign[k][1] \in Ids /\ sign[k][2] \in Int
    <3>1. sign[k] \in IF kind = "object" THEN Symbols \X {AtRest} ELSE {-1} \X {AtRest, 1}
      BY <1>3
    <3>2. CASE kind = "object"
      BY <3>1, <3>2 DEF Ids, AtRest
    <3>3. CASE kind # "object"
      BY <3>1, <3>3 DEF Ids, AtRest
    <3> QED
      BY <3>2, <3>3
  <2>2. fresh[k] = [sid |-> e + k, id |-> sign[k][1], place |-> now, motion |-> sign[k][2]]
    <3>1. fresh[k] = [sid |-> server[s].session + k, id |-> sign[k][1], place |-> clock + 1,
                      motion |-> sign[k][2]]
      BY <1>3
    <3> QED
      BY <1>1, <3>1
  <2>3. e + k \in Int
    BY <1>2, <1>4
  <2> QED
    BY <1>2, <2>1, <2>2, <2>3 DEF Messages
<1>6. fresh \in [1 .. n -> Messages] /\ Len(fresh) = n
  BY <1>3, <1>4, <1>5
<1> QED
  BY <1>1, <1>4, <1>5, <1>6

(* The table after a frame: old things that have stayed, and fresh ones. *)
LEMMA TableChanges ==
  ASSUME NEW old \in Seq(Messages), NEW e \in Int, TableOK(old, e),
         NEW kept \in Seq(Messages), OnePerSid(kept),
         \A m \in ToSet(kept) : \E o \in ToSet(old) : o.sid = m.sid /\ o.id = m.id,
         NEW keep,
         NEW fresh \in Seq(Messages), \A k \in 1 .. Len(fresh) : fresh[k].sid = e + k,
         NEW table, table = Chosen(kept, keep) \o fresh
  PROVE  /\ table \in Seq(Messages)
         /\ TableOK(table, e + Len(fresh))
         /\ \A m \in ToSet(table) : \/ \E o \in ToSet(old) : o.sid = m.sid /\ o.id = m.id
                                    \/ m.sid > e
<1>1. PICK stay : stay = Chosen(kept, keep)
  OBVIOUS
<1>2. stay \in Seq(Messages) /\ ToSet(stay) \subseteq ToSet(kept) /\ OnePerSid(stay)
  <2>1. OnePerSid(stay)
    BY <1>1, OnePerSidChosen
  <2> QED
    BY <1>1, <2>1, ChosenFacts
<1>3. \A m \in Messages : m.sid \in Int
  BY DEF Messages
<1>4. ToSet(old) \subseteq Messages /\ ToSet(stay) \subseteq Messages
  BY <1>2 DEF ToSet
<1>5. ASSUME NEW m \in ToSet(stay)
      PROVE  /\ \E o \in ToSet(old) : o.sid = m.sid /\ o.id = m.id
             /\ m.sid <= e /\ m.sid \in Int
  <2>1. PICK o \in ToSet(old) : o.sid = m.sid /\ o.id = m.id
    BY <1>2
  <2> QED
    BY <1>3, <1>4, <2>1 DEF TableOK
<1>6. PICK n : n = Len(fresh)
  OBVIOUS
<1>7. n \in Nat /\ ToSet(fresh) = {fresh[k] : k \in 1 .. n}
  <2>1. n \in Nat /\ DOMAIN fresh = 1 .. n
    BY <1>6
  <2> QED
    BY <2>1, Zenon DEF ToSet
<1>8. \A m \in ToSet(fresh) : m.sid \in Int /\ m.sid > e /\ m.sid <= e + n
  BY <1>6, <1>7
<1>9. OnePerSid(fresh)
  BY <1>6, <1>7 DEF OnePerSid
<1>10. \A x \in ToSet(stay), y \in ToSet(fresh) : x.sid # y.sid
  BY <1>5, <1>8
<1>11. table \in Seq(Messages) /\ ToSet(table) = ToSet(stay) \cup ToSet(fresh)
  BY <1>1, <1>2, ConcatFacts
<1>12. OnePerSid(table)
  BY <1>1, <1>2, <1>9, <1>10, OnePerSidConcat
<1>13. \A m \in ToSet(table) : m.sid <= e + n
  BY <1>5, <1>7, <1>8, <1>11
<1> QED
  BY <1>5, <1>6, <1>8, <1>11, <1>12, <1>13 DEF TableOK

(* w is the server v after a frame in which kind changed. *)
Becomes(v, kind, session, table, veiled, frame, w) ==
  w = [mode |-> v.mode, table |-> [v.table EXCEPT ![kind] = table],
       hidden |-> [v.hidden EXCEPT ![kind] = veiled], whole |-> v.whole \ {kind},
       session |-> session, currentFrame |-> frame]

LEMMA BecomesIs ==
  ASSUME NEW v, ServerOK(v), NEW kind \in v.mode.profiles,
         NEW session \in Int, v.session <= session,
         NEW table \in Seq(Messages), TableOK(table, session),
         NEW veiled, kind = "object" => veiled = {}, NEW frame \in Int,
         NEW w, Becomes(v, kind, session, table, veiled, frame, w)
  PROVE  /\ ServerOK(w) /\ w # Down
         /\ w.mode = v.mode /\ w.session = session /\ w.currentFrame = frame
         /\ w.table[kind] = table
         /\ \A k \in v.mode.profiles \ {kind} : w.table[k] = v.table[k]
         /\ Told(w, kind) = Listed(table, veiled)
         /\ \A k \in v.mode.profiles \ {kind} : Told(w, k) = Told(v, k)
<1>1. PICK mode, tables, hidden, whole, before :
        /\ mode = v.mode /\ tables = v.table /\ hidden = v.hidden /\ whole = v.whole
        /\ before = v.session
  OBVIOUS
<1>2. PICK t, h, o : /\ t = [tables EXCEPT ![kind] = table] /\ h = [hidden EXCEPT ![kind] = veiled]
                        /\ o = whole \ {kind}
  OBVIOUS
<1>3. /\ mode \in Modes /\ tables \in [mode.profiles -> Seq(Messages)]
      /\ hidden = [k \in mode.profiles |-> hidden[k]]
      /\ "object" \in mode.profiles => hidden["object"] = {}
      /\ before \in Int /\ before <= session
      /\ \A k \in mode.profiles : TableOK(tables[k], before)
      /\ kind \in mode.profiles /\ TableOK(table, session)
  BY <1>1, <1>2 DEF ServerOK
<1>4. w = [mode |-> mode, table |-> t, hidden |-> h, whole |-> o, session |-> session, currentFrame |-> frame]
  BY <1>1, <1>2 DEF Becomes
<1>5. /\ w.mode = mode /\ w.table = t /\ w.hidden = h /\ w.whole = o
      /\ w.session = session /\ w.currentFrame = frame
  BY <1>4
<1>6. w # Down
  BY <1>4, UpIsNotDown
<1>7. /\ t \in [mode.profiles -> Seq(Messages)] /\ t[kind] = table
      /\ \A k \in mode.profiles \ {kind} : t[k] = tables[k]
  BY <1>2, <1>3
<1>8. /\ h = [k \in mode.profiles |-> h[k]] /\ h[kind] = veiled
      /\ \A k \in mode.profiles \ {kind} : h[k] = hidden[k]
  <2>1. PICK f, S : f = [k \in S |-> hidden[k]] /\ S = mode.profiles
    OBVIOUS
  <2>2. h = [f EXCEPT ![kind] = veiled] /\ kind \in S
    BY <1>2, <1>3, <2>1
  <2>3. h = [k \in S |-> IF k = kind THEN veiled ELSE hidden[k]]
    BY <2>1, <2>2
  <2> QED
    BY <1>3, <2>1, <2>3
<1>9. "object" \in mode.profiles => h["object"] = {}
  BY <1>3, <1>8
<1>11. ASSUME NEW k \in mode.profiles PROVE TableOK(t[k], session)
  <2>1. CASE k = kind
    BY <1>3, <1>7, <2>1
  <2>2. CASE k # kind
    <3>1. t[k] = tables[k] /\ TableOK(tables[k], before) /\ t[k] \in Seq(Messages)
      BY <1>3, <1>7, <2>2
    <3>2. \A m \in ToSet(t[k]) : m.sid \in Int
      BY <3>1, MessagesAre
    <3>3. \A m \in ToSet(t[k]) : m.sid <= session
      BY <1>3, <3>1, <3>2 DEF TableOK
    <3> QED
      BY <3>1, <3>3 DEF TableOK
  <2> QED
    BY <2>1, <2>2
<1>12. ServerOK(w)
  BY <1>3, <1>4, <1>5, <1>7, <1>8, <1>9, <1>11 DEF ServerOK
<1>13. Told(w, kind) = Listed(table, veiled)
  BY <1>2, <1>5, <1>7, <1>8 DEF Told
<1>14. \A k \in mode.profiles \ {kind} : Told(w, k) = Told(v, k)
  BY <1>1, <1>2, <1>5, <1>7, <1>8 DEF Told
<1> QED
  BY <1>1, <1>2, <1>5, <1>6, <1>7, <1>12, <1>13, <1>14

(* Table has things of old, and others with later sessions than e.         *)
Follows(table, old, e) ==
  \A m \in ToSet(table) : \/ \E o \in ToSet(old) : o.sid = m.sid /\ o.id = m.id
                          \/ m.sid > e

(* w has told the list of kind, where v had told old. *)
Changed(v, kind, old, list, w) ==
  /\ old = Told(v, kind) /\ list = Told(w, kind) /\ w.mode = v.mode
  /\ \A k \in v.mode.profiles \ {kind} : Told(w, k) = Told(v, k)

(* What was told of two lists agrees: a session has one symbol. *)
Agreeing(old, list) == \A o \in ToSet(old), m \in ToSet(list) : o.sid = m.sid => o.id = m.id

Announcing(A, ps, w) == \E B : Leads(A, ps, B) /\ Announced(w, B)

(* The bundles of a changed table v, of which the server has become w. *)
LEMMA ChangeLeads ==
  ASSUME NEW s, NEW v, ServerOK(v), NEW kind \in v.mode.profiles,
         NEW old, NEW list \in Seq(Messages), NEW w, Changed(v, kind, old, list, w),
         OnePerSid(list), Agreeing(old, list),
         NEW sets \in Seq(Messages), OnePerSid(sets), ToSet(sets) \subseteq ToSet(list),
         ToSet(list) \ ToSet(old) \subseteq ToSet(sets),
         NEW fseq \in Int, NEW frame,
         NEW ps, ps = Parts(s, kind, list, sets, fseq, frame),
         NEW A \in Views, \A k \in v.mode.profiles : A[k] = SeenAll(k, ToSet(Told(v, k)))
  PROVE  Announcing(A, ps, w)
<1>9. /\ old = Told(v, kind) /\ list = Told(w, kind) /\ w.mode = v.mode
      /\ \A k \in v.mode.profiles \ {kind} : Told(w, k) = Told(v, k)
  BY DEF Changed
<1>1. old \in Seq(Messages) /\ OnePerSid(old) /\ kind \in Kinds
  BY <1>9, ToldIs, TablesAre
<1>4. \A o \in ToSet(old), m \in ToSet(list) : o.sid = m.sid => Seen(kind, o).id = Seen(kind, m).id
  BY SeenIs DEF Agreeing
<1>5. A[kind] = SeenAll(kind, ToSet(old))
  BY <1>9
<1>6. PICK B : B = [A EXCEPT ![kind] = SeenAll(kind, ToSet(list))]
  OBVIOUS
<1>7. Leads(A, ps, B)
  <2>1. /\ A \in Views /\ list \in Seq(Messages) /\ OnePerSid(list)
        /\ sets \in Seq(Messages) /\ OnePerSid(sets) /\ ToSet(sets) \subseteq ToSet(list)
        /\ ToSet(list) \ ToSet(old) \subseteq ToSet(sets)
        /\ fseq \in Int
    OBVIOUS
  <2>2. Leads(A, Parts(s, kind, list, sets, fseq, frame), [A EXCEPT ![kind] = SeenAll(kind, ToSet(list))])
    BY ONLY <1>1, <1>4, <1>5, <2>1, PartsTurn, Zenon
  <2> QED
    BY <1>6, <2>2
<1>8. Announced(w, B)
  <2>1. v.mode.profiles \in SUBSET Kinds
    BY ProfilesAre DEF ServerOK
  <2>2. ASSUME NEW k \in v.mode.profiles PROVE B[k] = SeenAll(k, ToSet(Told(w, k)))
    <3>1. B[k] = IF k = kind THEN SeenAll(kind, ToSet(list)) ELSE A[k]
      BY <1>6, <2>1 DEF Views
    <3>2. CASE k = kind
      BY <1>9, <3>1, <3>2
    <3>3. CASE k # kind
      BY <1>9, <3>1, <3>3
    <3> QED
      BY <3>2, <3>3
  <2> QED
    BY <1>9, <2>2 DEF Announced
<1> QED
  BY <1>7, <1>8 DEF Announcing

(* The server v becomes w: n sessions are new, and sets of what its new    *)
(* table lists are announced by the parts ps.                              *)
IsChange(s, v, kind, session, table, veiled, list, sets, frame, ps, w) ==
  /\ v # Down /\ kind \in v.mode.profiles
  /\ session \in Int /\ v.session <= session
  /\ table \in Seq(Messages) /\ TableOK(table, session)
  /\ Follows(table, v.table[kind], v.session)
  /\ list = Listed(table, veiled) /\ (kind = "object" => veiled = {})
  /\ sets \in Seq(Messages) /\ OnePerSid(sets) /\ ToSet(sets) \subseteq ToSet(list)
  /\ ToSet(list) \ ToSet(Told(v, kind)) \subseteq ToSet(sets)
  /\ frame \in Int /\ ps = Parts(s, kind, list, sets, frame, frame)
  /\ Becomes(v, kind, session, table, veiled, frame, w)

(* The parts are sent; of what was on its way S stays.                     *)
IsSent(s, kind, session, table, veiled, list, sets, frame, ps, w, S) ==
  /\ IsChange(s, server[s], kind, session, table, veiled, list, sets, frame, ps, w)
  /\ S \subseteq net /\ Network(S, ps, read)
  /\ server' = [x \in {s} |-> w] /\ clock' \in Int /\ client' = client /\ events' = events

LEMMA AnnounceKeeps ==
  ASSUME NEW s, IInv(s), NEW kind, NEW session, NEW table, NEW veiled, NEW list, NEW sets, NEW frame,
         NEW ps, NEW w, NEW S,
         IsSent(s, kind, session, table, veiled, list, sets, frame, ps, w, S)
  PROVE  IInv(s)'
<1>18. /\ IsChange(s, server[s], kind, session, table, veiled, list, sets, frame, ps, w)
       /\ S \subseteq net /\ Network(S, ps, read)
       /\ server' = [x \in {s} |-> w] /\ clock' \in Int /\ client' = client /\ events' = events
  BY DEF IsSent
<1>1. PICK v, old, told : v = server[s] /\ old = v.table[kind] /\ told = Told(v, kind)
  OBVIOUS
<1>17. /\ v # Down /\ kind \in v.mode.profiles
       /\ session \in Int /\ v.session <= session
       /\ table \in Seq(Messages) /\ TableOK(table, session)
       /\ Follows(table, old, v.session)
       /\ list = Listed(table, veiled) /\ (kind = "object" => veiled = {})
       /\ sets \in Seq(Messages) /\ OnePerSid(sets) /\ ToSet(sets) \subseteq ToSet(list)
       /\ ToSet(list) \ ToSet(told) \subseteq ToSet(sets)
       /\ frame \in Int /\ ps = Parts(s, kind, list, sets, frame, frame)
       /\ Becomes(v, kind, session, table, veiled, frame, w)
  BY <1>1, <1>18 DEF IsChange
<1>2. /\ ServerOK(v) /\ v # Down /\ v.mode \in Modes /\ v.session \in Int
      /\ v.table \in [v.mode.profiles -> Seq(Messages)]
      /\ \A k \in v.mode.profiles : TableOK(v.table[k], v.session)
  BY <1>17, <1>1 DEF IInv, ServerInv, ServerOK
<1>3. /\ ServerOK(w) /\ w # Down
      /\ w.mode = v.mode /\ w.session = session /\ w.currentFrame = frame
      /\ w.table[kind] = table
      /\ \A k \in v.mode.profiles \ {kind} : w.table[k] = v.table[k]
      /\ Told(w, kind) = list
      /\ \A k \in v.mode.profiles \ {kind} : Told(w, k) = Told(v, k)
  BY <1>2, <1>17, BecomesIs
<1>4. PICK t, e : t = w.table /\ e = session
  OBVIOUS
<1>5. t[kind] = table /\ \A k \in v.mode.profiles \ {kind} : t[k] = v.table[k]
  BY <1>3, <1>4
<1>6. list \in Seq(Messages) /\ OnePerSid(list) /\ ToSet(list) \subseteq ToSet(table)
  BY <1>17, ListedIs DEF TableOK
<1>7. Agreeing(told, list)
  <2> SUFFICES ASSUME NEW o \in ToSet(told), NEW m \in ToSet(list), o.sid = m.sid PROVE o.id = m.id
    BY DEF Agreeing
  <2>1. ToSet(told) \subseteq ToSet(old) /\ old \in Seq(Messages)
    BY <1>1, <1>2, <1>17, ToldIs
  <2>2. Apart(ToSet(old)) /\ \A a \in ToSet(old) : a.sid <= v.session /\ a.sid \in Int
    BY <1>1, <1>2, <1>17, <2>1, OnePerSidIs, MessagesAre DEF TableOK
  <2>3. o \in ToSet(old) /\ m \in ToSet(table)
    BY <1>6, <2>1
  <2>4. ~ (m.sid > v.session)
    BY <1>2, <2>2, <2>3
  <2>5. PICK a \in ToSet(old) : a.sid = m.sid /\ a.id = m.id
    BY <1>17, <2>3, <2>4 DEF Follows
  <2>6. a = o
    BY <2>2, <2>3, <2>5 DEF Apart
  <2> QED
    BY <2>5, <2>6
<1>8. OnePerSid(table)
  BY <1>17 DEF TableOK
<1>9. Bundle(s, kind, sets, ps)
  <2>1. kind \in Kinds /\ \A m \in ToSet(sets) : m.sid \in Sids(list)
    <3>1. kind \in Kinds
      BY <1>17, <1>1, <1>2, TablesAre
    <3> QED
      BY <1>17, <3>1 DEF Sids, ToSet
  <2>2. sets \in Seq(Messages) /\ OnePerSid(sets) /\ frame \in Int /\ ps = Parts(s, kind, list, sets, frame, frame)
    BY <1>17
  <2> QED
    BY ONLY <2>1, <2>2, PartsBundled, Zenon
<1>10. Bundled(s, ps) /\ \A p \in ToSet(ps) : p.kind = kind /\ ToSet(p.sets) \subseteq ToSet(sets)
  BY <1>9 DEF Bundle
<1>11. CountersInv /\ HistoryInv(s) /\ \A q \in S : PacketOK(s, q.packet)
  BY <1>18 DEF IInv, NetInv
<1>12. /\ sent' \in Nat /\ NetInv(s)'
       /\ \A q \in net' : \/ \E p \in S : q.packet = p.packet
                          \/ q.packet \in ToSet(ps)
  BY <1>10, <1>11, <1>18, NetworkIs
<1>13. server'[s] = w
  BY <1>18
<1>14. HistoryInv(s)'
  <2>1. ASSUME NEW H, IsHistory(server[s], net, client, sent, read, H)
        PROVE  \E B : Leads(H[sent], ps, B) /\ Announced(w, B)
    <3>1. PICK A : A = H[sent]
      OBVIOUS
    <3>2. A \in Views /\ \A k \in v.mode.profiles : A[k] = SeenAll(k, ToSet(Told(v, k)))
      BY <1>1, <1>2, <2>1, <3>1 DEF IsHistory, Announced
    <3>3. /\ ServerOK(v) /\ kind \in v.mode.profiles
          /\ list \in Seq(Messages) /\ OnePerSid(list)
          /\ Agreeing(told, list)
          /\ sets \in Seq(Messages) /\ OnePerSid(sets) /\ ToSet(sets) \subseteq ToSet(list)
          /\ ToSet(list) \ ToSet(told) \subseteq ToSet(sets)
          /\ frame \in Int /\ ps = Parts(s, kind, list, sets, frame, frame)
          /\ Changed(v, kind, told, list, w)
      BY <1>17, <1>1, <1>2, <1>3, <1>6, <1>7 DEF Changed
    <3>4. Announcing(A, ps, w)
      BY ONLY <3>2, <3>3, ChangeLeads, Zenon
    <3> QED
      BY <3>1, <3>4 DEF Announcing
  <2>2. read' # Disorder => \E J : IsHistory(w, net', client, sent', read', J)
    BY <1>10, <1>11, <1>18, <2>1, SendKeepsHistory
  <2> QED
    BY <1>13, <1>18, <2>2 DEF HistoryInv
<1>15. ClaimInv(s)'
  <2> SUFFICES ASSUME events = 0 PROVE \E Y : IsClaim(w, net', client, Y)
    BY <1>13, <1>18 DEF ClaimInv
  <2>1. PICK Y : IsClaim(v, net, client, Y)
    BY <1>1 DEF IInv, ClaimInv
  <2>2. PICK Z : Z = IF kind = "object" THEN Y \cup {Claim(m) : m \in ToSet(table)} ELSE Y
    OBVIOUS
  <2>3. \A m \in ToSet(table) : m.sid \in Int
    BY <1>17, MessagesAre
  <2>4. \A m : Claim(m).sid = m.sid /\ Claim(m).id = m.id
    BY DEF Claim
  <2>5. \A y \in Z : y.sid \in Int /\ y.sid <= e
    <3>1. \A y \in Y : y.sid \in Int /\ y.sid <= e
      BY <1>17, <1>2, <1>4, <2>1 DEF IsClaim
    <3>2. \A m \in ToSet(table) : m.sid \in Int /\ m.sid <= e
      BY <1>17, <1>1, <1>4, <2>3 DEF TableOK
    <3>3. \A m \in ToSet(table) : Claim(m).sid \in Int /\ Claim(m).sid <= e
      BY <2>4, <3>2
    <3> QED
      BY <2>2, <3>1, <3>3
  <2>6. \A y, z \in Z : y.sid = z.sid => y.id = z.id
    <3>1. \A y, z \in Y : y.sid = z.sid => y.id = z.id
      BY <2>1 DEF IsClaim
    <3>2. CASE kind = "object"
      <4>1. ASSUME NEW y \in Y, NEW m \in ToSet(table), y.sid = m.sid PROVE y.id = m.id
        <5>1. ~ (m.sid > v.session)
          BY <1>2, <2>1, <4>1 DEF IsClaim
        <5>2. PICK o \in ToSet(old) : o.sid = m.sid /\ o.id = m.id
          BY <1>17, <1>1, <5>1 DEF Follows
        <5>3. Claim(o) \in Y
          BY <1>17, <1>1, <1>2, <2>1, <3>2, <5>2 DEF IsClaim
        <5> QED
          BY <2>4, <3>1, <4>1, <5>2, <5>3
      <4>2. ASSUME NEW m \in ToSet(table), NEW o \in ToSet(table), m.sid = o.sid PROVE m = o
        <5>1. Apart(ToSet(table))
          BY <1>17, <1>8, OnePerSidIs
        <5> QED
          BY <4>2, <5>1 DEF Apart
      <4>3. ASSUME NEW y \in Z PROVE \/ y \in Y
                                     \/ \E m \in ToSet(table) : y.sid = m.sid /\ y.id = m.id
        BY <2>2, <2>4, <3>2
      <4>4. ASSUME NEW y \in Z, NEW z \in Z, y.sid = z.sid PROVE y.id = z.id
        <5>1. CASE y \in Y /\ z \in Y
          BY <3>1, <4>4, <5>1
        <5>2. CASE y \in Y /\ z \notin Y
          BY <4>1, <4>3, <4>4, <5>2
        <5>3. CASE y \notin Y /\ z \in Y
          BY <4>1, <4>3, <4>4, <5>3
        <5>4. CASE y \notin Y /\ z \notin Y
          <6>1. PICK a \in ToSet(table) : y.sid = a.sid /\ y.id = a.id
            BY <4>3, <5>4
          <6>2. PICK b \in ToSet(table) : z.sid = b.sid /\ z.id = b.id
            BY <4>3, <5>4
          <6> QED
            BY <4>2, <4>4, <6>1, <6>2
        <5> QED
          BY <5>1, <5>2, <5>3, <5>4
      <4> QED
        BY <4>4
    <3>3. CASE kind # "object"
      BY <2>2, <3>1, <3>3
    <3> QED
      BY <3>2, <3>3
  <2>7. Y \subseteq Z
    BY <2>2
  <2>8. \A q \in net' : q.packet.kind = "object" => \A m \in ToSet(q.packet.sets) : Claim(m) \in Z
    <3> SUFFICES ASSUME NEW q \in net', q.packet.kind = "object", NEW m \in ToSet(q.packet.sets)
                 PROVE  Claim(m) \in Z
      OBVIOUS
    <3>1. CASE \E p \in S : q.packet = p.packet
      BY <1>18, <2>1, <2>7, <3>1 DEF IsClaim
    <3>2. CASE q.packet \in ToSet(ps)
      <4>1. kind = "object" /\ m \in ToSet(table)
        BY <1>6, <1>17, <1>10, <3>2
      <4> QED
        BY <2>2, <4>1
    <3> QED
      BY <1>12, <3>1, <3>2
  <2>9. "object" \in w.mode.profiles => \A m \in ToSet(w.table["object"]) : Claim(m) \in Z
    <3> SUFFICES ASSUME "object" \in v.mode.profiles, NEW m \in ToSet(t["object"]) PROVE Claim(m) \in Z
      BY <1>3, <1>4
    <3>1. CASE kind = "object"
      BY <1>5, <2>2, <3>1
    <3>2. CASE kind # "object"
      BY <1>2, <1>5, <2>1, <2>7, <3>2 DEF IsClaim
    <3> QED
      BY <3>1, <3>2
  <2>10. IsClaim(w, net', client, Z)
    <3>1. \A o \in ShownOf(client, "object") : Claim(o) \in Z
      BY <2>1, <2>7 DEF IsClaim
    <3>2. w.session = e
      BY <1>3, <1>4
    <3> QED
      BY <1>3, <2>5, <2>6, <2>8, <2>9, <3>1, <3>2 DEF IsClaim
  <2> QED
    BY <2>10
<1>16. ServerInv(s)' /\ CountersInv' /\ ClientInv(s)'
  BY <1>3, <1>12, <1>13, <1>18 DEF IInv, ServerInv, CountersInv, ClientInv
<1> QED
  BY <1>12, <1>14, <1>15, <1>16 DEF IInv
(* What a frame does: the server becomes w, with a new table of kind.      *)
IsFrame(s, kind, session, table, veiled, list, sets, frame, ps, w, S) ==
  /\ IsChange(s, server[s], kind, session, table, veiled, list, sets, frame, ps, w)
  /\ frame = server[s].currentFrame + 1 /\ server[s].currentFrame < MaxFrame
  /\ \A m \in ToSet(table) :
       \/ \E o \in ToSet(server[s].table[kind]) : o.sid = m.sid /\ o.place = m.place
       \/ m.place = clock + 1
  /\ S = {q \in net : q.packet.source = s => frame - q.packet.frame <= MaxDelay}
  /\ Network(S, ps, read)
  /\ server' = [x \in {s} |-> w] /\ clock' = clock + 1 /\ client' = client /\ events' = events

LEMMA FrameIs ==
  ASSUME NEW s, IInv(s), NEW kind \in Kinds, Frame(s, kind)
  PROVE  \E session, table, veiled, list, sets, frame, ps, w, S :
            IsFrame(s, kind, session, table, veiled, list, sets, frame, ps, w, S)
<1> DEFINE v     == server[s]
           old   == server[s].table[kind]
           hidden == server[s].hidden[kind]
           frame == server[s].currentFrame + 1
<1>1. v = server[s] /\ old = v.table[kind] /\ hidden = v.hidden[kind] /\ frame = v.currentFrame + 1
  OBVIOUS
<1>5. PICK fate, fresh :
        /\ fresh \in Fresh(s, kind)
        /\ LET gone  == {old[n].sid : n \in {n \in DOMAIN old : fate[n] = "goes"}}
               kept  == Fated(old, fate)
               table == Chosen(kept, {e \in ToSet(kept) : e.sid \notin gone}) \o fresh
               veiled == Hidden(kind, hidden, old, fate, fresh)
               list  == Listed(table, veiled)
               news  == Chosen(list, ToSet(list) \ ToSet(Listed(old, hidden)))
           IN  /\ server' = [server EXCEPT ![s] =
                    [mode |-> @.mode, table |-> [@.table EXCEPT ![kind] = table],
                     hidden |-> [@.hidden EXCEPT ![kind] = veiled], whole |-> @.whole \ {kind},
                     session |-> @.session + Len(fresh), currentFrame |-> frame]]
               /\ Deliver(s, Parts(s, kind, list, IF server[s].mode.full THEN list ELSE news,
                                   frame, frame), frame)
  BY Zenon DEF Frame
<1> HIDE DEF v, old, hidden, frame
<1>2. /\ v # Down /\ kind \in v.mode.profiles /\ server = [x \in {s} |-> v]
      /\ clock' = clock + 1 /\ client' = client /\ events' = events /\ clock \in Int
  BY <1>1 DEF Frame, Up, IInv, ServerInv, CountersInv
<1>3. ServerOK(v)
  BY <1>1, <1>2 DEF IInv, ServerInv
<1>4. /\ v.mode \in Modes /\ v.session \in Int /\ v.currentFrame \in Int /\ frame \in Int
      /\ TableOK(old, v.session) /\ OnePerSid(old) /\ old \in Seq(Messages)
  BY <1>1, <1>2, <1>3 DEF ServerOK, TableOK
<1>6. PICK kept, gone : /\ kept = Fated(old, fate)
                        /\ gone = {old[n].sid : n \in {n \in DOMAIN old : fate[n] = "goes"}}
  OBVIOUS
<1>7. PICK keep : keep = {e \in ToSet(kept) : e.sid \notin gone}
  OBVIOUS
<1>8. PICK table : table = Chosen(kept, keep) \o fresh
  OBVIOUS
<1>9. PICK veiled, list : veiled = Hidden(kind, hidden, old, fate, fresh) /\ list = Listed(table, veiled)
  OBVIOUS
<1>29. PICK told : told = ToSet(Listed(old, hidden))
  OBVIOUS
<1>30. PICK news : news = Chosen(list, ToSet(list) \ told)
  OBVIOUS
<1>10. PICK sets : sets = IF v.mode.full THEN list ELSE news
  OBVIOUS
<1>11. PICK n : n = Len(fresh)
  OBVIOUS
<1>12. /\ server' = [server EXCEPT ![s] =
            [mode |-> @.mode, table |-> [@.table EXCEPT ![kind] = table],
             hidden |-> [@.hidden EXCEPT ![kind] = veiled], whole |-> @.whole \ {kind},
             session |-> @.session + n, currentFrame |-> frame]]
       /\ Deliver(s, Parts(s, kind, list, sets, frame, frame), frame)
  BY <1>1, <1>5, <1>6, <1>7, <1>8, <1>9, <1>10, <1>11, <1>29, <1>30
<1>13. /\ kept \in Seq(Messages) /\ OnePerSid(kept)
       /\ \A m \in ToSet(kept) : \E o \in ToSet(old) : /\ o.sid = m.sid /\ o.id = m.id
                                                       /\ m.place = o.place \/ m.place = clock + 1
  BY <1>2, <1>4, <1>6, FatedIs
<1>14. /\ fresh \in Seq(Messages)
       /\ \A k \in 1 .. Len(fresh) : fresh[k].sid = v.session + k /\ fresh[k].place = clock + 1
  <2>1. clock \in Int /\ server[s].session \in Int
    BY <1>1, <1>2, <1>4
  <2>2. fresh \in Fresh(s, kind)
    BY <1>5
  <2> QED
    BY <1>1, <2>1, <2>2, FreshIs
<1>15. /\ table \in Seq(Messages)
       /\ TableOK(table, v.session + n)
       /\ Follows(table, old, v.session)
  <2>1. PICK e : e = v.session
    OBVIOUS
  <2>2. /\ e \in Int /\ TableOK(old, e) /\ \A k \in 1 .. Len(fresh) : fresh[k].sid = e + k
    BY <1>4, <1>14, <2>1
  <2>4. \A m \in ToSet(kept) : \E o \in ToSet(old) : o.sid = m.sid /\ o.id = m.id
    BY <1>13
  <2>3. /\ table \in Seq(Messages)
        /\ TableOK(table, e + Len(fresh))
        /\ \A m \in ToSet(table) : \/ \E o \in ToSet(old) : o.sid = m.sid /\ o.id = m.id
                                   \/ m.sid > e
    BY <1>4, <1>8, <1>13, <1>14, <2>2, <2>4, TableChanges
  <2> QED
    BY <1>11, <2>1, <2>3 DEF Follows
<1>16. list \in Seq(Messages) /\ OnePerSid(list)
  BY <1>9, <1>15, ListedIs DEF TableOK
<1>31. kind = "object" => veiled = {}
  BY <1>9 DEF Hidden
<1>17. /\ news \in Seq(Messages) /\ OnePerSid(news) /\ ToSet(news) = ToSet(list) \ told
  <2>1. PICK rest : rest = ToSet(list) \ told
    OBVIOUS
  <2>2. OnePerSid(Chosen(list, rest))
    BY <1>16, OnePerSidChosen
  <2>3. Chosen(list, rest) \in Seq(Messages) /\ ToSet(Chosen(list, rest)) = ToSet(list) \cap rest
    BY <1>16, ChosenFacts
  <2> QED
    BY <1>30, <2>1, <2>2, <2>3
<1>18. /\ sets \in Seq(Messages) /\ OnePerSid(sets) /\ ToSet(sets) \subseteq ToSet(list)
       /\ ToSet(list) \ ToSet(Told(v, kind)) \subseteq ToSet(sets)
  <2>1. CASE v.mode.full
    <3>1. sets = list
      BY <1>10, <2>1
    <3> QED
      BY <1>16, <3>1
  <2>2. CASE ~ v.mode.full
    <3>1. sets = news
      BY <1>10, <2>2
    <3>2. told \subseteq ToSet(Told(v, kind))
      BY <1>1, <1>2, <1>3, <1>29, ToldIs
    <3> QED
      BY <1>17, <3>1, <3>2
  <2> QED
    BY <2>1, <2>2
<1>19. PICK ps, S : /\ ps = Parts(s, kind, list, sets, frame, frame)
                    /\ S = {q \in net : q.packet.source = s => frame - q.packet.frame <= MaxDelay}
  OBVIOUS
<1>20. S \subseteq net /\ Network(S, ps, read)
  BY <1>12, <1>19 DEF Deliver
<1>32. PICK session : session = v.session + n
  OBVIOUS
<1>21. PICK w : Becomes(v, kind, session, table, veiled, frame, w)
  BY DEF Becomes
<1>22. server' = [x \in {s} |-> w]
  BY <1>2, <1>12, <1>21, <1>32 DEF Becomes
<1>24. session \in Int /\ v.session <= session /\ clock' \in Int
  <2>1. n \in Nat
    BY <1>11, <1>14
  <2> QED
    BY <1>2, <1>4, <1>32, <2>1
<1>25. IsChange(s, server[s], kind, session, table, veiled, list, sets, frame, ps, w)
  <2>1. IsChange(s, v, kind, session, table, veiled, list, sets, frame, ps, w)
    BY <1>1, <1>2, <1>4, <1>9, <1>15, <1>18, <1>19, <1>21, <1>24, <1>31, <1>32 DEF IsChange
  <2> QED
    BY <1>1, <2>1
<1>26. ASSUME NEW m \in ToSet(table)
       PROVE  (\E o \in ToSet(old) : o.sid = m.sid /\ o.place = m.place) \/ m.place = clock + 1
  <2>1. PICK stay : stay = Chosen(kept, keep)
    OBVIOUS
  <2>2. stay \in Seq(Messages) /\ ToSet(stay) \subseteq ToSet(kept)
    BY <1>13, <2>1, ChosenFacts
  <2>3. ToSet(table) = ToSet(stay) \cup ToSet(fresh)
    BY <1>8, <1>14, <2>1, <2>2, ConcatFacts
  <2>4. CASE m \in ToSet(stay)
    BY <1>13, <2>2, <2>4
  <2>5. CASE m \in ToSet(fresh)
    <3>1. PICK k \in 1 .. Len(fresh) : m = fresh[k]
      BY <1>14, <2>5 DEF ToSet
    <3> QED
      BY <1>14, <3>1
  <2> QED
    BY <2>3, <2>4, <2>5
<1>27. v.currentFrame < MaxFrame
  BY <1>1 DEF Frame
<1>28. IsFrame(s, kind, session, table, veiled, list, sets, frame, ps, w, S)
  BY <1>1, <1>2, <1>19, <1>20, <1>22, <1>25, <1>26, <1>27 DEF IsFrame
<1> QED
  BY <1>28

LEMMA FrameKeeps ==
  ASSUME NEW s, IInv(s), NEW kind \in Kinds, Frame(s, kind)
  PROVE  IInv(s)'
<1>1. PICK session, table, veiled, list, sets, frame, ps, w, S :
        IsFrame(s, kind, session, table, veiled, list, sets, frame, ps, w, S)
  BY FrameIs
<1>2. /\ IsChange(s, server[s], kind, session, table, veiled, list, sets, frame, ps, w)
      /\ S \subseteq net /\ Network(S, ps, read)
      /\ server' = [x \in {s} |-> w] /\ clock' = clock + 1 /\ client' = client /\ events' = events
  BY <1>1 DEF IsFrame
<1>3. clock' \in Int
  BY <1>2 DEF IInv, CountersInv
<1>4. IsSent(s, kind, session, table, veiled, list, sets, frame, ps, w, S)
  BY <1>2, <1>3 DEF IsSent
<1> QED
  BY <1>4, AnnounceKeeps

(* w is the server v after a frame without a change. *)
IsPeriodic(s, v, kind, frame, w) ==
  /\ server = [x \in {s} |-> v] /\ ServerOK(v) /\ kind \in v.mode.profiles /\ frame \in Int
  /\ server' = [server EXCEPT ![s].currentFrame = frame, ![s].whole = server[s].whole \ {kind}]
  /\ Becomes(v, kind, v.session, v.table[kind], v.hidden[kind], frame, w)

LEMMA PeriodicServer ==
  ASSUME NEW s, NEW v, NEW kind, NEW frame, NEW w, IsPeriodic(s, v, kind, frame, w)
  PROVE  /\ server' = [x \in {s} |-> w] /\ ServerOK(w) /\ w # Down
         /\ w.mode = v.mode /\ w.table = v.table /\ w.session = v.session
         /\ w.currentFrame = frame
<1>14. /\ server = [x \in {s} |-> v] /\ ServerOK(v) /\ kind \in v.mode.profiles /\ frame \in Int
       /\ server' = [server EXCEPT ![s].currentFrame = frame, ![s].whole = server[s].whole \ {kind}]
       /\ Becomes(v, kind, v.session, v.table[kind], v.hidden[kind], frame, w)
  BY DEF IsPeriodic
<1>1. PICK mode, tables, hidden, whole, session, old :
        /\ mode = v.mode /\ tables = v.table /\ hidden = v.hidden /\ whole = v.whole
        /\ session = v.session /\ old = v.currentFrame
  OBVIOUS
<1>2. v = [mode |-> mode, table |-> tables, hidden |-> hidden, whole |-> whole,
           session |-> session, currentFrame |-> old]
  BY <1>1, <1>14 DEF ServerOK
<1>3. /\ tables \in [mode.profiles -> Seq(Messages)] /\ session \in Int
      /\ hidden = [k \in mode.profiles |-> hidden[k]]
      /\ "object" \in mode.profiles => hidden["object"] = {}
      /\ kind \in mode.profiles /\ TableOK(tables[kind], session)
  BY <1>1, <1>14 DEF ServerOK
<1>4. [tables EXCEPT ![kind] = tables[kind]] = tables
  BY <1>3
<1>5. [hidden EXCEPT ![kind] = hidden[kind]] = hidden
  <2>1. PICK f, S : f = [k \in S |-> hidden[k]] /\ S = mode.profiles
    OBVIOUS
  <2>2. hidden = f /\ hidden[kind] = f[kind] /\ kind \in S
    BY <1>3, <2>1
  <2>3. [f EXCEPT ![kind] = f[kind]] = f
    BY <2>1
  <2> QED
    BY <2>2, <2>3
<1>7. PICK o : o = whole \ {kind}
  OBVIOUS
<1>8. w = [mode |-> mode, table |-> tables, hidden |-> hidden, whole |-> o,
           session |-> session, currentFrame |-> frame]
  BY <1>1, <1>4, <1>5, <1>7, <1>14 DEF Becomes
<1>9. PICK f : f = server
  OBVIOUS
<1>10. f = [x \in {s} |-> v]
  BY <1>9, <1>14
<1>11. [f EXCEPT ![s].currentFrame = frame, ![s].whole = o] = [x \in {s} |-> w]
  <2>1. PICK u : u = [v EXCEPT !.currentFrame = frame]
    OBVIOUS
  <2>2. PICK g : g = [f EXCEPT ![s].currentFrame = frame]
    OBVIOUS
  <2>3. g = [x \in {s} |-> u]
    BY <1>10, <2>1, <2>2
  <2>5. u = [mode |-> mode, table |-> tables, hidden |-> hidden, whole |-> whole,
             session |-> session, currentFrame |-> frame]
    BY <1>2, <2>1
  <2>6. w = [u EXCEPT !.whole = o]
    BY <1>8, <2>5
  <2>4. [g EXCEPT ![s].whole = o] = [x \in {s} |-> w]
    BY <2>3, <2>6
  <2> QED
    BY <2>2, <2>4
<1>13. server[s].whole \ {kind} = o
  BY <1>1, <1>7, <1>14
<1>12. ServerOK(w) /\ w # Down
  <2>1. PICK table, veiled : table = tables[kind] /\ veiled = hidden[kind]
    OBVIOUS
  <2>2. /\ session \in Int /\ v.session <= session
        /\ table \in Seq(Messages) /\ TableOK(table, session)
        /\ (kind = "object" => veiled = {}) /\ Becomes(v, kind, session, table, veiled, frame, w)
    <3>1. session \in Int /\ v.session <= session
      BY <1>1, <1>3
    <3>2. table \in Seq(Messages) /\ TableOK(table, session)
      BY <1>3, <2>1
    <3>3. kind = "object" => veiled = {}
      BY <1>3, <2>1
    <3>4. Becomes(v, kind, session, table, veiled, frame, w)
      BY <1>1, <1>14, <2>1
    <3> QED
      BY <3>1, <3>2, <3>3, <3>4
  <2>3. ServerOK(v) /\ kind \in v.mode.profiles /\ frame \in Int
    BY <1>14
  <2>4. PICK list : list = Listed(table, veiled)
    OBVIOUS
  <2>5. /\ ServerOK(w) /\ w # Down
        /\ w.mode = v.mode /\ w.session = session /\ w.currentFrame = frame
        /\ w.table[kind] = table
        /\ \A k \in v.mode.profiles \ {kind} : w.table[k] = v.table[k]
        /\ Told(w, kind) = list
        /\ \A k \in v.mode.profiles \ {kind} : Told(w, k) = Told(v, k)
    BY ONLY <2>2, <2>3, <2>4, BecomesIs
  <2> QED
    BY <2>5
<1> QED
  BY <1>1, <1>8, <1>9, <1>11, <1>12, <1>13, <1>14

LEMMA PeriodicKeeps ==
  ASSUME NEW s, IInv(s), NEW kind \in Kinds, Periodic(s, kind)
  PROVE  IInv(s)'
<1>1. PICK v, table, veiled, list, frame :
        /\ v = server[s] /\ table = v.table[kind] /\ veiled = v.hidden[kind]
        /\ list = Listed(table, veiled)
        /\ frame = Min({v.currentFrame + 1, MaxFrame})
  OBVIOUS
<1>2. /\ v # Down /\ kind \in v.mode.profiles /\ server = [x \in {s} |-> v]
      /\ clock' = clock /\ client' = client /\ events' = events /\ clock \in Int
  BY <1>1 DEF Periodic, Up, IInv, ServerInv, CountersInv
<1>3. ServerOK(v)
  BY <1>1, <1>2 DEF IInv, ServerInv
<1>4. /\ v.mode \in Modes /\ v.session \in Int /\ v.currentFrame \in Int
      /\ v.table \in [v.mode.profiles -> Seq(Messages)]
      /\ TableOK(table, v.session) /\ OnePerSid(table) /\ table \in Seq(Messages)
      /\ (kind = "object" => veiled = {})
  BY <1>1, <1>2, <1>3 DEF ServerOK, TableOK
<1>15. list \in Seq(Messages) /\ OnePerSid(list) /\ ToSet(list) \subseteq ToSet(table)
  BY <1>1, <1>4, ListedIs
<1>5. frame \in Int
  <2>1. PICK x : x = v.currentFrame + 1
    OBVIOUS
  <2>2. x \in Int /\ MaxFrame \in Int
    BY <1>4, <2>1, BoundsAssumption
  <2>3. Min({x, MaxFrame}) = IF x <= MaxFrame THEN x ELSE MaxFrame
    BY <2>2, MinOfTwo
  <2> QED
    BY <1>1, <2>1, <2>2, <2>3
<1>6. PICK sets : sets = IF v.mode.full THEN list ELSE <<>>
  OBVIOUS
<1>7. PICK ps : ps = Parts(s, kind, list, sets, frame, frame)
  OBVIOUS
<1>8. /\ server' = [server EXCEPT ![s].currentFrame = frame, ![s].whole = server[s].whole \ {kind}]
      /\ IF v.currentFrame < MaxFrame THEN Deliver(s, ps, frame)
         ELSE Network({q \in net : q.packet.fseq = MaxFrame}
                        \cup {[packet |-> ps[n], number |-> 0] : n \in DOMAIN ps},
                      <<>>, Disorder)
  BY <1>1, <1>6, <1>7 DEF Periodic
<1>9. /\ sets \in Seq(Messages) /\ OnePerSid(sets) /\ ToSet(sets) \subseteq ToSet(list)
  <2>1. <<>> \in Seq(Messages) /\ OnePerSid(<<>>) /\ ToSet(<<>>) = {}
    BY DEF OnePerSid, ToSet
  <2> QED
    BY <1>6, <1>15, <2>1
<1>10. PICK w : Becomes(v, kind, v.session, table, veiled, frame, w)
  BY DEF Becomes
<1>16. v.session \in Int /\ v.session <= v.session
  BY <1>4
<1>11. /\ server' = [x \in {s} |-> w] /\ ServerOK(w) /\ w # Down
       /\ w.mode = v.mode /\ w.table = v.table /\ w.session = v.session
  <2>1. IsPeriodic(s, v, kind, frame, w)
    BY <1>1, <1>2, <1>3, <1>5, <1>8, <1>10 DEF IsPeriodic
  <2> QED
    BY <2>1, PeriodicServer
<1>13. CASE v.currentFrame < MaxFrame
  <2>1. PICK S : S = {q \in net : q.packet.source = s => frame - q.packet.frame <= MaxDelay}
    OBVIOUS
  <2>2. S \subseteq net /\ Network(S, ps, read)
    BY <1>8, <1>13, <2>1 DEF Deliver
  <2>3. Follows(table, table, v.session)
    BY DEF Follows
  <2>4. ToSet(list) \ ToSet(Told(v, kind)) \subseteq ToSet(sets)
    BY <1>1, <1>2, <1>3, ToldIs
  <2>5. IsChange(s, server[s], kind, v.session, table, veiled, list, sets, frame, ps, w)
    <3>1. IsChange(s, v, kind, v.session, table, veiled, list, sets, frame, ps, w)
      BY <1>1, <1>2, <1>4, <1>5, <1>7, <1>9, <1>10, <1>16, <2>3, <2>4 DEF IsChange
    <3> QED
      BY <1>1, <3>1
  <2>6. PICK session : session = v.session
    OBVIOUS
  <2>7. IsSent(s, kind, session, table, veiled, list, sets, frame, ps, w, S)
    BY <1>2, <1>11, <2>2, <2>5, <2>6 DEF IsSent
  <2> QED
    BY <2>7, AnnounceKeeps
<1>14. CASE ~ (v.currentFrame < MaxFrame)
  <2>1. PICK S : S = {q \in net : q.packet.fseq = MaxFrame}
                       \cup {[packet |-> ps[n], number |-> 0] : n \in DOMAIN ps}
    OBVIOUS
  <2>2. Network(S, <<>>, Disorder)
    BY <1>8, <1>14, <2>1
  <2>3. Bundle(s, kind, sets, ps)
    <3>1. \A m \in ToSet(sets) : m.sid \in Sids(list)
      BY <1>9 DEF Sids, ToSet
    <3>2. kind \in Kinds
      OBVIOUS
    <3> QED
      BY ONLY <1>5, <1>7, <1>9, <3>1, <3>2, PartsBundled, Zenon
  <2>4. Bundled(s, ps) /\ \A p \in ToSet(ps) : p.kind = kind /\ ToSet(p.sets) \subseteq ToSet(sets)
    BY <2>3 DEF Bundle
  <2>5. \A q \in S : q \in net \/ q.packet \in ToSet(ps)
    BY <2>1 DEF ToSet
  <2>6. \A q \in S : PacketOK(s, q.packet)
    BY <2>4, <2>5 DEF IInv, NetInv, Bundled
  <2>7. /\ sent' \in Nat /\ NetInv(s)'
        /\ \A q \in net' : \E p \in S : q.packet = p.packet
    <3>1. PICK none : none = <<>>
      OBVIOUS
    <3>2. Bundled(s, none) /\ ToSet(none) = {} /\ CountersInv /\ Network(S, none, Disorder)
      BY <2>2, <3>1, NoneBundled DEF IInv
    <3> QED
      BY <2>6, <3>2, NetworkIs
  <2>8. read' = Disorder
    BY <2>2 DEF Network, InOrder
  <2>9. HistoryInv(s)'
    BY <2>8 DEF HistoryInv
  <2>10. server'[s] = w
    BY <1>11
  <2>11. ClaimInv(s)'
    <3> SUFFICES ASSUME events = 0 PROVE \E Y : IsClaim(w, net', client, Y)
      BY <1>2, <2>10 DEF ClaimInv
    <3>1. PICK Y : IsClaim(v, net, client, Y)
      BY <1>1 DEF IInv, ClaimInv
    <3>2. \A q \in net' : q.packet.kind = "object" => \A m \in ToSet(q.packet.sets) : Claim(m) \in Y
      <4> SUFFICES ASSUME NEW q \in net', q.packet.kind = "object", NEW m \in ToSet(q.packet.sets)
                   PROVE  Claim(m) \in Y
        OBVIOUS
      <4>1. PICK p \in S : q.packet = p.packet
        BY <2>7
      <4>2. CASE p \in net
        BY <3>1, <4>1, <4>2 DEF IsClaim
      <4>3. CASE p.packet \in ToSet(ps)
        <5>1. kind = "object" /\ m \in ToSet(table)
          BY <1>9, <1>15, <2>4, <4>1, <4>3
        <5> QED
          BY <1>1, <1>2, <3>1, <5>1 DEF IsClaim
      <4> QED
        BY <2>5, <4>1, <4>2, <4>3
    <3>3. IsClaim(w, net', client, Y)
      BY <1>2, <1>11, <3>1, <3>2 DEF IsClaim
    <3> QED
      BY <3>3
  <2>12. ServerInv(s)' /\ CountersInv' /\ ClientInv(s)'
    BY <1>2, <1>11, <2>7, <2>10 DEF IInv, ServerInv, CountersInv, ClientInv
  <2> QED
    BY <2>7, <2>9, <2>11, <2>12 DEF IInv
<1> QED
  BY <1>13, <1>14
-----------------------------------------------------------------------------
(* What the invariant says of the client.                                  *)

LEMMA ShowsIs ==
  ASSUME NEW s, ClientOK(s, client), NEW kind \in Kinds
  PROVE  /\ Shows(s, kind) = {[sid |-> o.sid, place |-> o.place] : o \in ShownOf(client, kind)}
         /\ Known(client, s) => Range(Own(List(client, kind), SourceOf(s))) = ShownOf(client, kind)
<1>1. PICK list : list = client.held[kind].list
  OBVIOUS
<1>2. list \in Seq(Things) /\ client.sourceList \in {<<>>, <<s>>}
  BY <1>1, ClientIs
<1>3. ToSet(list) = ShownOf(client, kind) /\ List(client, kind) = list
  BY <1>1 DEF ShownOf, List
<1>4. \A o \in ToSet(list) : o.src = 0
  <2>1. ToSet(list) \subseteq Things
    BY <1>2 DEF ToSet
  <2> QED
    BY <2>1 DEF Things
<1>5. Own(list, 0) \in Seq(Things) /\ ToSet(Own(list, 0)) = ToSet(list)
  BY <1>2, <1>4, OwnIsAll
<1>6. Range(Own(list, 0)) = ShownOf(client, kind)
  BY <1>3, <1>5 DEF Range, ToSet
<1>7. CASE client.sourceList = <<s>>
  <2>1. Known(client, s) /\ SourceOf(s) = 0
    BY <1>7, KnownIs DEF SourceOf
  <2> QED
    BY <1>3, <1>6, <2>1 DEF Shows
<1>8. CASE client.sourceList = <<>>
  <2>1. ~ Known(client, s)
    BY <1>8, KnownIs
  <2>2. ShownOf(client, kind) = {}
    BY <1>8 DEF ClientOK, ShownOf
  <2> QED
    BY <2>1, <2>2 DEF Shows
<1> QED
  BY <1>2, <1>7, <1>8

LEMMA SameSights ==
  ASSUME NEW kind, NEW S, NEW T, SeenAll(kind, S) = SeenAll(kind, T)
  PROVE  {[sid |-> o.sid, place |-> o.place] : o \in S} = {[sid |-> o.sid, place |-> o.place] : o \in T}
<1>1. ASSUME NEW P, NEW Q, SeenAll(kind, P) \subseteq SeenAll(kind, Q), NEW o \in P
      PROVE  \E p \in Q : p.sid = o.sid /\ p.place = o.place
  <2>1. Seen(kind, o) \in SeenAll(kind, Q)
    BY <1>1 DEF SeenAll
  <2>2. PICK p \in Q : Seen(kind, o) = Seen(kind, p)
    BY <2>1 DEF SeenAll
  <2> QED
    BY <2>2, SeenIs
<1>2. \A o \in S : \E p \in T : p.sid = o.sid /\ p.place = o.place
  BY <1>1
<1>3. \A o \in T : \E p \in S : p.sid = o.sid /\ p.place = o.place
  BY <1>1
<1> QED
  BY <1>2, <1>3

(* When it has read all, the client sees what is announced. *)
LEMMA AllRead ==
  ASSUME NEW s, IInv(s), read = sent, server[s] # Down, NEW kind \in server[s].mode.profiles
  PROVE  SeenAll(kind, ShownOf(client, kind)) = SeenAll(kind, ToSet(Told(server[s], kind)))
<1>1. read # Disorder
  BY DEF IInv, CountersInv, Disorder
<1>2. PICK H : IsHistory(server[s], net, client, sent, read, H)
  BY <1>1 DEF IInv, HistoryInv
<1>3. H[sent] = ViewOf(client) /\ H[sent][kind] = SeenAll(kind, ToSet(Told(server[s], kind)))
  BY <1>2 DEF IsHistory, Announced
<1>4. kind \in Kinds
  BY TablesAre DEF IInv, ServerInv
<1>5. ViewOf(client)[kind] = SeenAll(kind, ShownOf(client, kind))
  BY <1>4 DEF ViewOf
<1> QED
  BY <1>3, <1>5

LEMMA LosslessFromInv ==
  ASSUME NEW s, Sources = {s}, IInv(s)
  PROVE  LosslessIsExact
<1> SUFFICES ASSUME read = sent, server[s] # Down, NEW kind \in server[s].mode.profiles
             PROVE  Shows(s, kind) = Announces(s, kind)
  BY DEF LosslessIsExact, InSync
<1>1. kind \in Kinds /\ ClientOK(s, client)
  BY TablesAre DEF IInv, ServerInv, ClientInv
<1>2. Shows(s, kind) = {[sid |-> o.sid, place |-> o.place] : o \in ShownOf(client, kind)}
  BY <1>1, ShowsIs
<1>3. PICK S, T : S = ShownOf(client, kind) /\ T = ToSet(Told(server[s], kind))
  OBVIOUS
<1>4. SeenAll(kind, S) = SeenAll(kind, T)
  BY <1>3, AllRead
<1>5. {[sid |-> o.sid, place |-> o.place] : o \in S} = {[sid |-> o.sid, place |-> o.place] : o \in T}
  BY <1>4, SameSights
<1>6. Range(Told(server[s], kind)) = T
  BY <1>3 DEF Range, ToSet
<1> QED
  BY <1>2, <1>3, <1>5, <1>6 DEF Announces

LEMMA SymbolsFromInv ==
  ASSUME NEW s, Sources = {s}, IInv(s)
  PROVE  SymbolsAgree
<1> SUFFICES ASSUME Up(s, "object"), Known(client, s), events = 0 \/ read = sent,
                    NEW o \in Range(Own(List(client, "object"), SourceOf(s))),
                    NEW m \in Range(server[s].table["object"]), o.sid = m.sid
             PROVE  o.id = m.id
  BY DEF SymbolsAgree
<1>1. server[s] # Down /\ "object" \in server[s].mode.profiles /\ "object" \in Kinds
  BY DEF Up, Kinds
<1>2. PICK table : table = server[s].table["object"]
  OBVIOUS
<1>3. ServerOK(server[s]) /\ ClientOK(s, client)
  BY <1>1 DEF IInv, ServerInv, ClientInv
<1>4. table \in Seq(Messages) /\ OnePerSid(table)
  BY <1>1, <1>2, <1>3, TablesAre
<1>5. o \in ShownOf(client, "object") /\ m \in ToSet(table)
  <2>1. Range(Own(List(client, "object"), SourceOf(s))) = ShownOf(client, "object")
    BY <1>1, <1>3, ShowsIs
  <2>2. Range(server[s].table["object"]) = ToSet(table)
    BY <1>2 DEF Range, ToSet
  <2> QED
    BY <2>1, <2>2
<1>6. CASE events = 0
  <2>1. PICK Y : IsClaim(server[s], net, client, Y)
    BY <1>6 DEF IInv, ClaimInv
  <2>2. Claim(o) \in Y /\ Claim(m) \in Y
    BY <1>1, <1>2, <1>5, <2>1 DEF IsClaim
  <2>3. \A y, z \in Y : y.sid = z.sid => y.id = z.id
    BY <2>1 DEF IsClaim
  <2>4. \A x : Claim(x).sid = x.sid /\ Claim(x).id = x.id
    BY DEF Claim
  <2> QED
    BY <2>2, <2>3, <2>4
<1>7. CASE read = sent
  <2>1. SeenAll("object", ShownOf(client, "object")) = SeenAll("object", ToSet(table))
    <3>1. ToSet(Told(server[s], "object")) = ToSet(table)
      BY <1>1, <1>2, <1>3, ToldIs
    <3> QED
      BY <1>1, <1>7, <3>1, AllRead
  <2>2. PICK p \in ToSet(table) : Seen("object", o) = Seen("object", p)
    BY <1>5, <2>1 DEF SeenAll
  <2>3. p.sid = o.sid /\ p.id = o.id
    BY <2>2, SeenIs
  <2>4. Apart(ToSet(table))
    BY <1>4, OnePerSidIs
  <2>5. p = m
    BY <1>5, <2>3, <2>4 DEF Apart
  <2> QED
    BY <2>3, <2>5
<1> QED
  BY <1>6, <1>7

LEMMA PoolFills ==
  ASSUME NEW list \in Seq(Things), NEW free \in Seq(Frees), Distinct(list), Distinct(free),
         NEW top, PoolOK(ToSet(list), ToSet(free), top)
  PROVE  NumbersFill(list, free, top)
<1>1. PICK L, F, n, k : L = ToSet(list) /\ F = ToSet(free) /\ n = Len(list) /\ k = Len(free)
  OBVIOUS
<1>2. /\ n \in Nat /\ k \in Nat
      /\ L = {list[i] : i \in 1 .. n} /\ F = {free[i] : i \in 1 .. k}
  BY <1>1 DEF ToSet
<1>3. PoolOK(L, F, top)
  BY <1>1
<1> DEFINE all == list \o free
<1>4. all = list \o free
  OBVIOUS
<1> HIDE DEF all
<1>5. /\ all \in Seq(Things \cup Frees)
      /\ ToSet(all) = L \cup F
      /\ Len(all) = n + k
      /\ \A i \in 1 .. n : all[i] = list[i]
      /\ \A i \in 1 .. k : all[n + i] = free[i]
  <2>1. list \in Seq(Things \cup Frees) /\ free \in Seq(Things \cup Frees)
    OBVIOUS
  <2> QED
    BY <1>1, <1>4, <2>1, ConcatFacts
<1>6. DOMAIN all = 1 .. n + k
  BY <1>5
<1>7. ASSUME NEW i \in 1 .. n + k
      PROVE  \/ i \in 1 .. n /\ all[i] = list[i] /\ all[i] \in L
             \/ i \notin 1 .. n /\ i - n \in 1 .. k /\ all[i] = free[i - n] /\ all[i] \in F
  <2>1. CASE i <= n
    <3>1. i \in 1 .. n
      BY <1>2, <2>1
    <3> QED
      BY <1>2, <1>5, <3>1
  <2>2. CASE ~ (i <= n)
    <3>1. i \notin 1 .. n /\ i - n \in 1 .. k /\ n + (i - n) = i
      BY <1>2, <2>2
    <3>2. all[i] = free[i - n]
      BY <1>5, <3>1
    <3> QED
      BY <1>2, <3>1, <3>2
  <2> QED
    BY <2>1, <2>2
<1>8. ASSUME NEW i \in 1 .. n + k, NEW j \in 1 .. n + k, all[i].id = all[j].id PROVE i = j
  <2>1. /\ \A a, b \in L : a.id = b.id => a = b
        /\ \A a, b \in F : a.id = b.id => a = b
        /\ \A a \in L, b \in F : a.id # b.id
    BY <1>3 DEF PoolOK
  <2>2. CASE i \in 1 .. n /\ j \in 1 .. n
    <3>1. list[i] = list[j]
      BY <1>7, <1>8, <2>1, <2>2
    <3> QED
      BY <1>1, <2>2, <3>1 DEF Distinct
  <2>3. CASE i \notin 1 .. n /\ j \notin 1 .. n
    <3>1. free[i - n] = free[j - n] /\ i - n \in 1 .. k /\ j - n \in 1 .. k
      BY <1>7, <1>8, <2>1, <2>3
    <3>2. i - n = j - n
      BY <1>1, <3>1 DEF Distinct
    <3> QED
      BY <1>2, <3>2
  <2>4. CASE ~ (i \in 1 .. n <=> j \in 1 .. n)
    BY <1>7, <1>8, <2>1, <2>4
  <2> QED
    BY <2>2, <2>3, <2>4
<1>9. {all[i].id : i \in 1 .. n + k} = {a.id : a \in L \cup F}
  <2>1. ToSet(all) = {all[i] : i \in 1 .. n + k}
    BY <1>6 DEF ToSet
  <2> QED
    BY <1>5, <2>1
<1>10. {a.id : a \in L \cup F} = 0 .. (IF all = <<>> THEN -1 ELSE top)
  <2>1. CASE L = {}
    <3>1. F = {} /\ L \cup F = {}
      BY <1>3, <2>1 DEF PoolOK
    <3>2. n = 0 /\ k = 0
      <4>1. n # 0 => 1 \in 1 .. n
        BY <1>2
      <4>2. k # 0 => 1 \in 1 .. k
        BY <1>2
      <4> QED
        BY <1>2, <2>1, <3>1, <4>1, <4>2
    <3>3. all = <<>>
      BY <1>5, <3>2
    <3>4. 0 .. -1 = {}
      OBVIOUS
    <3> QED
      BY <3>1, <3>3, <3>4
  <2>2. CASE L # {}
    <3>1. all # <<>>
      BY <1>2, <1>5, <2>2
    <3>2. /\ \A a \in L \cup F : a.id \in 0 .. top
          /\ \A i \in 0 .. top : \E a \in L \cup F : a.id = i
      BY <1>3, <2>2 DEF PoolOK
    <3> QED
      BY <3>1, <3>2
  <2> QED
    BY <2>1, <2>2
<1>11. /\ \A i, j \in DOMAIN all : all[i].id = all[j].id => i = j
       /\ {all[i].id : i \in DOMAIN all} = 0 .. (IF all = <<>> THEN -1 ELSE top)
  BY <1>6, <1>8, <1>9, <1>10
<1> QED
  BY <1>11, Zenon DEF NumbersFill, all

LEMMA NumbersFromInv ==
  ASSUME NEW s, IInv(s)
  PROVE  ClientNumbersOK
<1> SUFFICES ASSUME NEW kind \in {"cursor", "blob"}
             PROVE  NumbersFill(client.held[kind].list, client.held[kind].free, client.held[kind].max[0])
  BY DEF ClientNumbersOK
<1>1. PICK h : h = client.held[kind]
  OBVIOUS
<1>2. kind \in Kinds /\ kind # "object"
  BY DEF Kinds
<1>3. ShelfOK(kind, h)
  BY <1>1, <1>2, ClientIs DEF IInv, ClientInv
<1>4. h \in Shelves /\ OnePerSid(h.list) /\ Numbered(h)
  BY <1>2, <1>3 DEF ShelfOK
<1>5. /\ h.list \in Seq(Things) /\ h.free \in Seq(Frees)
      /\ Distinct(h.list) /\ Distinct(h.free)
      /\ PoolOK(ToSet(h.list), ToSet(h.free), h.max[0])
  <2>1. h.list \in Seq(Things) /\ h.free \in Seq(Frees)
    BY <1>4, ShelfHas
  <2>2. Distinct(h.list)
    BY <1>4, <2>1, OnePerSidIs
  <2> QED
    BY <1>4, <2>1, <2>2 DEF Numbered
<1> QED
  BY <1>1, <1>5, PoolFills

LEMMA NextKeeps ==
  ASSUME NEW s, Sources = {s}, IInv(s), [Next]_vars
  PROVE  IInv(s)'
<1>1. CASE Start(s)
  BY <1>1, StartKeeps
<1>2. CASE Crash(s)
  BY <1>2, CrashKeeps
<1>3. CASE Shutdown(s)
  BY <1>3, ShutdownKeeps
<1>4. CASE SendFullMessages(s)
  BY <1>4, FullKeeps
<1>5. ASSUME NEW kind \in Kinds, Frame(s, kind)
      PROVE  IInv(s)'
  BY <1>5, FrameKeeps
<1>6. ASSUME NEW kind \in Kinds, Periodic(s, kind)
      PROVE  IInv(s)'
  BY <1>6, PeriodicKeeps
<1>7. ASSUME NEW q \in net, Receive(q)
      PROVE  IInv(s)'
  BY <1>7, ReceiveKeeps
<1>8. CASE Reconnect
  BY <1>8, ReconnectKeeps
<1>9. CASE UNCHANGED vars
  BY <1>9 DEF vars, IInv, ServerInv, CountersInv, ClientInv, NetInv, HistoryInv, ClaimInv
<1> QED
  BY <1>1, <1>2, <1>3, <1>4, <1>5, <1>6, <1>7, <1>8, <1>9 DEF Next

(* TuioClient.cpp:61-684 and TuioServer.cpp: with one server, whatever the *)
(* network loses, doubles or reorders, and however often either side is    *)
(* started anew, a client that got all packets in order shows the          *)
(* announced table, objects keep the right symbols, and the numbers of the *)
(* cursors and of the blobs are distinct and without gaps.                 *)
THEOREM ClientStaysRight ==
  ASSUME NEW s, Sources = {s}
  PROVE  Spec => []ClientIsRight
<1>1. Init => IInv(s)
  BY InitKeeps
<1>2. IInv(s) /\ [Next]_vars => IInv(s)'
  BY NextKeeps
<1>3. IInv(s) => ClientIsRight
  BY LosslessFromInv, SymbolsFromInv, NumbersFromInv DEF ClientIsRight
<1> QED
  BY <1>1, <1>2, <1>3, PTL DEF Spec
-----------------------------------------------------------------------------
(* That the client never goes back.  T is the number of the last frame     *)
(* that was sent, by the server that is up or by the one that was up last. *)

Packets(N) == {q.packet : q \in N}

(* Numbered packets are of late frames, and no data is of a later one. *)
Ages(v, P, T) ==
  /\ T \in 0 .. MaxFrame
  /\ v # Down => v.currentFrame = T
  /\ \A p \in P : /\ p.frame \in Int
                  /\ ToSet(p.sets) # {} => p.frame <= T
                  /\ p.fseq # -1 => /\ p.fseq = p.frame
                                    /\ 1 <= p.frame /\ p.frame <= T /\ T - MaxDelay <= p.frame

(* Nothing is at a place that is yet to be given. *)
Placed(v, P, c, now) ==
  /\ \A p \in P : \A m \in ToSet(p.sets) : m.place <= now
  /\ \A kind \in Kinds : \A o \in ShownOf(c, kind) : o.place <= now
  /\ v # Down => \A kind \in v.mode.profiles : \A m \in ToSet(v.table[kind]) : m.place <= now

(* A later packet does not say an earlier place. *)
Rising(P) ==
  \A p, q \in P : p.kind = q.kind /\ p.frame <= q.frame =>
    \A m \in ToSet(p.sets), n \in ToSet(q.sets) : m.sid = n.sid => m.place <= n.place

(* The table is ahead of what the packets say, those of the present frame  *)
(* say what it is, and it is ahead of what the client shows.               *)
Ahead(v, P, c) ==
  v # Down => \A kind \in v.mode.profiles : \A t \in ToSet(v.table[kind]) :
    /\ \A p \in P : p.kind = kind =>
         \A m \in ToSet(p.sets) : m.sid = t.sid =>
           m.place <= t.place /\ (p.frame >= v.currentFrame => m.place = t.place)
    /\ \A o \in ShownOf(c, kind) : o.sid = t.sid => o.place <= t.place

(* A packet without a number has data of a later frame than p. *)
Outrun(P, p) == \E q \in P : q.fseq = -1 /\ ToSet(q.sets) # {} /\ p.frame < q.frame

(* A numbered packet that would take the client back is late for it, or    *)
(* one without a number took the client ahead of it.                       *)
Excused(P, c, T) ==
  \A p \in P : p.fseq # -1 =>
    \A m \in ToSet(p.sets), o \in ShownOf(c, p.kind) : m.sid = o.sid /\ m.place < o.place =>
      (p.fseq < c.currentFrame /\ c.currentFrame <= T) \/ Outrun(P, p)

PlacesOK(v, P, c, now, T) == /\ Ages(v, P, T)
                             /\ Placed(v, P, c, now)
                             /\ Rising(P)
                             /\ Ahead(v, P, c)
                             /\ Excused(P, c, T)

PlaceInv(s) == \E T \in 0 .. MaxFrame : PlacesOK(server[s], Packets(net), client, clock, T)


(* What is known of places. *)
LEMMA PlacesAre ==
  ASSUME NEW ms \in Seq(Messages), NEW m \in ToSet(ms)
  PROVE  m.place \in Int /\ m.sid \in Int
<1>1. m \in Messages
  BY MessagesAre
<1> QED
  BY <1>1 DEF Messages

LEMMA PacketPlaces ==
  ASSUME NEW s, NEW p, PacketOK(s, p)
  PROVE  /\ p.fseq \in Int /\ p.kind \in Kinds
         /\ \A m \in ToSet(p.sets) : m.place \in Int /\ m.sid \in Int
<1>1. p.sets \in Seq(Messages) /\ p.fseq \in Int /\ p.kind \in Kinds
  BY DEF PacketOK
<1> QED
  BY <1>1, PlacesAre

LEMMA ShownPlaces ==
  ASSUME NEW s, NEW c, ClientOK(s, c), NEW kind \in Kinds, NEW o \in ShownOf(c, kind)
  PROVE  o.place \in Int /\ o.sid \in Int
<1>1. c.held[kind].list \in Seq(Things)
  BY ClientIs
<1>2. PICK list : list = c.held[kind].list
  OBVIOUS
<1>3. list \in Seq(Things) /\ o \in ToSet(list)
  BY <1>1, <1>2 DEF ShownOf
<1>4. o \in Things
  BY <1>3 DEF ToSet
<1> QED
  BY <1>4 DEF Things

(* What the network carries after packets were added. *)
LEMMA PacketsAre ==
  ASSUME NEW s, NEW S, NEW added, Bundled(s, added), NEW stays, Network(S, added, stays)
  PROVE  Packets(net') = Packets(S) \cup ToSet(added)
<1>1. ToSet(added) = {added[n] : n \in DOMAIN added}
  BY DEF ToSet
<1>2. /\ \A q \in net' : (\E p \in S : q.packet = p.packet) \/ q.packet \in ToSet(added)
      /\ \A p \in S : \E q \in net' : q.packet = p.packet
      /\ \A p \in ToSet(added) : \E q \in net' : q.packet = p
  <2>1. CASE InOrder(S, stays)
    <3>1. net' = S \cup {[packet |-> added[n], number |-> sent + n] : n \in DOMAIN added}
      BY <2>1 DEF Network
    <3>2. \A q \in net' : (\E p \in S : q.packet = p.packet) \/ q.packet \in ToSet(added)
      BY <1>1, <3>1
    <3>3. ASSUME NEW p \in S PROVE \E q \in net' : q.packet = p.packet
      <4>1. p \in net'
        BY <3>1
      <4> QED
        BY <4>1
    <3>4. ASSUME NEW n \in DOMAIN added PROVE \E q \in net' : q.packet = added[n]
      <4>1. [packet |-> added[n], number |-> sent + n] \in net'
        BY <3>1
      <4>2. [packet |-> added[n], number |-> sent + n].packet = added[n]
        OBVIOUS
      <4> QED
        BY <4>1, <4>2
    <3> QED
      BY <1>1, <3>2, <3>3, <3>4
  <2>2. CASE ~ InOrder(S, stays)
    <3>1. net' = {[packet |-> q.packet, number |-> 0] : q \in S}
                   \cup {[packet |-> added[n], number |-> 0] : n \in DOMAIN added}
      BY <2>2 DEF Network
    <3>2. \A q \in net' : (\E p \in S : q.packet = p.packet) \/ q.packet \in ToSet(added)
      BY <1>1, <3>1
    <3>3. ASSUME NEW p \in S PROVE \E q \in net' : q.packet = p.packet
      <4>1. [packet |-> p.packet, number |-> 0] \in net'
        BY <3>1
      <4> QED
        BY <4>1
    <3>4. ASSUME NEW n \in DOMAIN added PROVE \E q \in net' : q.packet = added[n]
      <4>1. [packet |-> added[n], number |-> 0] \in net'
        BY <3>1
      <4>2. [packet |-> added[n], number |-> 0].packet = added[n]
        OBVIOUS
      <4> QED
        BY <4>1, <4>2
    <3> QED
      BY <1>1, <3>2, <3>3, <3>4
  <2> QED
    BY <2>1, <2>2
<1>3. \A p \in Packets(net') : p \in Packets(S) \cup ToSet(added)
  BY <1>2 DEF Packets
<1>4. \A p \in Packets(S) \cup ToSet(added) : p \in Packets(net')
  BY <1>2 DEF Packets
<1> QED
  BY <1>3, <1>4
-----------------------------------------------------------------------------
(* The server sends: v becomes w, S of the packets P still arrive, those   *)
(* in N are new, the clock goes on from now to later, and U is the frame.  *)

Turned(v, w, now, later, T, U) ==
  /\ T <= U /\ now <= later
  /\ w # Down =>
       /\ v # Down /\ w.mode.profiles = v.mode.profiles /\ w.currentFrame = U
       /\ \A kind \in w.mode.profiles :
            /\ Apart(ToSet(w.table[kind]))
            /\ \A t \in ToSet(w.table[kind]) :
                 \/ T < U /\ now < t.place /\ t.place <= later
                 \/ \E o \in ToSet(v.table[kind]) : o.sid = t.sid /\ o.place = t.place

Kept(P, S, U) ==
  /\ S \subseteq P
  /\ \A p \in S : p.fseq # -1 =>
       /\ U - MaxDelay <= p.frame
       /\ \A q \in P : ToSet(q.sets) # {} /\ p.frame < q.frame => q \in S

Newly(w, N, U) ==
  \A p \in N : /\ p.frame \in Int
               /\ p.fseq # -1 => p.fseq = p.frame /\ p.frame = U /\ 1 <= U
               /\ ToSet(p.sets) # {} => /\ w # Down /\ p.kind \in w.mode.profiles /\ p.frame = U
                                        /\ ToSet(p.sets) \subseteq ToSet(w.table[p.kind])

LEMMA TablePlaces ==
  ASSUME NEW v, ServerOK(v), NEW kind \in v.mode.profiles, NEW t \in ToSet(v.table[kind])
  PROVE  t.place \in Int /\ t.sid \in Int
<1>1. v.table[kind] \in Seq(Messages)
  BY TablesAre
<1> QED
  BY <1>1, PlacesAre

(* How the new table compares with what is under way and what is shown. *)
LEMMA TurnedPlaces ==
  ASSUME NEW s, NEW v, NEW w, NEW P, NEW c, NEW now \in Int, NEW later \in Int, NEW T, NEW U \in Int,
         v # Down => ServerOK(v), w # Down, ServerOK(w), ClientOK(s, c), \A p \in P : PacketOK(s, p),
         PlacesOK(v, P, c, now, T), Turned(v, w, now, later, T, U),
         NEW kind \in w.mode.profiles, NEW t \in ToSet(w.table[kind])
  PROVE  /\ t.place \in Int /\ t.place <= later
         /\ \A p \in P : p.kind = kind =>
              \A m \in ToSet(p.sets) : m.sid = t.sid =>
                m.place <= t.place /\ (p.frame >= U => m.place = t.place)
         /\ \A o \in ShownOf(c, kind) : o.sid = t.sid => o.place <= t.place
<1>1. t.place \in Int
  BY TablePlaces
<1>2. kind \in Kinds
  BY TablesAre
<1>3. T \in Int /\ T <= U /\ now <= later /\ v # Down /\ ServerOK(v) /\ kind \in v.mode.profiles
  BY BoundsAssumption DEF Turned, PlacesOK, Ages
<1>4. v.currentFrame = T
  BY <1>3 DEF PlacesOK, Ages
<1>5. CASE T < U /\ now < t.place /\ t.place <= later
  <2>1. ASSUME NEW p \in P, p.kind = kind, NEW m \in ToSet(p.sets), m.sid = t.sid
        PROVE  m.place <= t.place /\ ~ p.frame >= U
    <3>1. m.place <= now /\ m.place \in Int
      BY <2>1, PacketPlaces DEF PlacesOK, Placed
    <3>2. p.frame \in Int /\ p.frame <= T
      BY <2>1 DEF PlacesOK, Ages
    <3> QED
      BY <1>1, <1>3, <1>5, <3>1, <3>2
  <2>2. ASSUME NEW o \in ShownOf(c, kind) PROVE o.place <= t.place
    <3>1. o.place <= now /\ o.place \in Int
      BY <1>2, <2>2, ShownPlaces DEF PlacesOK, Placed
    <3> QED
      BY <1>1, <1>5, <3>1
  <2> QED
    BY <1>1, <1>5, <2>1, <2>2
<1>6. ASSUME NEW o \in ToSet(v.table[kind]), o.sid = t.sid, o.place = t.place
      PROVE  /\ t.place <= later
             /\ \A p \in P : p.kind = kind =>
                  \A m \in ToSet(p.sets) : m.sid = t.sid =>
                    m.place <= t.place /\ (p.frame >= U => m.place = t.place)
             /\ \A e \in ShownOf(c, kind) : e.sid = t.sid => e.place <= t.place
  <2>1. o.place <= now
    BY <1>3, <1>6 DEF PlacesOK, Placed
  <2>2. ASSUME NEW p \in P, p.kind = kind, NEW m \in ToSet(p.sets), m.sid = t.sid
        PROVE  m.place <= t.place /\ (p.frame >= U => m.place = t.place)
    <3>1. m.place <= o.place /\ (p.frame >= v.currentFrame => m.place = o.place)
      BY <1>3, <1>6, <2>2 DEF PlacesOK, Ahead
    <3>2. p.frame \in Int
      BY <2>2 DEF PlacesOK, Ages
    <3> QED
      BY <1>3, <1>4, <1>6, <3>1, <3>2
  <2>3. ASSUME NEW e \in ShownOf(c, kind), e.sid = t.sid PROVE e.place <= t.place
    BY <1>3, <1>6, <2>3 DEF PlacesOK, Ahead
  <2> QED
    BY <1>1, <1>3, <1>6, <2>1, <2>2, <2>3
<1>7. \/ T < U /\ now < t.place /\ t.place <= later
      \/ \E o \in ToSet(v.table[kind]) : o.sid = t.sid /\ o.place = t.place
  BY DEF Turned
<1> QED
  BY <1>1, <1>5, <1>6, <1>7


LEMMA SendPlaces ==
  ASSUME NEW s, NEW v, NEW w, NEW P, NEW S, NEW N, NEW c, NEW now \in Int, NEW later \in Int,
         NEW T, NEW U \in 0 .. MaxFrame,
         v # Down => ServerOK(v), w # Down => ServerOK(w), ClientOK(s, c),
         \A p \in P : PacketOK(s, p), \A p \in N : PacketOK(s, p),
         PlacesOK(v, P, c, now, T), Turned(v, w, now, later, T, U), Kept(P, S, U), Newly(w, N, U)
  PROVE  PlacesOK(w, S \cup N, c, later, U)
<1>1. T \in Int /\ T <= U /\ now <= later /\ S \subseteq P /\ U \in Int
  BY BoundsAssumption DEF Turned, Kept, PlacesOK, Ages
<1>2. \A p \in P : p.frame \in Int /\ (ToSet(p.sets) # {} => p.frame <= T)
  BY DEF PlacesOK, Ages
<1>3. ASSUME w # Down, NEW kind \in w.mode.profiles, NEW t \in ToSet(w.table[kind])
      PROVE  /\ t.place \in Int /\ t.place <= later
             /\ \A p \in P : p.kind = kind =>
                  \A m \in ToSet(p.sets) : m.sid = t.sid =>
                    m.place <= t.place /\ (p.frame >= U => m.place = t.place)
             /\ \A o \in ShownOf(c, kind) : o.sid = t.sid => o.place <= t.place
  BY <1>1, <1>3, TurnedPlaces
<1>4. ASSUME NEW p \in N, NEW m \in ToSet(p.sets)
      PROVE  /\ w # Down /\ p.kind \in w.mode.profiles /\ p.frame = U
             /\ m \in ToSet(w.table[p.kind])
  BY <1>4 DEF Newly
<1>5. ASSUME w # Down, NEW kind \in w.mode.profiles PROVE Apart(ToSet(w.table[kind]))
  BY <1>5 DEF Turned
<1>6. Ages(w, S \cup N, U)
  <2>1. w # Down => w.currentFrame = U
    BY DEF Turned
  <2>2. MaxDelay \in Nat
    BY DelayAssumption, WindowAssumption
  <2>3. ASSUME NEW p \in S
        PROVE  /\ p.frame \in Int
               /\ ToSet(p.sets) # {} => p.frame <= U
               /\ p.fseq # -1 => /\ p.fseq = p.frame
                                 /\ 1 <= p.frame /\ p.frame <= U /\ U - MaxDelay <= p.frame
    <3>1. p \in P /\ p.frame \in Int
      BY <1>1, <1>2, <2>3
    <3>2. p.fseq # -1 => p.fseq = p.frame /\ 1 <= p.frame /\ p.frame <= T
      BY <3>1 DEF PlacesOK, Ages
    <3>3. p.fseq # -1 => U - MaxDelay <= p.frame
      BY <2>3 DEF Kept
    <3> QED
      BY <1>1, <1>2, <3>1, <3>2, <3>3
  <2>4. ASSUME NEW p \in N
        PROVE  /\ p.frame \in Int
               /\ ToSet(p.sets) # {} => p.frame <= U
               /\ p.fseq # -1 => /\ p.fseq = p.frame
                                 /\ 1 <= p.frame /\ p.frame <= U /\ U - MaxDelay <= p.frame
    BY <1>1, <2>2 DEF Newly
  <2> QED
    BY <2>1, <2>3, <2>4 DEF Ages
<1>7. Placed(w, S \cup N, c, later)
  <2>1. ASSUME NEW p \in S, NEW m \in ToSet(p.sets) PROVE m.place <= later
    <3>1. p \in P /\ PacketOK(s, p)
      BY <1>1
    <3>2. m.place <= now /\ m.place \in Int
      BY <3>1, PacketPlaces DEF PlacesOK, Placed
    <3> QED
      BY <1>1, <3>2
  <2>2. ASSUME NEW p \in N, NEW m \in ToSet(p.sets) PROVE m.place <= later
    BY <1>3, <1>4
  <2>3. ASSUME NEW kind \in Kinds, NEW o \in ShownOf(c, kind) PROVE o.place <= later
    <3>1. o.place <= now /\ o.place \in Int
      BY ShownPlaces DEF PlacesOK, Placed
    <3> QED
      BY <1>1, <3>1
  <2> QED
    BY <1>3, <2>1, <2>2, <2>3 DEF Placed
<1>8. Rising(S \cup N)
  <2> SUFFICES ASSUME NEW p \in S \cup N, NEW q \in S \cup N, p.kind = q.kind, p.frame <= q.frame,
                      NEW m \in ToSet(p.sets), NEW n \in ToSet(q.sets), m.sid = n.sid
               PROVE  m.place <= n.place
    BY DEF Rising
  <2>1. CASE p \in S /\ q \in S
    BY <1>1, <2>1 DEF PlacesOK, Rising
  <2>2. CASE p \in S /\ q \in N
    <3>1. p \in P
      BY <1>1, <2>2
    <3> QED
      BY <1>3, <1>4, <2>2, <3>1
  <2>3. CASE p \in N /\ q \in S
    <3>1. q \in P /\ p.frame = U /\ w # Down /\ p.kind \in w.mode.profiles /\ m \in ToSet(w.table[p.kind])
      BY <1>1, <1>4, <2>3
    <3>2. q.frame >= U
      BY <1>1, <1>2, <3>1
    <3>3. n.place = m.place /\ m.place \in Int
      BY <1>3, <3>1, <3>2
    <3> QED
      BY <3>3
  <2>4. CASE p \in N /\ q \in N
    <3>1. w # Down /\ p.kind \in w.mode.profiles /\ m \in ToSet(w.table[p.kind]) /\ n \in ToSet(w.table[p.kind])
      BY <1>4, <2>4
    <3>2. m = n /\ m.place \in Int
      BY <1>3, <1>5, <3>1 DEF Apart
    <3> QED
      BY <3>2
  <2> QED
    BY <2>1, <2>2, <2>3, <2>4
<1>9. Ahead(w, S \cup N, c)
  <2> SUFFICES ASSUME w # Down, NEW kind \in w.mode.profiles, NEW t \in ToSet(w.table[kind])
               PROVE  /\ \A p \in S \cup N : p.kind = kind =>
                           \A m \in ToSet(p.sets) : m.sid = t.sid =>
                             m.place <= t.place /\ (p.frame >= w.currentFrame => m.place = t.place)
                      /\ \A o \in ShownOf(c, kind) : o.sid = t.sid => o.place <= t.place
    BY DEF Ahead
  <2>1. w.currentFrame = U /\ t.place \in Int
    BY <1>3 DEF Turned
  <2>2. ASSUME NEW p \in S, p.kind = kind, NEW m \in ToSet(p.sets), m.sid = t.sid
        PROVE  m.place <= t.place /\ (p.frame >= U => m.place = t.place)
    <3>1. p \in P
      BY <1>1
    <3> QED
      BY <1>3, <2>2, <3>1
  <2>3. ASSUME NEW p \in N, p.kind = kind, NEW m \in ToSet(p.sets), m.sid = t.sid
        PROVE  m.place <= t.place /\ m.place = t.place
    <3>1. m \in ToSet(w.table[kind])
      BY <1>4, <2>3
    <3>2. m = t
      BY <1>5, <2>3, <3>1 DEF Apart
    <3> QED
      BY <2>1, <3>2
  <2> QED
    BY <1>3, <2>1, <2>2, <2>3
<1>10. Excused(S \cup N, c, U)
  <2> SUFFICES ASSUME NEW p \in S \cup N, p.fseq # -1,
                      NEW m \in ToSet(p.sets), NEW o \in ShownOf(c, p.kind), m.sid = o.sid, m.place < o.place
               PROVE  (p.fseq < c.currentFrame /\ c.currentFrame <= U) \/ Outrun(S \cup N, p)
    BY DEF Excused
  <2>1. CASE p \in S
    <3>1. p \in P
      BY <1>1, <2>1
    <3>2. (p.fseq < c.currentFrame /\ c.currentFrame <= T) \/ Outrun(P, p)
      BY <3>1 DEF PlacesOK, Excused
    <3>3. ASSUME Outrun(P, p) PROVE Outrun(S \cup N, p)
      BY <2>1, <3>3 DEF Outrun, Kept
    <3>4. c.currentFrame \in Int
      BY ClientIs
    <3> QED
      BY <1>1, <3>2, <3>3, <3>4
  <2>2. CASE p \in N
    <3>1. w # Down /\ p.kind \in w.mode.profiles /\ m \in ToSet(w.table[p.kind])
      BY <1>4, <2>2
    <3>2. o.place <= m.place /\ m.place \in Int
      BY <1>3, <3>1
    <3>3. p.kind \in Kinds /\ PacketOK(s, p)
      BY <2>2, PacketPlaces
    <3>4. o.place \in Int
      BY <3>3, ShownPlaces
    <3> QED
      BY <3>2, <3>4
  <2> QED
    BY <2>1, <2>2
<1> QED
  BY <1>6, <1>7, <1>8, <1>9, <1>10 DEF PlacesOK

-----------------------------------------------------------------------------
(* The packets of a step of the server.                                    *)

LEMMA PartsSay ==
  ASSUME NEW s, NEW kind, NEW table, NEW sets, NEW fseq, NEW frame,
         NEW ps, ps = Parts(s, kind, table, sets, fseq, frame), NEW p \in ToSet(ps)
  PROVE  p.fseq = fseq /\ p.frame = frame
<1>1. PICK n \in DOMAIN ps : p = ps[n]
  BY DEF ToSet
<1> QED
  BY <1>1 DEF Parts

LEMMA EmptyBundlesSay ==
  ASSUME NEW s, NEW mode \in Modes, NEW frame,
         NEW ps, ps = EmptyBundles(s, mode, frame), NEW p \in ToSet(ps)
  PROVE  p.fseq = -1 /\ p.frame = frame
<1> DEFINE Empty(kind) == Parts(s, kind, <<>>, <<>>, -1, frame)
<1>1. PICK on : on = mode.profiles
  OBVIOUS
<1>2. PICK pc, po, pb : /\ pc = (IF "cursor" \in on THEN Empty("cursor") ELSE <<>>)
                        /\ po = (IF "object" \in on THEN Empty("object") ELSE <<>>)
                        /\ pb = (IF "blob" \in on THEN Empty("blob") ELSE <<>>)
  OBVIOUS
<1>3. ps = pc \o po \o pb
  BY <1>1, <1>2 DEF EmptyBundles
<1>4. ASSUME NEW kind \in Kinds, NEW q, q = (IF kind \in on THEN Empty(kind) ELSE <<>>)
      PROVE  Bundled(s, q) /\ \A r \in ToSet(q) : r.fseq = -1 /\ r.frame = frame
  <2>1. CASE kind \in on
    <3>1. q = Parts(s, kind, <<>>, <<>>, -1, frame)
      BY <1>4, <2>1
    <3>2. Bundled(s, q)
      BY <3>1, EmptyTurns
    <3> QED
      BY <3>1, <3>2, PartsSay
  <2>2. CASE kind \notin on
    <3>1. q = <<>>
      BY <1>4, <2>2
    <3> QED
      BY <3>1, NoneBundled
  <2> QED
    BY <2>1, <2>2
<1> HIDE DEF Empty
<1>5. "cursor" \in Kinds /\ "object" \in Kinds /\ "blob" \in Kinds
  BY DEF Kinds
<1>6. Bundled(s, pc) /\ \A r \in ToSet(pc) : r.fseq = -1 /\ r.frame = frame
  BY <1>2, <1>4, <1>5
<1>7. Bundled(s, po) /\ \A r \in ToSet(po) : r.fseq = -1 /\ r.frame = frame
  BY <1>2, <1>4, <1>5
<1>8. Bundled(s, pb) /\ \A r \in ToSet(pb) : r.fseq = -1 /\ r.frame = frame
  BY <1>2, <1>4, <1>5
<1>9. PICK pco : pco = pc \o po
  OBVIOUS
<1>10. Bundled(s, pco) /\ ToSet(pco) = ToSet(pc) \cup ToSet(po)
  BY <1>6, <1>7, <1>9, BundledConcat
<1>11. ToSet(ps) = ToSet(pco) \cup ToSet(pb)
  BY <1>3, <1>8, <1>9, <1>10, BundledConcat
<1> QED
  BY <1>6, <1>7, <1>8, <1>10, <1>11

(* What is kept of packets on their way when frame is sent: those that are *)
(* not too late.                                                           *)
LEMMA LateAreDropped ==
  ASSUME NEW s, NEW N, \A q \in N : PacketOK(s, q.packet),
         \A p \in Packets(N) : p.frame \in Int,
         NEW frame \in Int, NEW U \in Int, U <= frame,
         NEW S, S = {q \in N : q.packet.source = s => frame - q.packet.frame <= MaxDelay}
  PROVE  Kept(Packets(N), Packets(S), U)
<1>1. MaxDelay \in Int
  BY DelayAssumption, WindowAssumption
<1>2. \A q \in N : q.packet \in Packets(N) /\ q.packet.source = s
  BY DEF Packets, PacketOK
<1>3. \A q \in N : q \in S <=> frame - q.packet.frame <= MaxDelay
  BY <1>2
<1>4. ASSUME NEW p \in Packets(S)
      PROVE  p \in Packets(N) /\ p.frame \in Int /\ frame - p.frame <= MaxDelay
  BY <1>2, <1>3, <1>4 DEF Packets
<1>5. ASSUME NEW p \in Packets(S), NEW q \in Packets(N), p.frame < q.frame
      PROVE  q \in Packets(S)
  <2>1. PICK r \in N : q = r.packet
    BY DEF Packets
  <2>2. frame - q.frame <= MaxDelay
    BY <1>1, <1>4, <1>5
  <2>3. r \in S
    BY <1>3, <2>1, <2>2
  <2> QED
    BY <2>1, <2>3 DEF Packets
<1>6. \A p \in Packets(S) : U - MaxDelay <= p.frame
  BY <1>1, <1>4
<1>7. Packets(S) \subseteq Packets(N)
  BY <1>4
<1> QED
  BY <1>5, <1>6, <1>7 DEF Kept

(* What the invariant says at a step of the server. *)
LEMMA BeforeSending ==
  ASSUME NEW s, IInv(s), PlaceInv(s)
  PROVE  /\ ClientOK(s, client) /\ clock \in Int
         /\ server = [x \in {s} |-> server[s]]
         /\ server[s] # Down => ServerOK(server[s])
         /\ \A q \in net : PacketOK(s, q.packet)
         /\ \A p \in Packets(net) : PacketOK(s, p) /\ p.frame \in Int
         /\ \E T \in 0 .. MaxFrame : PlacesOK(server[s], Packets(net), client, clock, T)
<1>1. ClientOK(s, client) /\ clock \in Int
  BY DEF IInv, ClientInv, CountersInv
<1>2. server = [x \in {s} |-> server[s]] /\ (server[s] # Down => ServerOK(server[s]))
  BY DEF IInv, ServerInv
<1>3. \A q \in net : PacketOK(s, q.packet)
  BY DEF IInv, NetInv
<1>4. \A p \in Packets(net) : PacketOK(s, p)
  BY <1>3 DEF Packets
<1>5. \A p \in Packets(net) : p.frame \in Int
  BY DEF PlaceInv, PlacesOK, Ages
<1> QED
  BY <1>1, <1>2, <1>3, <1>4, <1>5 DEF PlaceInv

-----------------------------------------------------------------------------
(* Each action keeps the places in order.                                  *)

LEMMA StartPlaces ==
  ASSUME NEW s, IInv(s), PlaceInv(s), Start(s)
  PROVE  PlaceInv(s)'
<1>1. PICK mode \in Modes :
         /\ server' = [server EXCEPT ![s] = Booted(mode)]
         /\ Network({q \in net : q.packet.source # s}, EmptyBundles(s, mode, 0), read)
  BY DEF Start
<1>2. PICK w, ps, S : /\ w = Booted(mode) /\ ps = EmptyBundles(s, mode, 0)
                      /\ S = {q \in net : q.packet.source # s}
  OBVIOUS
<1>3. client' = client /\ clock' = clock
  BY DEF Start
<1>4. /\ ClientOK(s, client) /\ server = [x \in {s} |-> server[s]]
      /\ \A q \in net : PacketOK(s, q.packet)
      /\ \E T \in 0 .. MaxFrame : PlacesOK(server[s], Packets(net), client, clock, T)
  BY BeforeSending
<1>5. server'[s] = w
  BY <1>1, <1>2, <1>4
<1>6. /\ w.mode.profiles = mode.profiles /\ w.currentFrame = 0
      /\ \A kind \in w.mode.profiles : ToSet(w.table[kind]) = {}
  BY <1>2 DEF Booted, ToSet
<1>7. PICK P : P = Packets(net')
  OBVIOUS
<1>8. P = ToSet(ps)
  <2>1. S = {}
    BY <1>2, <1>4 DEF PacketOK
  <2>2. Bundled(s, ps) /\ Network(S, ps, read)
    BY <1>1, <1>2, EmptyBundlesAre
  <2>3. Packets(S) = {}
    BY <2>1 DEF Packets
  <2> QED
    BY <1>7, <2>2, <2>3, PacketsAre
<1>9. \A p \in P : ToSet(p.sets) = {} /\ p.fseq = -1 /\ p.frame = 0
  <2>1. \A p \in ToSet(ps) : ToSet(p.sets) = {}
    BY <1>2, EmptyBundlesAre
  <2>2. \A p \in ToSet(ps) : p.fseq = -1 /\ p.frame = 0
    BY <1>2, EmptyBundlesSay
  <2> QED
    BY <1>8, <2>1, <2>2
<1>10. 0 \in 0 .. MaxFrame
  BY BoundsAssumption
<1>11. \A kind \in Kinds : \A o \in ShownOf(client, kind) : o.place <= clock
  BY <1>4 DEF PlacesOK, Placed
<1>12. PICK c, now : c = client /\ now = clock
  OBVIOUS
<1>13. Ages(w, P, 0) /\ Placed(w, P, c, now)
  BY <1>6, <1>9, <1>10, <1>11, <1>12 DEF Ages, Placed
<1>14. Rising(P) /\ Excused(P, c, 0)
  BY <1>9 DEF Rising, Excused
<1>15. Ahead(w, P, c)
  BY <1>6 DEF Ahead
<1>16. PlacesOK(w, P, c, now, 0)
  BY <1>13, <1>14, <1>15 DEF PlacesOK
<1> QED
  BY <1>3, <1>5, <1>7, <1>10, <1>12, <1>16 DEF PlaceInv

(* The lemma above for a step. *)
LEMMA StepPlaces ==
  ASSUME NEW s, IInv(s), NEW w, server'[s] = w, w # Down => ServerOK(w),
         NEW T, PlacesOK(server[s], Packets(net), client, clock, T),
         clock' \in Int, client' = client,
         NEW U \in 0 .. MaxFrame, Turned(server[s], w, clock, clock', T, U),
         NEW S, Kept(Packets(net), S, U),
         NEW N, \A p \in N : PacketOK(s, p), Newly(w, N, U),
         Packets(net') = S \cup N
  PROVE  PlaceInv(s)'
<1>1. PICK v, P, c, now, later : /\ v = server[s] /\ P = Packets(net) /\ c = client
                                 /\ now = clock /\ later = clock'
  OBVIOUS
<1>2. /\ v # Down => ServerOK(v)
      /\ ClientOK(s, c) /\ now \in Int /\ later \in Int
      /\ \A p \in P : PacketOK(s, p)
  BY <1>1 DEF IInv, ServerInv, ClientInv, CountersInv, NetInv, Packets
<1>3. PlacesOK(v, P, c, now, T) /\ Turned(v, w, now, later, T, U) /\ Kept(P, S, U)
  BY <1>1
<1>4. PlacesOK(w, S \cup N, c, later, U)
  <2>1. /\ w # Down => ServerOK(w)
        /\ U \in 0 .. MaxFrame /\ Newly(w, N, U) /\ \A p \in N : PacketOK(s, p)
    OBVIOUS
  <2> QED
    BY ONLY <1>2, <1>3, <2>1, SendPlaces, Zenon
<1> QED
  BY <1>1, <1>4 DEF PlaceInv

LEMMA CrashPlaces ==
  ASSUME NEW s, IInv(s), PlaceInv(s), Crash(s)
  PROVE  PlaceInv(s)'
<1>1. server' = [server EXCEPT ![s] = Down] /\ net' = net /\ client' = client /\ clock' = clock
  BY DEF Crash
<1>2. PICK T \in 0 .. MaxFrame : PlacesOK(server[s], Packets(net), client, clock, T)
  BY DEF PlaceInv
<1>3. server'[s] = Down
  BY <1>1, BeforeSending
<1>4. PlacesOK(Down, Packets(net), client, clock, T)
  BY <1>2 DEF PlacesOK, Ages, Placed, Ahead
<1> QED
  BY <1>1, <1>3, <1>4 DEF PlaceInv

LEMMA ShutdownPlaces ==
  ASSUME NEW s, IInv(s), PlaceInv(s), Shutdown(s)
  PROVE  PlaceInv(s)'
<1>1. PICK v, frame : v = server[s] /\ frame = v.currentFrame + 2
  OBVIOUS
<1>2. PICK ps, S : /\ ps = EmptyBundles(s, v.mode, frame)
                   /\ S = {q \in net : q.packet.source = s => frame - q.packet.frame <= MaxDelay}
  OBVIOUS
<1>3. /\ v # Down /\ server' = [server EXCEPT ![s] = Down]
      /\ client' = client /\ clock' = clock
      /\ Network(S, ps, read)
  BY <1>1, <1>2 DEF Shutdown, Deliver
<1>4. /\ clock \in Int /\ server = [x \in {s} |-> v]
      /\ ServerOK(v)
      /\ \A q \in net : PacketOK(s, q.packet)
      /\ \A p \in Packets(net) : PacketOK(s, p) /\ p.frame \in Int
      /\ \E T \in 0 .. MaxFrame : PlacesOK(v, Packets(net), client, clock, T)
  BY <1>1, <1>3, BeforeSending
<1>5. PICK T \in 0 .. MaxFrame : PlacesOK(v, Packets(net), client, clock, T)
  BY <1>4
<1>6. v.currentFrame = T /\ T \in Int
  BY <1>3, <1>5, BoundsAssumption DEF PlacesOK, Ages
<1>7. frame \in Int /\ T <= frame
  BY <1>1, <1>6
<1>8. Kept(Packets(net), Packets(S), T)
  BY <1>2, <1>4, <1>6, <1>7, LateAreDropped
<1>9. v.mode \in Modes
  BY <1>4 DEF ServerOK
<1>10. Bundled(s, ps) /\ \A p \in ToSet(ps) : ToSet(p.sets) = {} /\ p.fseq = -1 /\ p.frame = frame
  <2>1. Bundled(s, ps) /\ \A p \in ToSet(ps) : ToSet(p.sets) = {}
    BY <1>2, <1>9, EmptyBundlesAre
  <2>2. \A p \in ToSet(ps) : p.fseq = -1 /\ p.frame = frame
    BY <1>2, <1>9, EmptyBundlesSay
  <2> QED
    BY <2>1, <2>2
<1>11. Packets(net') = Packets(S) \cup ToSet(ps)
  BY <1>3, <1>10, PacketsAre
<1>12. Newly(Down, ToSet(ps), T) /\ \A p \in ToSet(ps) : PacketOK(s, p)
  BY <1>7, <1>10 DEF Newly, Bundled
<1>13. Turned(v, Down, clock, clock', T, T)
  BY <1>3, <1>4, <1>6 DEF Turned
<1>14. server'[s] = Down
  BY <1>3, <1>4
<1> QED
  BY <1>1, <1>3, <1>4, <1>5, <1>8, <1>11, <1>12, <1>13, <1>14, StepPlaces


(* Parts of a bundle of the table of w. *)
LEMMA PartsAreNew ==
  ASSUME NEW s, NEW w, w # Down, ServerOK(w), NEW kind \in w.mode.profiles,
         NEW list, ToSet(list) \subseteq ToSet(w.table[kind]),
         NEW sets \in Seq(Messages), OnePerSid(sets), ToSet(sets) \subseteq ToSet(list),
         NEW U \in Int, NEW fseq \in Int, fseq = -1 \/ (fseq = U /\ 1 <= U),
         NEW ps, ps = Parts(s, kind, list, sets, fseq, U)
  PROVE  Newly(w, ToSet(ps), U) /\ Bundled(s, ps)
<1>1. kind \in Kinds
  BY TablesAre
<1>2. Bundle(s, kind, sets, ps)
  <2>1. \A m \in ToSet(sets) : m.sid \in Sids(list)
    BY DEF Sids, ToSet
  <2>2. /\ sets \in Seq(Messages) /\ OnePerSid(sets) /\ fseq \in Int
        /\ ps = Parts(s, kind, list, sets, fseq, U)
    OBVIOUS
  <2> QED
    BY ONLY <1>1, <2>1, <2>2, PartsBundled, Zenon
<1>3. Bundled(s, ps) /\ \A p \in ToSet(ps) : p.kind = kind /\ ToSet(p.sets) \subseteq ToSet(w.table[kind])
  BY <1>2 DEF Bundle
<1>4. \A p \in ToSet(ps) : p.fseq = fseq /\ p.frame = U
  BY PartsSay
<1> QED
  BY <1>3, <1>4 DEF Newly

LEMMA FramePlaces ==
  ASSUME NEW s, IInv(s), PlaceInv(s), IInv(s)', NEW kind \in Kinds, Frame(s, kind)
  PROVE  PlaceInv(s)'
<1>1. PICK session, table, veiled, list, sets, frame, ps, w, S :
        IsFrame(s, kind, session, table, veiled, list, sets, frame, ps, w, S)
  BY FrameIs
<1>2. PICK v : v = server[s]
  OBVIOUS
<1>3. /\ v # Down /\ kind \in v.mode.profiles
      /\ session \in Int /\ v.session <= session
      /\ table \in Seq(Messages) /\ TableOK(table, session) /\ sets \in Seq(Messages)
      /\ list = Listed(table, veiled) /\ (kind = "object" => veiled = {})
      /\ OnePerSid(sets) /\ ToSet(sets) \subseteq ToSet(list)
      /\ Becomes(v, kind, session, table, veiled, frame, w) /\ frame \in Int
      /\ ps = Parts(s, kind, list, sets, frame, frame)
  BY <1>1, <1>2 DEF IsFrame, IsChange
<1>4. /\ frame = v.currentFrame + 1 /\ v.currentFrame < MaxFrame
      /\ \A m \in ToSet(table) :
           \/ \E o \in ToSet(v.table[kind]) : o.sid = m.sid /\ o.place = m.place
           \/ m.place = clock + 1
      /\ S = {q \in net : q.packet.source = s => frame - q.packet.frame <= MaxDelay}
      /\ Network(S, ps, read)
      /\ server' = [x \in {s} |-> w] /\ clock' = clock + 1 /\ client' = client
  BY <1>1, <1>2 DEF IsFrame
<1>5. /\ clock \in Int /\ ServerOK(v)
      /\ \A q \in net : PacketOK(s, q.packet)
      /\ \A p \in Packets(net) : p.frame \in Int
      /\ \E T \in 0 .. MaxFrame : PlacesOK(v, Packets(net), client, clock, T)
  BY <1>2, <1>3, BeforeSending
<1>6. PICK T \in 0 .. MaxFrame : PlacesOK(v, Packets(net), client, clock, T)
  BY <1>5
<1>7. v.currentFrame = T /\ T \in Int
  BY <1>3, <1>6, BoundsAssumption DEF PlacesOK, Ages
<1>8. frame \in 0 .. MaxFrame /\ T < frame /\ 1 <= frame /\ frame \in Int
  BY <1>4, <1>6, <1>7, BoundsAssumption
<1>9. server'[s] = w /\ ServerOK(w) /\ w # Down
  BY <1>3, <1>4, <1>5, BecomesIs
<1>10. /\ w.mode = v.mode /\ w.currentFrame = frame
       /\ w.table[kind] = table /\ kind \in w.mode.profiles
       /\ \A k \in w.mode.profiles \ {kind} : w.table[k] = v.table[k]
  BY <1>3, <1>5, BecomesIs
<1>11. Kept(Packets(net), Packets(S), frame)
  <2>1. PICK N, U : N = net /\ U = frame
    OBVIOUS
  <2>2. /\ \A q \in N : PacketOK(s, q.packet)
        /\ \A p \in Packets(N) : p.frame \in Int
        /\ frame \in Int /\ U \in Int /\ U <= frame
        /\ S = {q \in N : q.packet.source = s => frame - q.packet.frame <= MaxDelay}
    BY <1>4, <1>5, <1>8, <2>1
  <2>3. Kept(Packets(N), Packets(S), U)
    BY ONLY <2>2, LateAreDropped, Zenon
  <2> QED
    BY <2>1, <2>3
<1>12. Newly(w, ToSet(ps), frame) /\ Bundled(s, ps)
  <2>1. /\ kind \in w.mode.profiles /\ ToSet(list) \subseteq ToSet(w.table[kind])
        /\ frame \in Int
        /\ frame = -1 \/ (frame = frame /\ 1 <= frame)
    BY <1>3, <1>8, <1>10, ListedIs DEF TableOK
  <2> QED
    BY ONLY <1>3, <1>9, <2>1, PartsAreNew, Zenon
<1>13. Packets(net') = Packets(S) \cup ToSet(ps) /\ \A p \in ToSet(ps) : PacketOK(s, p)
  BY <1>4, <1>12, PacketsAre DEF Bundled
<1>14. Turned(v, w, clock, clock', T, frame)
  <2>1. clock <= clock' /\ clock < clock + 1
    BY <1>4, <1>5
  <2>2. ASSUME NEW k \in w.mode.profiles PROVE Apart(ToSet(w.table[k]))
    <3>1. w.table[k] \in Seq(Messages) /\ OnePerSid(w.table[k])
      BY <1>9, TablesAre
    <3> QED
      BY <3>1, OnePerSidIs
  <2>3. ASSUME NEW k \in w.mode.profiles, NEW t \in ToSet(w.table[k])
        PROVE  \/ T < frame /\ clock < t.place /\ t.place <= clock'
               \/ \E o \in ToSet(v.table[k]) : o.sid = t.sid /\ o.place = t.place
    <3>1. CASE k = kind
      BY <1>4, <1>5, <1>8, <1>10, <2>1, <3>1
    <3>2. CASE k # kind
      BY <1>10, <3>2
    <3> QED
      BY <3>1, <3>2
  <2> QED
    BY <1>3, <1>7, <1>8, <1>9, <1>10, <2>1, <2>2, <2>3 DEF Turned
<1>15. clock' \in Int
  BY <1>4, <1>5
<1> QED
  BY <1>2, <1>4, <1>6, <1>8, <1>9, <1>11, <1>12, <1>13, <1>14, <1>15, StepPlaces

(* A step that leaves the table. *)
LEMMA SameTable ==
  ASSUME NEW v, v # Down, ServerOK(v), NEW now \in Int, NEW T \in Int, NEW U \in Int, T <= U,
         NEW w, w # Down, w.mode = v.mode, w.table = v.table, w.currentFrame = U
  PROVE  Turned(v, w, now, now, T, U)
<1>1. ASSUME NEW k \in v.mode.profiles PROVE Apart(ToSet(v.table[k]))
  <2>1. v.table[k] \in Seq(Messages) /\ OnePerSid(v.table[k])
    BY TablesAre
  <2> QED
    BY <2>1, OnePerSidIs
<1> QED
  BY <1>1 DEF Turned

LEMMA FullSays ==
  ASSUME NEW s, NEW v, ServerOK(v), NEW kind \in Kinds, NEW frame \in Int,
         NEW ps, ps = Parts(s, kind, Everything(v, kind), Everything(v, kind), -1, frame),
         NEW w, w # Down, ServerOK(w), w.mode = v.mode, w.table = v.table
  PROVE  Bundled(s, ps) /\ Newly(w, ToSet(ps), frame)
<1>1. PICK all, minus : all = Everything(v, kind) /\ minus = -1
  OBVIOUS
<1>2. /\ all \in Seq(Messages) /\ OnePerSid(all)
      /\ kind \in v.mode.profiles => all = v.table[kind]
      /\ kind \notin v.mode.profiles => all = <<>>
  BY <1>1, EverythingIs
<1>3. /\ ps = Parts(s, kind, all, all, minus, frame)
      /\ minus \in Int /\ (minus = -1 \/ (minus = frame /\ 1 <= frame))
  BY <1>1
<1>4. CASE kind \in v.mode.profiles
  <2>1. kind \in w.mode.profiles /\ ToSet(all) \subseteq ToSet(w.table[kind])
    BY <1>2, <1>4
  <2> QED
    BY <1>2, <1>3, <2>1, PartsAreNew
<1>5. CASE kind \notin v.mode.profiles
  <2>1. PICK none : none = <<>>
    OBVIOUS
  <2>2. ps = Parts(s, kind, none, none, minus, frame) /\ ToSet(none) = {}
    BY <1>2, <1>3, <1>5, <2>1 DEF ToSet
  <2>3. Bundle(s, kind, none, ps)
    <3>1. /\ none \in Seq(Messages) /\ OnePerSid(none) /\ minus \in Int /\ kind \in Kinds
          /\ \A m \in ToSet(none) : m.sid \in Sids(none)
      BY <1>3, <2>1, <2>2 DEF OnePerSid
    <3> QED
      BY ONLY <2>2, <3>1, PartsBundled, Zenon
  <2>4. Bundled(s, ps) /\ \A p \in ToSet(ps) : ToSet(p.sets) = {}
    BY <2>2, <2>3 DEF Bundle
  <2>5. \A p \in ToSet(ps) : p.fseq = -1 /\ p.frame = frame
    BY <1>1, <1>3, PartsSay
  <2> QED
    BY <2>4, <2>5 DEF Newly
<1> QED
  BY <1>4, <1>5

LEMMA FullPlaces ==
  ASSUME NEW s, IInv(s), PlaceInv(s), SendFullMessages(s)
  PROVE  PlaceInv(s)'
<1>1. PICK v, frame : v = server[s] /\ frame = server[s].currentFrame
  OBVIOUS
<1>2. PICK pc, po, pb :
        /\ pc = Parts(s, "cursor", Everything(v, "cursor"), Everything(v, "cursor"), -1, frame)
        /\ po = Parts(s, "object", Everything(v, "object"), Everything(v, "object"), -1, frame)
        /\ pb = Parts(s, "blob", Everything(v, "blob"), Everything(v, "blob"), -1, frame)
  OBVIOUS
<1>3. PICK ps, S : /\ ps = pc \o po \o pb
                   /\ S = {q \in net : q.packet.source = s => frame - q.packet.frame <= MaxDelay}
  OBVIOUS
<1>4. /\ v # Down
      /\ server' = [server EXCEPT ![s].whole = Kinds] /\ client' = client /\ clock' = clock
      /\ Network(S, ps, read)
  BY <1>1, <1>2, <1>3 DEF SendFullMessages, Deliver
<1>5. /\ clock \in Int /\ ServerOK(v) /\ server = [x \in {s} |-> v]
      /\ \A q \in net : PacketOK(s, q.packet)
      /\ \A p \in Packets(net) : p.frame \in Int
      /\ \E T \in 0 .. MaxFrame : PlacesOK(v, Packets(net), client, clock, T)
  BY <1>1, <1>4, BeforeSending
<1>6. PICK T \in 0 .. MaxFrame : PlacesOK(v, Packets(net), client, clock, T)
  BY <1>5
<1>12. PICK w : w = Completed(v)
  OBVIOUS
<1>13. /\ ServerOK(w) /\ w # Down /\ server'[s] = w
       /\ w.mode = v.mode /\ w.table = v.table /\ w.currentFrame = v.currentFrame
  <2>1. PICK f : f = server
    OBVIOUS
  <2>2. /\ ServerOK(w) /\ w # Down /\ w.mode = v.mode /\ w.table = v.table
        /\ w.currentFrame = v.currentFrame
        /\ w = [v EXCEPT !.whole = Kinds] /\ f = [x \in {s} |-> v]
    BY <1>5, <1>12, <2>1, CompletedIs
  <2>3. [f EXCEPT ![s].whole = Kinds] = [x \in {s} |-> w]
    BY <2>2
  <2> QED
    BY <1>4, <2>1, <2>2, <2>3
<1>7. frame = T /\ T \in Int
  BY <1>1, <1>4, <1>6, BoundsAssumption DEF PlacesOK, Ages
<1>8. Kept(Packets(net), Packets(S), T)
  <2>1. PICK N, U : N = net /\ U = T
    OBVIOUS
  <2>2. /\ \A q \in N : PacketOK(s, q.packet)
        /\ \A p \in Packets(N) : p.frame \in Int
        /\ frame \in Int /\ U \in Int /\ U <= frame
        /\ S = {q \in N : q.packet.source = s => frame - q.packet.frame <= MaxDelay}
    BY <1>3, <1>5, <1>7, <2>1
  <2>3. Kept(Packets(N), Packets(S), U)
    BY ONLY <2>2, LateAreDropped, Zenon
  <2> QED
    BY <2>1, <2>3
<1>9. Bundled(s, ps) /\ Newly(w, ToSet(ps), T)
  <2>1. "cursor" \in Kinds /\ "object" \in Kinds /\ "blob" \in Kinds
    BY DEF Kinds
  <2>2. Bundled(s, pc) /\ Newly(w, ToSet(pc), T)
    BY <1>2, <1>4, <1>5, <1>7, <1>13, <2>1, FullSays
  <2>3. Bundled(s, po) /\ Newly(w, ToSet(po), T)
    BY <1>2, <1>4, <1>5, <1>7, <1>13, <2>1, FullSays
  <2>4. Bundled(s, pb) /\ Newly(w, ToSet(pb), T)
    BY <1>2, <1>4, <1>5, <1>7, <1>13, <2>1, FullSays
  <2>5. PICK pco : pco = pc \o po
    OBVIOUS
  <2>6. Bundled(s, pco) /\ ToSet(pco) = ToSet(pc) \cup ToSet(po)
    BY <2>2, <2>3, <2>5, BundledConcat
  <2>7. Bundled(s, ps) /\ ToSet(ps) = ToSet(pco) \cup ToSet(pb)
    BY <1>3, <2>4, <2>5, <2>6, BundledConcat
  <2> QED
    BY <2>2, <2>3, <2>4, <2>6, <2>7 DEF Newly
<1>10. Packets(net') = Packets(S) \cup ToSet(ps) /\ \A p \in ToSet(ps) : PacketOK(s, p)
  BY <1>4, <1>9, PacketsAre DEF Bundled
<1>11. Turned(v, w, clock, clock', T, T)
  <2>1. PICK now, U : now = clock /\ U = T
    OBVIOUS
  <2>2. /\ v # Down /\ ServerOK(v) /\ now \in Int /\ T \in Int /\ U \in Int /\ T <= U
        /\ w # Down /\ w.mode = v.mode /\ w.table = v.table /\ w.currentFrame = U
    <3>1. U \in Int /\ T <= U /\ T \in Int
      BY <1>7, <2>1
    <3>2. w.currentFrame = U
      BY <1>1, <1>7, <1>13, <2>1
    <3>3. v # Down /\ ServerOK(v) /\ now \in Int
      BY <1>4, <1>5, <2>1
    <3> QED
      BY <1>13, <3>1, <3>2, <3>3
  <2>3. Turned(v, w, now, now, T, U)
    BY ONLY <2>2, SameTable, Zenon
  <2> QED
    BY <1>4, <2>1, <2>3
<1> QED
  BY <1>1, <1>4, <1>5, <1>6, <1>8, <1>9, <1>10, <1>11, <1>13, StepPlaces

LEMMA PeriodicPlaces ==
  ASSUME NEW s, IInv(s), PlaceInv(s), IInv(s)', NEW kind \in Kinds, Periodic(s, kind)
  PROVE  PlaceInv(s)'
<1>1. PICK v, list, frame : /\ v = server[s] /\ list = Listed(v.table[kind], v.hidden[kind])
                            /\ frame = Min({v.currentFrame + 1, MaxFrame})
  OBVIOUS
<1>2. /\ v # Down /\ kind \in v.mode.profiles
      /\ clock' = clock /\ client' = client
  BY <1>1 DEF Periodic, Up
<1>3. /\ clock \in Int /\ server = [x \in {s} |-> v] /\ ServerOK(v)
      /\ \A q \in net : PacketOK(s, q.packet)
      /\ \A p \in Packets(net) : PacketOK(s, p) /\ p.frame \in Int
      /\ \E T \in 0 .. MaxFrame : PlacesOK(v, Packets(net), client, clock, T)
  BY <1>1, <1>2, BeforeSending
<1>4. PICK T \in 0 .. MaxFrame : PlacesOK(v, Packets(net), client, clock, T)
  BY <1>3
<1>5. v.currentFrame = T /\ T \in Int
  BY <1>2, <1>4, BoundsAssumption DEF PlacesOK, Ages
<1>6. /\ frame \in 0 .. MaxFrame /\ frame \in Int /\ T <= frame /\ 1 <= frame
      /\ T < MaxFrame => frame = T + 1
      /\ ~ (T < MaxFrame) => frame = MaxFrame /\ frame = T
  <2>1. T + 1 \in Int /\ MaxFrame \in Nat /\ 1 <= MaxFrame /\ T <= MaxFrame /\ 0 <= T
    BY <1>4, BoundsAssumption
  <2>2. Min({T + 1, MaxFrame}) = IF T + 1 <= MaxFrame THEN T + 1 ELSE MaxFrame
    BY <2>1, MinOfTwo
  <2>3. frame = IF T + 1 <= MaxFrame THEN T + 1 ELSE MaxFrame
    BY <1>1, <1>5, <2>2
  <2> QED
    BY <1>5, <2>1, <2>3
<1>7. PICK sets : sets = IF v.mode.full THEN list ELSE <<>>
  OBVIOUS
<1>8. PICK ps : ps = Parts(s, kind, list, sets, frame, frame)
  OBVIOUS
<1>9. /\ server' = [server EXCEPT ![s].currentFrame = frame, ![s].whole = server[s].whole \ {kind}]
      /\ IF v.currentFrame < MaxFrame THEN Deliver(s, ps, frame)
         ELSE Network({q \in net : q.packet.fseq = MaxFrame}
                        \cup {[packet |-> ps[n], number |-> 0] : n \in DOMAIN ps},
                      <<>>, Disorder)
  BY <1>1, <1>7, <1>8 DEF Periodic
<1>10. list \in Seq(Messages) /\ OnePerSid(list) /\ ToSet(list) \subseteq ToSet(v.table[kind])
  BY <1>1, <1>2, <1>3, TablesAre, ListedIs
<1>11. sets \in Seq(Messages) /\ OnePerSid(sets) /\ ToSet(sets) \subseteq ToSet(list)
  <2>1. <<>> \in Seq(Messages) /\ OnePerSid(<<>>) /\ ToSet(<<>>) = {}
    BY DEF OnePerSid, ToSet
  <2> QED
    BY <1>7, <1>10, <2>1
<1>12. PICK w : Becomes(v, kind, v.session, v.table[kind], v.hidden[kind], frame, w)
  BY DEF Becomes
<1>13. /\ server'[s] = w /\ ServerOK(w) /\ w # Down
       /\ w.mode = v.mode /\ w.table = v.table /\ w.currentFrame = frame
  <2>1. IsPeriodic(s, v, kind, frame, w)
    BY <1>2, <1>3, <1>6, <1>9, <1>12 DEF IsPeriodic
  <2>2. /\ server' = [x \in {s} |-> w] /\ ServerOK(w) /\ w # Down
        /\ w.mode = v.mode /\ w.table = v.table /\ w.session = v.session
        /\ w.currentFrame = frame
    BY ONLY <2>1, PeriodicServer, Zenon
  <2> QED
    BY <2>2
<1>14. Newly(w, ToSet(ps), frame) /\ Bundled(s, ps)
  <2>1. PICK U : U = frame
    OBVIOUS
  <2>2. /\ w # Down /\ ServerOK(w) /\ kind \in w.mode.profiles
        /\ ToSet(list) \subseteq ToSet(w.table[kind])
        /\ sets \in Seq(Messages) /\ OnePerSid(sets) /\ ToSet(sets) \subseteq ToSet(list)
        /\ U \in Int /\ frame \in Int /\ (frame = -1 \/ (frame = U /\ 1 <= U))
        /\ ps = Parts(s, kind, list, sets, frame, U)
    BY <1>2, <1>6, <1>8, <1>10, <1>11, <1>13, <2>1
  <2>3. Newly(w, ToSet(ps), U) /\ Bundled(s, ps)
    BY ONLY <2>2, PartsAreNew, Zenon
  <2> QED
    BY <2>1, <2>3
<1>15. \A p \in ToSet(ps) : PacketOK(s, p)
  BY <1>14 DEF Bundled
<1>16. Turned(v, w, clock, clock', T, frame)
  <2>1. PICK now : now = clock
    OBVIOUS
  <2>2. /\ v # Down /\ ServerOK(v) /\ now \in Int /\ T \in Int /\ frame \in Int /\ T <= frame
        /\ w # Down /\ w.mode = v.mode /\ w.table = v.table /\ w.currentFrame = frame
    BY <1>2, <1>3, <1>5, <1>6, <1>13, <2>1
  <2>3. Turned(v, w, now, now, T, frame)
    BY ONLY <2>2, SameTable, Zenon
  <2> QED
    BY <1>2, <2>1, <2>3
<1>17. clock' \in Int
  BY <1>2, <1>3
<1>18. PlacesOK(server[s], Packets(net), client, clock, T) /\ Turned(server[s], w, clock, clock', T, frame)
  BY <1>1, <1>4, <1>16
<1>19. ASSUME NEW P, Kept(Packets(net), P, frame), Packets(net') = P \cup ToSet(ps)
       PROVE  PlaceInv(s)'
  BY <1>2, <1>6, <1>13, <1>14, <1>15, <1>17, <1>18, <1>19, StepPlaces
<1>20. CASE T < MaxFrame
  <2>1. PICK S : S = {q \in net : q.packet.source = s => frame - q.packet.frame <= MaxDelay}
    OBVIOUS
  <2>2. Network(S, ps, read)
    BY <1>5, <1>9, <1>20, <2>1 DEF Deliver
  <2>3. Packets(net') = Packets(S) \cup ToSet(ps)
    BY <1>14, <2>2, PacketsAre
  <2>4. PICK N, U : N = net /\ U = frame
    OBVIOUS
  <2>5. /\ \A q \in N : PacketOK(s, q.packet)
        /\ \A p \in Packets(N) : p.frame \in Int
        /\ frame \in Int /\ U \in Int /\ U <= frame
        /\ S = {q \in N : q.packet.source = s => frame - q.packet.frame <= MaxDelay}
    BY <1>3, <1>6, <2>1, <2>4
  <2>6. Kept(Packets(N), Packets(S), U)
    BY ONLY <2>5, LateAreDropped, Zenon
  <2> QED
    BY <1>19, <2>3, <2>4, <2>6
<1>21. CASE ~ (T < MaxFrame)
  <2>1. frame = MaxFrame /\ frame = T
    BY <1>6, <1>21
  <2>2. PICK S, A : /\ S = {q \in net : q.packet.fseq = MaxFrame}
                    /\ A = {[packet |-> ps[n], number |-> 0] : n \in DOMAIN ps}
    OBVIOUS
  <2>3. Network(S \cup A, <<>>, Disorder)
    BY <1>5, <1>9, <1>21, <2>2
  <2>4. Packets(A) = ToSet(ps)
    <3>1. ToSet(ps) = {ps[n] : n \in DOMAIN ps}
      BY DEF ToSet
    <3>2. \A q \in A : q.packet \in ToSet(ps)
      BY <2>2, <3>1
    <3>3. ASSUME NEW n \in DOMAIN ps PROVE \E q \in A : q.packet = ps[n]
      <4>1. [packet |-> ps[n], number |-> 0] \in A
        BY <2>2
      <4>2. [packet |-> ps[n], number |-> 0].packet = ps[n]
        OBVIOUS
      <4> QED
        BY <4>1, <4>2
    <3> QED
      BY <3>1, <3>2, <3>3 DEF Packets
  <2>5. Packets(net') = Packets(S) \cup ToSet(ps)
    <3>1. PICK X, none : X = S \cup A /\ none = <<>>
      OBVIOUS
    <3>2. Bundled(s, none) /\ ToSet(none) = {} /\ Network(X, none, Disorder)
      BY <2>3, <3>1, NoneBundled
    <3>3. Packets(net') = Packets(X) \cup ToSet(none)
      BY <3>2, PacketsAre
    <3>4. Packets(X) = Packets(S) \cup Packets(A)
      BY <3>1 DEF Packets
    <3> QED
      BY <2>4, <3>2, <3>3, <3>4
  <2>6. Kept(Packets(net), Packets(S), frame)
    <3>1. Packets(S) \subseteq Packets(net)
      BY <2>2 DEF Packets
    <3>2. MaxDelay \in Nat /\ MaxFrame \in Nat
      BY DelayAssumption, WindowAssumption, BoundsAssumption
    <3>3. ASSUME NEW p \in Packets(S) PROVE p.fseq = MaxFrame /\ p.fseq # -1 /\ p \in Packets(net)
      BY <2>2, <3>2, <3>3 DEF Packets
    <3>4. ASSUME NEW p \in Packets(S) PROVE p.frame = MaxFrame
      BY <3>3, <1>4 DEF PlacesOK, Ages
    <3>5. ASSUME NEW q \in Packets(net), ToSet(q.sets) # {} PROVE ~ (MaxFrame < q.frame)
      <4>1. q.frame \in Int /\ q.frame <= T
        BY <1>4, <3>5 DEF PlacesOK, Ages
      <4> QED
        BY <2>1, <3>2, <4>1
    <3>6. frame - MaxDelay <= MaxFrame
      BY <2>1, <3>2
    <3> QED
      BY <3>1, <3>4, <3>5, <3>6 DEF Kept
  <2> QED
    BY <1>19, <2>5, <2>6
<1> QED
  BY <1>20, <1>21
-----------------------------------------------------------------------------
(* The packets on their way stay what they are when the client acts.       *)
LEMMA SamePackets ==
  ASSUME NEW s, NEW stays, Network(net, <<>>, stays)
  PROVE  Packets(net') = Packets(net)
<1>1. PICK none : none = <<>>
  OBVIOUS
<1>2. Bundled(s, none) /\ ToSet(none) = {} /\ Network(net, none, stays)
  BY <1>1, NoneBundled
<1>3. PICK N : N = net
  OBVIOUS
<1>4. Packets(net') = Packets(N) \cup ToSet(none)
  BY <1>2, <1>3, PacketsAre
<1> QED
  BY <1>2, <1>3, <1>4

(* A packet is read: what the client shows of a kind was shown before, or  *)
(* is said by the packet, which is not late then.                          *)
LEMMA ShownAfter ==
  ASSUME NEW s, NEW c, ClientOK(s, c), NEW p, PacketOK(s, p), NEW d \in ProcessOSC(c, p),
         NEW kind \in Kinds, NEW o \in ShownOf(d, kind)
  PROVE  \/ o \in ShownOf(c, kind)
         \/ /\ kind = p.kind /\ ~ Late(c, p.fseq)
            /\ \E m \in ToSet(p.sets) : m.sid = o.sid /\ m.place = o.place
<1>1. /\ \A k \in Kinds \ {p.kind} : ShownOf(d, k) = ShownOf(c, k)
      /\ Late(c, p.fseq) => \A k \in Kinds : ShownOf(d, k) = ShownOf(c, k)
      /\ ~ Late(c, p.fseq) =>
           Outcome(p.kind, ShownOf(c, p.kind), ToSet(p.sets), p.alive, ShownOf(d, p.kind))
  BY ProcessIs
<1>2. CASE kind # p.kind \/ Late(c, p.fseq)
  <2>1. ShownOf(d, kind) = ShownOf(c, kind)
    BY <1>1, <1>2
  <2> QED
    BY <2>1
<1>3. CASE kind = p.kind /\ ~ Late(c, p.fseq)
  <2>1. PICK L, M, sets, alive : /\ L = ShownOf(c, kind) /\ M = ShownOf(d, kind)
                                 /\ sets = ToSet(p.sets) /\ alive = p.alive
    OBVIOUS
  <2>2. Outcome(kind, L, sets, alive, M) /\ o \in M
    BY <1>1, <1>3, <2>1
  <2>3. o \in L \/ \E m \in sets : m.sid = o.sid /\ m.place = o.place
    BY <2>2 DEF Outcome
  <2> QED
    BY <1>3, <2>1, <2>3
<1> QED
  BY <1>2, <1>3

(* The frame of the client after a packet with a number that is not late.  *)
LEMMA FrameAfter ==
  ASSUME NEW s, NEW c, ClientOK(s, c), NEW v, NEW P, NEW now, NEW T, PlacesOK(v, P, c, now, T),
         NEW p \in P, PacketOK(s, p), p.fseq # -1, ~ Late(c, p.fseq)
  PROVE  /\ Arrived(c, p.fseq) = p.fseq /\ p.fseq = p.frame
         /\ p.fseq <= T
         /\ c.currentFrame <= T => c.currentFrame <= p.fseq
<1>1. /\ p.fseq = p.frame /\ p.frame \in Int
      /\ 1 <= p.frame /\ p.frame <= T /\ T - MaxDelay <= p.frame
      /\ T \in Int
  BY BoundsAssumption DEF PlacesOK, Ages
<1>2. c.currentFrame \in Int
  BY ClientIs
<1>3. MaxDelay \in Int /\ Window \in Int /\ MaxDelay <= Window
  BY DelayAssumption, WindowAssumption
<1>4. PICK f, cur : f = p.fseq /\ cur = c.currentFrame
  OBVIOUS
<1>5. f > 0
  BY <1>1, <1>4
<1>6. Arrived(c, p.fseq) = p.fseq
  BY <1>4, <1>5 DEF Arrived
<1>7. ~ (f > 0 /\ f < cur /\ cur - f <= Window)
  BY <1>4 DEF Late
<1>8. cur <= T => cur <= f
  <2> SUFFICES ASSUME cur <= T, ~ (cur <= f) PROVE FALSE
    OBVIOUS
  <2>1. f < cur /\ cur - f <= Window
    BY <1>1, <1>2, <1>3, <1>4
  <2> QED
    BY <1>5, <1>7, <2>1
<1> QED
  BY <1>1, <1>4, <1>6, <1>8


LEMMA NothingShown ==
  ASSUME NEW s, NEW c, ClientOK(s, c), NEW kind \in Kinds
  PROVE  ShownOf(Disconnected(c), kind) = {}
<1>1. PICK d : d = Disconnected(c)
  OBVIOUS
<1>2. d.held = [k \in Kinds |-> Emptied(c.held[k])]
  BY <1>1, ClientIs DEF Disconnected
<1>3. d.held[kind].list = <<>>
  BY <1>2 DEF Emptied
<1> QED
  BY <1>1, <1>3 DEF ShownOf, ToSet

(* Reading p leaves the places in order.                                   *)
LEMMA ReadPlaces ==
  ASSUME NEW s, NEW v, NEW P, NEW c, NEW now \in Int, NEW T,
         v # Down => ServerOK(v), ClientOK(s, c), \A p \in P : PacketOK(s, p),
         PlacesOK(v, P, c, now, T),
         NEW p \in P, NEW d \in ProcessOSC(c, p)
  PROVE  PlacesOK(v, P, d, now, T)
<1>1. PacketOK(s, p)
  OBVIOUS
<1>2. ASSUME NEW kind \in Kinds, NEW o \in ShownOf(d, kind)
      PROVE  \/ o \in ShownOf(c, kind)
             \/ /\ kind = p.kind /\ ~ Late(c, p.fseq)
                /\ \E m \in ToSet(p.sets) : m.sid = o.sid /\ m.place = o.place
  BY <1>1, <1>2, ShownAfter
<1>3. /\ Ages(v, P, T) /\ Placed(v, P, c, now) /\ Rising(P)
      /\ Ahead(v, P, c) /\ Excused(P, c, T)
  BY DEF PlacesOK
<1>4. Placed(v, P, d, now)
  <2>1. ASSUME NEW kind \in Kinds, NEW o \in ShownOf(d, kind) PROVE o.place <= now
    <3>1. CASE o \in ShownOf(c, kind)
      BY <1>3, <3>1 DEF Placed
    <3>2. ASSUME NEW m \in ToSet(p.sets), m.place = o.place PROVE o.place <= now
      BY <1>3, <3>2 DEF Placed
    <3> QED
      BY <1>2, <3>1, <3>2
  <2> QED
    BY <1>3, <2>1 DEF Placed
<1>5. Ahead(v, P, d)
  <2>1. ASSUME v # Down, NEW kind \in v.mode.profiles, NEW t \in ToSet(v.table[kind]),
               NEW o \in ShownOf(d, kind), o.sid = t.sid
        PROVE  o.place <= t.place
    <3>1. kind \in Kinds
      BY <2>1, TablesAre
    <3>2. CASE o \in ShownOf(c, kind)
      BY <1>3, <2>1, <3>2 DEF Ahead
    <3>3. ASSUME kind = p.kind, NEW m \in ToSet(p.sets), m.sid = o.sid, m.place = o.place
          PROVE  o.place <= t.place
      <4>1. m.place <= t.place
        BY <1>3, <2>1, <3>3 DEF Ahead
      <4> QED
        BY <3>3, <4>1
    <3> QED
      BY <1>2, <3>1, <3>2, <3>3
  <2>2. v # Down => \A kind \in v.mode.profiles : \A t \in ToSet(v.table[kind]) :
          \A q \in P : q.kind = kind =>
            \A m \in ToSet(q.sets) : m.sid = t.sid =>
              m.place <= t.place /\ (q.frame >= v.currentFrame => m.place = t.place)
    BY <1>3 DEF Ahead
  <2> QED
    BY <2>1, <2>2 DEF Ahead
<1>6. Excused(P, d, T)
  <2> SUFFICES ASSUME NEW q \in P, q.fseq # -1,
                      NEW m \in ToSet(q.sets), NEW o \in ShownOf(d, q.kind),
                      m.sid = o.sid, m.place < o.place
               PROVE  (q.fseq < d.currentFrame /\ d.currentFrame <= T) \/ Outrun(P, q)
    BY DEF Excused
  <2>1. q.kind \in Kinds /\ q.fseq = q.frame /\ q.frame \in Int /\ p.frame \in Int /\ T \in Int
    <3>1. q.kind \in Kinds
      BY PacketPlaces
    <3> QED
      BY <1>3, <3>1, BoundsAssumption DEF Ages
  <2>2. c.currentFrame \in Int
    BY ClientIs
  <2>3. /\ Late(c, p.fseq) => d.currentFrame = c.currentFrame
        /\ ~ Late(c, p.fseq) => d.currentFrame = Arrived(c, p.fseq)
    BY <1>1, ProcessIs
  <2>4. ASSUME p.fseq = -1 PROVE d.currentFrame = c.currentFrame
    <3>1. ~ (p.fseq > 0)
      BY <2>4
    <3> QED
      BY <2>3, <3>1 DEF Arrived
  <2>5. ASSUME p.fseq # -1, ~ Late(c, p.fseq)
        PROVE  /\ d.currentFrame = p.fseq /\ p.fseq = p.frame /\ p.fseq <= T
               /\ c.currentFrame <= T => c.currentFrame <= p.fseq
    BY <1>1, <2>3, <2>5, FrameAfter
  <2>6. CASE o \in ShownOf(c, q.kind)
    <3>1. (q.fseq < c.currentFrame /\ c.currentFrame <= T) \/ Outrun(P, q)
      BY <1>3, <2>6 DEF Excused
    <3>2. ASSUME q.fseq < c.currentFrame, c.currentFrame <= T
          PROVE  q.fseq < d.currentFrame /\ d.currentFrame <= T
      <4>1. CASE p.fseq = -1 \/ Late(c, p.fseq)
        BY <2>3, <2>4, <3>2, <4>1
      <4>2. CASE p.fseq # -1 /\ ~ Late(c, p.fseq)
        BY <2>1, <2>2, <2>5, <3>2, <4>2
      <4> QED
        BY <4>1, <4>2
    <3> QED
      BY <3>1, <3>2
  <2>7. CASE o \notin ShownOf(c, q.kind)
    <3>1. q.kind = p.kind /\ ~ Late(c, p.fseq)
      BY <1>2, <2>1, <2>7
    <3>2. PICK n \in ToSet(p.sets) : n.sid = o.sid /\ n.place = o.place
      BY <1>2, <2>1, <2>7
    <3>3. m.place \in Int /\ n.place \in Int
      <4>1. PacketOK(s, q)
        OBVIOUS
      <4> QED
        BY <1>1, <4>1, PacketPlaces
    <3>4. q.frame < p.frame
      <4>1. p.frame <= q.frame => n.place <= m.place
        BY <1>3, <3>1, <3>2 DEF Rising
      <4> QED
        BY <2>1, <3>2, <3>3, <4>1
    <3>5. CASE p.fseq = -1
      <4>1. ToSet(p.sets) # {}
        BY <3>2
      <4> QED
        BY <3>4, <3>5, <4>1 DEF Outrun
    <3>6. CASE p.fseq # -1
      BY <2>1, <2>5, <3>1, <3>4, <3>6
    <3> QED
      BY <3>5, <3>6
  <2> QED
    BY <2>6, <2>7
<1> QED
  BY <1>3, <1>4, <1>5, <1>6 DEF PlacesOK

LEMMA ReceivePlaces ==
  ASSUME NEW s, IInv(s), PlaceInv(s), NEW q \in net, Receive(q)
  PROVE  PlaceInv(s)'
<1>1. PICK stays : stays = IF read # Disorder /\ q.number = read + 1 /\ ~ Late(client, q.packet.fseq)
                           THEN q.number ELSE Disorder
  OBVIOUS
<1>2. /\ server' = server /\ clock' = clock
      /\ client' \in ProcessOSC(client, q.packet)
      /\ Network(net, <<>>, stays)
  BY <1>1 DEF Receive
<1>3. PICK v, P, c, d, p, now : /\ v = server[s] /\ P = Packets(net) /\ c = client /\ d = client'
                                /\ p = q.packet /\ now = clock
  OBVIOUS
<1>4. Packets(net') = P
  BY <1>2, <1>3, SamePackets
<1>5. PICK T \in 0 .. MaxFrame : PlacesOK(v, P, c, now, T)
  BY <1>3 DEF PlaceInv
<1>6. /\ ClientOK(s, c) /\ now \in Int
      /\ v # Down => ServerOK(v)
      /\ \A r \in P : PacketOK(s, r)
  BY <1>3, BeforeSending
<1>7. p \in P /\ d \in ProcessOSC(c, p)
  BY <1>2, <1>3 DEF Packets
<1>8. PlacesOK(v, P, d, now, T)
  BY ONLY <1>5, <1>6, <1>7, ReadPlaces, Zenon
<1> QED
  BY <1>2, <1>3, <1>4, <1>8 DEF PlaceInv

LEMMA ReconnectPlaces ==
  ASSUME NEW s, IInv(s), PlaceInv(s), Reconnect
  PROVE  PlaceInv(s)'
<1>1. /\ client' = Disconnected(client)
      /\ server' = server /\ clock' = clock /\ Network(net, <<>>, Disorder)
  BY DEF Reconnect
<1>2. Packets(net') = Packets(net)
  <2>1. PICK stays : stays = Disorder
    OBVIOUS
  <2> QED
    BY <1>1, <2>1, SamePackets
<1>3. \A kind \in Kinds : ShownOf(client', kind) = {}
  BY <1>1, NothingShown DEF IInv, ClientInv
<1>4. PICK T \in 0 .. MaxFrame : PlacesOK(server[s], Packets(net), client, clock, T)
  BY DEF PlaceInv
<1>5. PICK v, P, c, d, now : /\ v = server[s] /\ P = Packets(net) /\ c = client /\ d = client'
                             /\ now = clock
  OBVIOUS
<1>6. PlacesOK(v, P, c, now, T) /\ \A kind \in Kinds : ShownOf(d, kind) = {}
  BY <1>3, <1>4, <1>5
<1>7. \A p \in P : p.kind \in Kinds
  <2>1. \A p \in P : PacketOK(s, p)
    BY <1>5, BeforeSending
  <2> QED
    BY <2>1 DEF PacketOK
<1>8. v # Down => \A kind \in v.mode.profiles : kind \in Kinds
  BY <1>5, BeforeSending, TablesAre
<1>9. PlacesOK(v, P, d, now, T)
  <2>1. Placed(v, P, d, now)
    BY <1>6 DEF PlacesOK, Placed
  <2>2. Ahead(v, P, d)
    BY <1>6, <1>8 DEF PlacesOK, Ahead
  <2>3. Excused(P, d, T)
    BY <1>6, <1>7 DEF Excused
  <2> QED
    BY <1>6, <2>1, <2>2, <2>3 DEF PlacesOK
<1> QED
  BY <1>1, <1>2, <1>5, <1>9 DEF PlaceInv

LEMMA InitPlaces ==
  ASSUME NEW s, Sources = {s}, Init
  PROVE  PlaceInv(s)
<1>1. /\ server = [x \in {s} |-> Down] /\ net = {} /\ client = NewClient /\ clock = 0
  BY DEF Init
<1>2. server[s] = Down /\ Packets(net) = {} /\ \A kind \in Kinds : ShownOf(client, kind) = {}
  BY <1>1, NewClientIs DEF Packets
<1>3. 0 \in 0 .. MaxFrame
  BY BoundsAssumption
<1>4. PICK v, P, c, now : v = server[s] /\ P = Packets(net) /\ c = client /\ now = clock
  OBVIOUS
<1>5. v = Down /\ P = {} /\ \A kind \in Kinds : ShownOf(c, kind) = {}
  BY <1>2, <1>4
<1>6. PlacesOK(v, P, c, now, 0)
  BY <1>3, <1>5 DEF PlacesOK, Ages, Placed, Rising, Ahead, Excused
<1> QED
  BY <1>3, <1>4, <1>6 DEF PlaceInv

LEMMA NextPlaces ==
  ASSUME NEW s, Sources = {s}, IInv(s), PlaceInv(s), [Next]_vars
  PROVE  PlaceInv(s)'
<1>1. IInv(s)'
  BY NextKeeps
<1>2. CASE Start(s)
  BY <1>2, StartPlaces
<1>3. CASE Crash(s)
  BY <1>3, CrashPlaces
<1>4. CASE Shutdown(s)
  BY <1>4, ShutdownPlaces
<1>5. CASE SendFullMessages(s)
  BY <1>5, FullPlaces
<1>6. ASSUME NEW kind \in Kinds, Frame(s, kind)
      PROVE  PlaceInv(s)'
  BY <1>1, <1>6, FramePlaces
<1>7. ASSUME NEW kind \in Kinds, Periodic(s, kind)
      PROVE  PlaceInv(s)'
  BY <1>1, <1>7, PeriodicPlaces
<1>8. ASSUME NEW q \in net, Receive(q)
      PROVE  PlaceInv(s)'
  BY <1>8, ReceivePlaces
<1>9. CASE Reconnect
  BY <1>9, ReconnectPlaces
<1>10. CASE UNCHANGED vars
  BY <1>10 DEF vars, PlaceInv
<1> QED
  BY <1>2, <1>3, <1>4, <1>5, <1>6, <1>7, <1>8, <1>9, <1>10 DEF Next

-----------------------------------------------------------------------------
(* What the invariant says of the things shown before and after a step.    *)

(* Of those shown before, L, none is at an earlier place among M, unless a *)
(* packet without a number has data.                                       *)
GoesOn(L, M, P) ==
  \A o \in L, e \in M : o.sid = e.sid /\ e.place < o.place =>
    \E p \in P : p.fseq = -1 /\ ToSet(p.sets) # {}

LEMMA SameGoesOn ==
  ASSUME NEW s, NEW c, ClientOK(s, c), NEW kind \in Kinds, NEW M, M = ShownOf(c, kind), NEW P
  PROVE  GoesOn(ShownOf(c, kind), M, P)
<1>1. c.held[kind].list \in Seq(Things) /\ OnePerSid(c.held[kind].list)
  BY ClientIs
<1>2. Apart(ShownOf(c, kind))
  BY <1>1, OnePerSidIs DEF ShownOf
<1>3. ASSUME NEW o \in ShownOf(c, kind), NEW e \in ShownOf(c, kind), o.sid = e.sid
      PROVE  ~ (e.place < o.place)
  <2>1. o = e /\ o.place \in Int
    BY <1>2, <1>3, ShownPlaces DEF Apart
  <2> QED
    BY <2>1
<1> QED
  BY <1>3 DEF GoesOn

LEMMA ReadGoesOn ==
  ASSUME NEW s, NEW v, NEW P, NEW c, NEW now, NEW T,
         ClientOK(s, c), \A p \in P : PacketOK(s, p),
         PlacesOK(v, P, c, now, T),
         NEW p \in P, NEW d \in ProcessOSC(c, p), NEW kind \in Kinds
  PROVE  GoesOn(ShownOf(c, kind), ShownOf(d, kind), P)
<1>1. PacketOK(s, p)
  OBVIOUS
<1> SUFFICES ASSUME NEW o \in ShownOf(c, kind), NEW e \in ShownOf(d, kind),
                    o.sid = e.sid, e.place < o.place
             PROVE  \E q \in P : q.fseq = -1 /\ ToSet(q.sets) # {}
  BY DEF GoesOn
<1>2. CASE e \in ShownOf(c, kind)
  <2>1. PICK M : M = ShownOf(c, kind)
    OBVIOUS
  <2>2. GoesOn(ShownOf(c, kind), M, P)
    BY <2>1, SameGoesOn
  <2> QED
    BY <1>2, <2>1, <2>2 DEF GoesOn
<1>3. CASE e \notin ShownOf(c, kind)
  <2>1. kind = p.kind /\ ~ Late(c, p.fseq)
    BY <1>1, <1>3, ShownAfter
  <2>2. PICK m \in ToSet(p.sets) : m.sid = e.sid /\ m.place = e.place
    BY <1>1, <1>3, ShownAfter
  <2>3. CASE p.fseq = -1
    BY <2>2, <2>3
  <2>4. CASE p.fseq # -1
    <3>1. (p.fseq < c.currentFrame /\ c.currentFrame <= T) \/ Outrun(P, p)
      BY <2>1, <2>2, <2>4 DEF PlacesOK, Excused
    <3>2. /\ p.fseq <= T
          /\ c.currentFrame <= T => c.currentFrame <= p.fseq
      BY <1>1, <2>1, <2>4, FrameAfter
    <3>3. c.currentFrame \in Int /\ p.fseq \in Int
      BY <1>1, ClientIs, PacketPlaces
    <3>4. Outrun(P, p)
      BY <3>1, <3>2, <3>3
    <3> QED
      BY <3>4 DEF Outrun
  <2> QED
    BY <2>3, <2>4
<1> QED
  BY <1>2, <1>3

LEMMA StepGoesOn ==
  ASSUME NEW s, Sources = {s}, IInv(s), PlaceInv(s), [Next]_vars, NEW kind \in Kinds
  PROVE  GoesOn(ShownOf(client, kind), ShownOf(client', kind), Packets(net))
<1>1. ClientOK(s, client) /\ \A p \in Packets(net) : PacketOK(s, p)
  BY BeforeSending
<1>2. CASE client' = client
  <2>1. PICK M : M = ShownOf(client', kind)
    OBVIOUS
  <2>2. M = ShownOf(client, kind)
    BY <1>2, <2>1
  <2> QED
    BY <1>1, <2>1, <2>2, SameGoesOn
<1>3. ASSUME NEW q \in net, Receive(q)
      PROVE  GoesOn(ShownOf(client, kind), ShownOf(client', kind), Packets(net))
  <2>1. PICK v, P, c, d, p, now : /\ v = server[s] /\ P = Packets(net) /\ c = client /\ d = client'
                                  /\ p = q.packet /\ now = clock
    OBVIOUS
  <2>2. PICK T : PlacesOK(v, P, c, now, T)
    BY <2>1 DEF PlaceInv
  <2>3. p \in P /\ d \in ProcessOSC(c, p) /\ ClientOK(s, c) /\ \A r \in P : PacketOK(s, r)
    BY <1>1, <1>3, <2>1 DEF Receive, Packets
  <2>4. GoesOn(ShownOf(c, kind), ShownOf(d, kind), P)
    BY ONLY <2>2, <2>3, kind \in Kinds, ReadGoesOn, Zenon
  <2> QED
    BY <2>1, <2>4
<1>4. CASE Reconnect
  <2>1. client' = Disconnected(client)
    BY <1>4 DEF Reconnect
  <2>2. ShownOf(client', kind) = {}
    BY <1>1, <2>1, NothingShown
  <2> QED
    BY <2>2 DEF GoesOn
<1>6. ASSUME NEW t PROVE Start(t) \/ Crash(t) \/ Shutdown(t) \/ SendFullMessages(t) => client' = client
  BY DEF Start, Crash, Shutdown, SendFullMessages
<1>7. ASSUME NEW t, NEW k PROVE Frame(t, k) \/ Periodic(t, k) => client' = client
  BY DEF Frame, Periodic
<1>5. Next => client' = client \/ Reconnect \/ \E q \in net : Receive(q)
  BY <1>6, <1>7, Zenon DEF Next
<1> QED
  BY <1>2, <1>3, <1>4, <1>5 DEF vars

(* The same of the lists. *)
LEMMA ListsGoOn ==
  ASSUME NEW s, Sources = {s}, IInv(s), PlaceInv(s), [Next]_vars,
         NEW kind \in Kinds, NEW n \in DOMAIN List(client, kind), NEW k \in DOMAIN List(client', kind),
         List(client, kind)[n].sid = List(client', kind)[k].sid,
         List(client', kind)[k].place < List(client, kind)[n].place
  PROVE  \E q \in net : q.packet.fseq = -1 /\ q.packet.sets # <<>>
<1>1. PICK o, e : o = List(client, kind)[n] /\ e = List(client', kind)[k]
  OBVIOUS
<1>2. o \in ShownOf(client, kind) /\ e \in ShownOf(client', kind) /\ o.sid = e.sid /\ e.place < o.place
  BY <1>1 DEF ShownOf, List, ToSet
<1>3. GoesOn(ShownOf(client, kind), ShownOf(client', kind), Packets(net))
  BY StepGoesOn
<1>4. PICK p \in Packets(net) : p.fseq = -1 /\ ToSet(p.sets) # {}
  BY <1>2, <1>3 DEF GoesOn
<1>5. PICK q \in net : p = q.packet
  BY <1>4 DEF Packets
<1>6. p.sets # <<>>
  BY <1>4 DEF ToSet
<1> QED
  BY <1>4, <1>5, <1>6

(* TuioClient.cpp:139-146 and TuioServer.cpp: with one server, what is     *)
(* lost, doubled or late never takes a thing back to a place it has left,  *)
(* unless sendFullMessages sent it without a number: for every number of   *)
(* things and frames, and with restarts of either side.                    *)
THEOREM ClientNeverGoesBack ==
  ASSUME NEW s, Sources = {s}
  PROVE  Spec => NeverGoesBack
<1>1. Init => IInv(s) /\ PlaceInv(s)
  BY InitKeeps, InitPlaces
<1>2. (IInv(s) /\ PlaceInv(s)) /\ [Next]_vars => (IInv(s) /\ PlaceInv(s))'
  BY NextKeeps, NextPlaces
<1>3. (IInv(s) /\ PlaceInv(s)) /\ [Next]_vars =>
        [\A kind \in Kinds :
           \A n \in DOMAIN List(client, kind), k \in DOMAIN List(client', kind) :
              LET old == List(client, kind)[n]
                  new == List(client', kind)[k]
              IN  old.src = new.src /\ old.sid = new.sid /\ new.place < old.place
                    => \E q \in net : q.packet.fseq = -1 /\ q.packet.sets # <<>>]_vars
  BY ListsGoOn
<1> QED
  BY <1>1, <1>2, <1>3, PTL DEF Spec, NeverGoesBack
=============================================================================
