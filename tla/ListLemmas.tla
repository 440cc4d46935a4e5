----------------------------- MODULE ListLemmas ------------------------------
(***************************************************************************)
(* What several proofs need about lists and loops: counting up to a bound, *)
(* a loop that runs a fixed number of rounds, and taking one element out   *)
(* of a list.                                                              *)
(***************************************************************************)
EXTENDS Integers, Sequences, SequencesExt, Lists, FunctionTheorems,
        FiniteSetTheorems, WellFoundedInduction, TLAPS

(* A set that has 0, and with i - 1 also i, has every number up to n. *)
LEMMA Counting ==
  ASSUME NEW n \in Nat, NEW T, 0 \in T, \A i \in 1 .. n : i - 1 \in T => i \in T
  PROVE  \A i \in 0 .. n : i \in T
<1> DEFINE S == {i \in 0 .. n : i \notin T}
<1> SUFFICES ASSUME S # {} PROVE FALSE
  OBVIOUS
<1>1. S \subseteq Nat
  OBVIOUS
<1>2. PICK t \in S : \A u \in S : ~ (<<u, t>> \in OpToRel(<, Nat))
  BY ONLY <1>1, S # {}, NatLessThanWellFounded, WFMin, Zenon
<1>3. t \in 1 .. n
  OBVIOUS
<1>4. t - 1 \in 0 .. n /\ t - 1 \in Nat /\ t \in Nat /\ t - 1 < t
  BY <1>3
<1>5. t - 1 \notin S
  BY <1>2, <1>4 DEF OpToRel
<1> QED
  BY <1>3, <1>4, <1>5

(* A loop of n rounds on the states in V: round i takes x to step[i][x].   *)
IsLoop(V, n, step) == step \in [1 .. n -> [V -> V]]

(* f has the state after each round, from v on. *)
IsRun(V, v, n, step, f) == /\ f \in [0 .. n -> V]
                           /\ f[0] = v
                           /\ \A i \in 1 .. n : f[i] = step[i][f[i - 1]]

LEMMA LoopExists ==
  ASSUME NEW V, NEW v \in V, NEW n \in Nat, NEW step, IsLoop(V, n, step)
  PROVE  \E f : IsRun(V, v, n, step, f)
<1> USE DEF IsLoop
<1> DEFINE Good(f, m) == /\ f \in [0 .. n -> V]
                         /\ f[0] = v
                         /\ \A i \in 1 .. m : f[i] = step[i][f[i - 1]]
           T == {m \in 0 .. n : \E f : Good(f, m)}
<1>1. 0 \in T
  <2>1. Good([i \in 0 .. n |-> v], 0)
    OBVIOUS
  <2>2. 0 \in 0 .. n
    OBVIOUS
  <2> HIDE DEF Good
  <2> QED
    BY <2>1, <2>2, Zenon
<1>2. ASSUME NEW m \in 1 .. n, m - 1 \in T PROVE m \in T
  <2>1. PICK f : Good(f, m - 1)
    BY <1>2
  <2> DEFINE g == [f EXCEPT ![m] = step[m][f[m - 1]]]
  <2>2. f[m - 1] \in V /\ step[m][f[m - 1]] \in V
    BY <2>1
  <2>3. g \in [0 .. n -> V] /\ g[m] = step[m][f[m - 1]]
        /\ \A i \in 0 .. n : i # m => g[i] = f[i]
    BY <2>1, <2>2
  <2>4. g[0] = v
    BY <2>1, <2>3
  <2>5. ASSUME NEW i \in 1 .. m PROVE g[i] = step[i][g[i - 1]]
    <3>1. i - 1 \in 0 .. n /\ i - 1 # m /\ g[i - 1] = f[i - 1]
      BY <2>3
    <3>2. CASE i = m
      BY <2>3, <3>1, <3>2
    <3>3. CASE i # m
      <4>1. i \in 1 .. m - 1 /\ i \in 0 .. n
        BY <3>3
      <4> QED
        BY <2>1, <2>3, <3>1, <3>3, <4>1
    <3> QED
      BY <3>2, <3>3
  <2>6. Good(g, m)
    BY <2>3, <2>4, <2>5
  <2>7. m \in 0 .. n
    OBVIOUS
  <2> HIDE DEF Good, g
  <2> QED
    BY <2>6, <2>7, Zenon
<1> HIDE DEF T
<1>3. \A m \in 1 .. n : m - 1 \in T => m \in T
  BY <1>2
<1>4. \A i \in 0 .. n : i \in T
  BY ONLY n \in Nat, <1>1, <1>3, Counting, Zenon
<1>5. n \in T
  BY <1>4
<1>6. PICK f : Good(f, n)
  BY <1>5 DEF T
<1>7. IsRun(V, v, n, step, f)
  BY <1>6 DEF IsRun
<1> QED
  BY <1>7, Zenon

(* Repeating a step until it changes nothing: if what it changes gets      *)
(* smaller, and nothing is larger than n, the recursion has a solution.    *)
Shrinks(V, round, size, n) ==
  /\ round \in [V -> V] /\ size \in [V -> Nat] /\ n \in Nat
  /\ \A x \in V : size[x] <= n /\ (round[x] = x \/ size[round[x]] < size[x])

Repeats(V, round, g) == g = [x \in V |-> IF round[x] = x THEN x ELSE g[round[x]]]

LEMMA RepetitionExists ==
  ASSUME NEW V, NEW round, NEW size, NEW n, Shrinks(V, round, size, n)
  PROVE  \E g : Repeats(V, round, g)
<1>1. /\ round \in [V -> V] /\ size \in [V -> Nat] /\ n \in Nat
      /\ \A x \in V : size[x] <= n /\ (round[x] = x \/ size[round[x]] < size[x])
  BY DEF Shrinks
<1> DEFINE W == [V -> V]
           same == [x \in V |-> x]
           after(h) == [x \in V |-> round[h[x]]]
           step == [i \in 1 .. n |-> [h \in W |-> after(h)]]
<1>2. \A h \in W : after(h) \in W /\ \A x \in V : after(h)[x] = round[h[x]]
  BY <1>1
<1>3. same \in W /\ \A x \in V : same[x] = x
  OBVIOUS
<1> HIDE DEF W, same, after
<1>4. step \in [1 .. n -> [W -> W]] /\ \A i \in 1 .. n, h \in W : step[i][h] = after(h)
  BY <1>2
<1> HIDE DEF step
<1>5. PICK f : IsRun(W, same, n, step, f)
  <2>1. IsLoop(W, n, step)
    BY <1>4 DEF IsLoop
  <2> QED
    BY ONLY <1>1, <1>3, <2>1, LoopExists, Zenon
<1>6. f \in [0 .. n -> W] /\ f[0] = same
  BY <1>5 DEF IsRun
<1>7. ASSUME NEW i \in 1 .. n
      PROVE  /\ f[i - 1] \in W /\ f[i] \in W
             /\ \A x \in V : f[i][x] = round[f[i - 1][x]]
  <2>1. i - 1 \in 0 .. n /\ i \in 0 .. n
    BY <1>1
  <2>2. f[i - 1] \in W /\ f[i] \in W /\ f[i] = step[i][f[i - 1]]
    BY <1>5, <2>1 DEF IsRun
  <2> QED
    BY <1>2, <1>4, <2>2
<1>8. 0 \in 0 .. n /\ n \in 0 .. n
  BY <1>1
<1>9. ASSUME NEW x \in V
      PROVE  /\ round[f[n][x]] = f[n][x]
             /\ round[x] \in V /\ f[n][round[x]] = round[f[n][x]]
             /\ round[x] = x => f[n][x] = x
  <2> DEFINE T == {k \in 0 .. n :
                     /\ round[f[k][x]] = f[k][x] \/ size[f[k][x]] + k <= size[x]
                     /\ f[k][round[x]] = round[f[k][x]]
                     /\ round[x] = x => f[k][x] = x}
  <2>1. round[x] \in V /\ size[x] \in Nat
    BY <1>1
  <2>2. 0 \in T
    BY <1>3, <1>6, <1>8, <2>1
  <2>3. ASSUME NEW k \in 1 .. n, k - 1 \in T PROVE k \in T
    <3>1. PICK y \in V : y = f[k - 1][x]
      BY <1>7 DEF W
    <3>2. f[k][x] = round[y] /\ round[y] \in V
      BY <1>1, <1>7, <3>1
    <3>3. /\ round[y] = y \/ size[y] + (k - 1) <= size[x]
          /\ f[k - 1][round[x]] = round[y]
          /\ round[x] = x => y = x
      BY <2>3, <3>1
    <3>4. f[k][round[x]] = round[round[y]]
      BY <1>7, <2>1, <3>3
    <3>5. round[round[y]] = round[y] \/ size[round[y]] + k <= size[x]
      <4>1. CASE round[y] = y
        BY <4>1
      <4>2. CASE round[y] # y
        <5>1. size[y] \in Nat /\ size[round[y]] \in Nat /\ size[round[y]] < size[y]
          BY <1>1, <3>2, <4>2
        <5> QED
          BY <1>1, <2>1, <3>3, <4>2, <5>1
      <4> QED
        BY <4>1, <4>2
    <3>6. k \in 0 .. n
      BY <1>1
    <3> QED
      BY <3>2, <3>3, <3>4, <3>5, <3>6
  <2> HIDE DEF T
  <2>4. \A k \in 1 .. n : k - 1 \in T => k \in T
    BY <2>3
  <2>5. \A k \in 0 .. n : k \in T
    BY ONLY <1>1, <2>2, <2>4, Counting, Zenon
  <2>6. n \in T
    BY <1>8, <2>5
  <2>7. PICK y \in V : y = f[n][x]
    BY <1>6, <1>8 DEF W
  <2>8. round[y] = y
    <3>1. size[y] \in Nat /\ (round[y] = y \/ size[round[y]] < size[y]) /\ size[round[y]] \in Nat
      BY <1>1
    <3>2. size[x] <= n
      BY <1>1
    <3>3. round[y] = y \/ size[y] + n <= size[x]
      BY <2>6, <2>7 DEF T
    <3> QED
      BY <1>1, <2>1, <3>1, <3>2, <3>3
  <2> QED
    BY <2>1, <2>6, <2>7, <2>8 DEF T
<1>10. f[n] = [x \in V |-> IF round[x] = x THEN x ELSE f[n][round[x]]]
  <2>1. f[n] \in W
    BY <1>6, <1>8
  <2>2. f[n] = [x \in V |-> f[n][x]]
    BY <2>1 DEF W
  <2>3. \A x \in V : f[n][x] = IF round[x] = x THEN x ELSE f[n][round[x]]
    BY <1>9
  <2> QED
    BY <2>2, <2>3
<1> QED
  BY <1>10 DEF Repeats

(* What every round keeps, the repetition keeps.                           *)
LEMMA RepetitionKeeps ==
  ASSUME NEW V, NEW round, NEW size, NEW n, Shrinks(V, round, size, n),
         NEW g, Repeats(V, round, g),
         NEW K, K \subseteq V, \A x \in K : round[x] \in K,
         NEW x \in K
  PROVE  g[x] \in K
<1>1. /\ round \in [V -> V] /\ size \in [V -> Nat] /\ n \in Nat
      /\ \A y \in V : size[y] <= n /\ (round[y] = y \/ size[round[y]] < size[y])
  BY DEF Shrinks
<1>2. \A y \in V : g[y] = IF round[y] = y THEN y ELSE g[round[y]]
  <2>1. PICK h : h = g
    OBVIOUS
  <2>2. g = [y \in V |-> IF round[y] = y THEN y ELSE h[round[y]]]
    BY <2>1 DEF Repeats
  <2> QED
    BY <2>1, <2>2
<1> DEFINE T == {k \in 0 .. n : \A y \in K : size[y] <= k => g[y] \in K}
<1>3. 0 \in 0 .. n /\ n \in 0 .. n
  BY <1>1
<1>4. 0 \in T
  <2>1. ASSUME NEW y \in K, size[y] <= 0 PROVE g[y] \in K
    <3>1. y \in V /\ size[y] \in Nat /\ size[round[y]] \in Nat
      BY <1>1
    <3>2. round[y] = y
      BY <1>1, <2>1, <3>1
    <3> QED
      BY <1>2, <3>1, <3>2
  <2> QED
    BY <1>3, <2>1
<1>5. ASSUME NEW k \in 1 .. n, k - 1 \in T PROVE k \in T
  <2>1. ASSUME NEW y \in K, size[y] <= k PROVE g[y] \in K
    <3>1. y \in V /\ round[y] \in K /\ size[y] \in Nat /\ size[round[y]] \in Nat
      BY <1>1
    <3>2. CASE round[y] = y
      BY <1>2, <3>1, <3>2
    <3>3. CASE round[y] # y
      <4>1. size[round[y]] <= k - 1
        BY <1>1, <2>1, <3>1, <3>3
      <4>2. g[round[y]] \in K
        BY <1>5, <3>1, <4>1
      <4> QED
        BY <1>2, <3>1, <3>3, <4>2
    <3> QED
      BY <3>2, <3>3
  <2>2. k \in 0 .. n
    BY <1>1
  <2> QED
    BY <2>1, <2>2
<1> HIDE DEF T
<1>6. \A k \in 1 .. n : k - 1 \in T => k \in T
  BY <1>5
<1>7. \A k \in 0 .. n : k \in T
  BY ONLY <1>1, <1>4, <1>6, Counting, Zenon
<1>8. n \in T /\ x \in V
  BY <1>3, <1>7
<1> QED
  BY <1>1, <1>8 DEF T

LEMMA RemoveAtFacts ==
  ASSUME NEW S, NEW s \in Seq(S), NEW i \in 1 .. Len(s)
  PROVE  /\ RemoveAt(s, i) \in Seq(S)
         /\ Len(RemoveAt(s, i)) = Len(s) - 1
         /\ \A j \in 1 .. Len(s) - 1 : RemoveAt(s, i)[j] = IF j < i THEN s[j] ELSE s[j + 1]
<1> DEFINE h == SubSeq(s, 1, i - 1)
           t == SubSeq(s, i + 1, Len(s))
<1>1. Len(s) \in Nat /\ i \in Int
  OBVIOUS
<1>2. h \in Seq(S) /\ Len(h) = i - 1 /\ \A j \in 1 .. i - 1 : h[j] = s[j]
  OBVIOUS
<1>3. t \in Seq(S) /\ Len(t) = Len(s) - i /\ \A j \in 1 .. Len(s) - i : t[j] = s[j + i]
  OBVIOUS
<1> HIDE DEF h, t
<1>4. RemoveAt(s, i) = h \o t
  BY DEF RemoveAt, h, t
<1>5. /\ h \o t \in Seq(S)
      /\ Len(h \o t) = Len(s) - 1
      /\ \A j \in 1 .. Len(s) - 1 : (h \o t)[j] = IF j <= i - 1 THEN h[j] ELSE t[j - (i - 1)]
  <2>1. /\ h \o t \in Seq(S)
        /\ Len(h \o t) = Len(h) + Len(t)
        /\ \A j \in 1 .. Len(h) + Len(t) :
             (h \o t)[j] = IF j <= Len(h) THEN h[j] ELSE t[j - Len(h)]
    <3>1. h \in Seq(S) /\ t \in Seq(S)
      BY <1>2, <1>3
    <3> QED
      BY ONLY <3>1
  <2>2. Len(h) + Len(t) = Len(s) - 1
    BY <1>1, <1>2, <1>3
  <2> QED
    BY <1>2, <2>1, <2>2
<1>6. ASSUME NEW j \in 1 .. Len(s) - 1
      PROVE  (h \o t)[j] = IF j < i THEN s[j] ELSE s[j + 1]
  <2>1. CASE j < i
    BY <1>1, <1>2, <1>5, <2>1
  <2>2. CASE ~ (j < i)
    <3>1. j - (i - 1) \in 1 .. Len(s) - i /\ j - (i - 1) + i = j + 1
      BY <1>1, <2>2
    <3> QED
      BY <1>1, <1>3, <1>5, <2>2, <3>1
  <2> QED
    BY <2>1, <2>2
<1> QED
  BY <1>4, <1>5, <1>6

(* No element is listed twice. *)
Distinct(s) == \A i, j \in 1 .. Len(s) : s[i] = s[j] => i = j

LEMMA AppendFacts ==
  ASSUME NEW S, NEW s \in Seq(S), NEW x \in S
  PROVE  /\ Append(s, x) \in Seq(S)
         /\ ToSet(Append(s, x)) = ToSet(s) \cup {x}
         /\ Distinct(s) /\ x \notin ToSet(s) => Distinct(Append(s, x))
<1> DEFINE t == Append(s, x)
           n == Len(s)
<1>1. /\ t \in Seq(S) /\ Len(t) = n + 1 /\ n \in Nat
      /\ t[n + 1] = x /\ \A i \in 1 .. n : t[i] = s[i]
  OBVIOUS
<1>2. ToSet(s) = {s[i] : i \in 1 .. n} /\ ToSet(t) = {t[i] : i \in 1 .. n + 1}
  BY <1>1 DEF ToSet
<1> HIDE DEF t
<1>3. ToSet(t) = ToSet(s) \cup {x}
  <2> HIDE DEF n
  <2>1. \A i : i \in 1 .. n + 1 <=> i \in 1 .. n \/ i = n + 1
    BY <1>1
  <2> QED
    BY <1>1, <1>2, <2>1
<1>4. Distinct(s) /\ x \notin ToSet(s) => Distinct(t)
  BY <1>1, <1>2 DEF Distinct
<1> QED
  BY <1>1, <1>3, <1>4 DEF t

(* A list without repetitions is as long as it has elements. *)
LEMMA DistinctCount ==
  ASSUME NEW S, NEW s \in Seq(S), Distinct(s)
  PROVE  Len(s) = Cardinality(ToSet(s))
<1> DEFINE n == Len(s)
           f == [i \in 1 .. n |-> s[i]]
<1>1. n \in Nat /\ 1 .. n = DOMAIN s
  OBVIOUS
<1>2. /\ f \in [1 .. n -> ToSet(s)]
      /\ \A i, j \in 1 .. n : f[i] = f[j] => i = j
      /\ \A x \in ToSet(s) : \E i \in 1 .. n : f[i] = x
  BY <1>1 DEF Distinct, ToSet
<1> HIDE DEF n, f
<1>3. f \in Bijection(1 .. n, ToSet(s))
  <2>1. f \in Injection(1 .. n, ToSet(s))
    BY <1>2 DEF Injection, IsInjective
  <2>2. f \in Surjection(1 .. n, ToSet(s))
    BY <1>2 DEF Surjection
  <2> QED
    BY <2>1, <2>2 DEF Bijection
<1>4. IsFiniteSet(1 .. n) /\ Cardinality(1 .. n) = n
  <2>1. 1 \in Int /\ n \in Int /\ (IF 1 > n THEN 0 ELSE n - 1 + 1) = n
    BY <1>1
  <2> QED
    BY <2>1, FS_Interval
<1>5. ExistsBijection(1 .. n, ToSet(s))
  BY <1>3 DEF ExistsBijection
<1>6. Cardinality(1 .. n) = Cardinality(ToSet(s))
  BY <1>4, <1>5, FS_Bijection
<1> QED
  BY <1>4, <1>6 DEF n

(* Taking one out of a list leaves the others. *)
LEMMA RemoveAtKeeps ==
  ASSUME NEW S, NEW s \in Seq(S), NEW i \in 1 .. Len(s)
  PROVE  /\ ToSet(RemoveAt(s, i)) \subseteq ToSet(s)
         /\ ToSet(s) \ {s[i]} \subseteq ToSet(RemoveAt(s, i))
         /\ Distinct(s) => /\ Distinct(RemoveAt(s, i))
                           /\ s[i] \notin ToSet(RemoveAt(s, i))
<1> DEFINE t == RemoveAt(s, i)
<1>1. /\ t \in Seq(S) /\ Len(t) = Len(s) - 1 /\ Len(s) \in Nat
      /\ \A j \in 1 .. Len(s) - 1 : t[j] = IF j < i THEN s[j] ELSE s[j + 1]
  BY RemoveAtFacts
<1> HIDE DEF t
<1>2. ToSet(s) = {s[j] : j \in 1 .. Len(s)} /\ ToSet(t) = {t[j] : j \in 1 .. Len(t)}
  BY <1>1 DEF ToSet
<1>3. ToSet(t) \subseteq ToSet(s)
  <2> SUFFICES ASSUME NEW j \in 1 .. Len(s) - 1 PROVE t[j] \in ToSet(s)
    BY <1>1, <1>2
  <2>1. j \in 1 .. Len(s) /\ j + 1 \in 1 .. Len(s)
    BY <1>1
  <2> QED
    BY <1>1, <1>2, <2>1
<1>4. ToSet(s) \ {s[i]} \subseteq ToSet(t)
  <2> SUFFICES ASSUME NEW j \in 1 .. Len(s), s[j] # s[i] PROVE s[j] \in ToSet(t)
    BY <1>2
  <2>1. CASE j < i
    BY <1>1, <1>2, <2>1
  <2>2. CASE j > i
    <3>1. j - 1 \in 1 .. Len(s) - 1 /\ ~ (j - 1 < i) /\ j - 1 + 1 = j
      BY <1>1, <2>2
    <3> QED
      BY <1>1, <1>2, <3>1
  <2> QED
    BY <1>1, <2>1, <2>2
<1>5. ASSUME Distinct(s)
      PROVE  Distinct(t) /\ s[i] \notin ToSet(t)
  <2>1. Distinct(t)
    BY <1>1, <1>5 DEF Distinct
  <2>2. \A j \in 1 .. Len(t) : t[j] # s[i]
    BY <1>1, <1>5 DEF Distinct
  <2> QED
    BY <1>2, <2>1, <2>2
<1> QED
  BY <1>3, <1>4, <1>5 DEF t
-----------------------------------------------------------------------------
(* Choosing from a list. *)

(* The list after each element that Chosen looks at. *)
LEMMA ChosenLoop ==
  ASSUME NEW S, NEW s \in Seq(S), NEW keep
  PROVE  \E f : /\ f[0] = <<>> /\ f[Len(s)] = Chosen(s, keep)
                /\ \A i \in 1 .. Len(s) :
                     /\ i - 1 \in 0 .. Len(s) /\ f[i - 1] \in Seq(S)
                     /\ f[i] = IF s[i] \in keep THEN Append(f[i - 1], s[i]) ELSE f[i - 1]
<1> DEFINE n == Len(s)
           V == Seq(S)
           Next(x, i) == IF s[i] \in keep THEN Append(x, s[i]) ELSE x
           kept[i \in 0 .. n] ==
             IF i = 0 THEN <<>>
             ELSE IF s[i] \in keep THEN Append(kept[i - 1], s[i]) ELSE kept[i - 1]
           step == [i \in 1 .. n |-> [x \in V |-> Next(x, i)]]
<1>1. ASSUME NEW x \in V, NEW i \in 1 .. n PROVE Next(x, i) \in V
  <2>1. s[i] \in S
    OBVIOUS
  <2> QED
    BY <2>1
<1>2. n \in Nat /\ <<>> \in V
  OBVIOUS
<1>3. Chosen(s, keep) = kept[n]
  BY DEF Chosen
<1> HIDE DEF n, V, Next
<1>4. step \in [1 .. n -> [V -> V]] /\ \A x \in V, i \in 1 .. n : step[i][x] = Next(x, i)
  BY <1>1
<1> HIDE DEF step
<1>5. PICK f : f \in [0 .. n -> V] /\ f[0] = <<>> /\ \A i \in 1 .. n : f[i] = step[i][f[i - 1]]
  <2> HIDE DEF kept
  <2>1. IsLoop(V, n, step)
    BY <1>4 DEF IsLoop
  <2>2. \E f : IsRun(V, <<>>, n, step, f)
    BY <1>2, <2>1, LoopExists
  <2> QED
    BY <2>2 DEF IsRun
<1>6. ASSUME NEW i \in 1 .. n
      PROVE  i # 0 /\ i \in 0 .. n /\ i - 1 \in 0 .. n /\ f[i] = Next(f[i - 1], i)
  <2>1. i - 1 \in 0 .. n /\ i # 0 /\ i \in 0 .. n
    BY <1>2
  <2> QED
    BY <1>4, <1>5, <2>1
<1>7. f = [i \in 0 .. n |->
             IF i = 0 THEN <<>>
             ELSE IF s[i] \in keep THEN Append(f[i - 1], s[i]) ELSE f[i - 1]]
  <2>1. \A i \in 0 .. n : i = 0 \/ i \in 1 .. n
    BY <1>2
  <2> QED
    BY <1>5, <1>6, <2>1 DEF Next
<1>8. kept = [i \in 0 .. n |->
                IF i = 0 THEN <<>>
                ELSE IF s[i] \in keep THEN Append(kept[i - 1], s[i]) ELSE kept[i - 1]]
  BY <1>7
<1> HIDE DEF kept
<1>9. kept[0] = <<>> /\ \A i \in 1 .. n :
         i - 1 \in 0 .. n /\ kept[i] = Next(kept[i - 1], i)
  <2>1. 0 \in 0 .. n
    BY <1>2
  <2>2. kept[0] = <<>>
    BY <1>8, <2>1
  <2>3. ASSUME NEW i \in 1 .. n PROVE i - 1 \in 0 .. n /\ kept[i] = Next(kept[i - 1], i)
    <3>1. i # 0 /\ i \in 0 .. n /\ i - 1 \in 0 .. n
      BY <1>6
    <3>2. kept[i] = IF s[i] \in keep THEN Append(kept[i - 1], s[i]) ELSE kept[i - 1]
      BY <1>8, <3>1
    <3> QED
      BY <3>1, <3>2 DEF Next
  <2> QED
    BY <2>2, <2>3
<1>10. \A i \in 0 .. n : kept[i] \in V
  <2> DEFINE T == {i \in 0 .. n : kept[i] \in V}
  <2>1. 0 \in T /\ \A i \in 1 .. n : i - 1 \in T => i \in T
    BY <1>1, <1>2, <1>6, <1>9
  <2> HIDE DEF T
  <2>2. \A i \in 0 .. n : i \in T
    BY ONLY <1>2, <2>1, Counting, Zenon
  <2> QED
    BY <2>2 DEF T
<1> QED
  BY <1>3, <1>9, <1>10 DEF n, V, Next

(* R holds between each element and every later one. *)
Pairwise(s, R) == \A i, j \in 1 .. Len(s) : i < j => <<s[i], s[j]>> \in R

LEMMA PairwiseAppend ==
  ASSUME NEW S, NEW s \in Seq(S), NEW x \in S, NEW R, Pairwise(s, R),
         \A y \in ToSet(s) : <<y, x>> \in R
  PROVE  Pairwise(Append(s, x), R)
<1> DEFINE t == Append(s, x)
           n == Len(s)
<1>1. /\ Len(t) = n + 1 /\ n \in Nat /\ t[n + 1] = x /\ \A i \in 1 .. n : t[i] = s[i]
  OBVIOUS
<1>2. ToSet(s) = {s[i] : i \in 1 .. n}
  BY <1>1 DEF ToSet
<1> HIDE DEF t
<1> SUFFICES ASSUME NEW i \in 1 .. n + 1, NEW j \in 1 .. n + 1, i < j
             PROVE  <<t[i], t[j]>> \in R
  BY <1>1 DEF Pairwise, t
<1>3. i \in 1 .. n /\ (j \in 1 .. n \/ j = n + 1)
  BY <1>1
<1>4. CASE j \in 1 .. n
  BY <1>1, <1>3, <1>4 DEF Pairwise
<1>5. CASE j = n + 1
  BY <1>1, <1>2, <1>3, <1>5
<1> QED
  BY <1>3, <1>4, <1>5

(* Chosen keeps the elements in keep and no others, in their order. *)
LEMMA ChosenFacts ==
  ASSUME NEW S, NEW s \in Seq(S), NEW keep
  PROVE  /\ Chosen(s, keep) \in Seq(S)
         /\ ToSet(Chosen(s, keep)) = ToSet(s) \cap keep
         /\ \A R : Pairwise(s, R) => Pairwise(Chosen(s, keep), R)
<1> DEFINE n == Len(s)
           Upto(i) == {s[j] : j \in 1 .. i}
           Good(v, i) == /\ v \in Seq(S)
                         /\ ToSet(v) = Upto(i) \cap keep
                         /\ \A R : Pairwise(s, R) => Pairwise(v, R)
<1>1. PICK f : /\ f[0] = <<>> /\ f[n] = Chosen(s, keep)
               /\ \A i \in 1 .. n :
                    /\ i - 1 \in 0 .. n /\ f[i - 1] \in Seq(S)
                    /\ f[i] = IF s[i] \in keep THEN Append(f[i - 1], s[i]) ELSE f[i - 1]
  BY ChosenLoop
<1>2. n \in Nat /\ \A i \in 1 .. n : s[i] \in S
  OBVIOUS
<1>3. ToSet(s) = Upto(n)
  BY DEF ToSet
<1> HIDE DEF n
<1> DEFINE T == {i \in 0 .. n : Good(f[i], i)}
<1>4. 0 \in T
  <2>1. <<>> \in Seq(S) /\ Len(<<>>) = 0 /\ ToSet(<<>>) = {} /\ Upto(0) = {}
    BY DEF ToSet
  <2>2. \A R : Pairwise(<<>>, R)
    BY <2>1 DEF Pairwise
  <2>3. Good(<<>>, 0)
    BY <2>1, <2>2
  <2> HIDE DEF Good
  <2> QED
    BY <1>1, <1>2, <2>3
<1>5. ASSUME NEW i \in 1 .. n, i - 1 \in T PROVE i \in T
  <2> DEFINE v == f[i - 1]
             x == s[i]
  <2>1. Good(v, i - 1) /\ f[i] = (IF x \in keep THEN Append(v, x) ELSE v) /\ x \in S
    BY <1>1, <1>2, <1>5
  <2>2. Upto(i) = Upto(i - 1) \cup {x}
    <3>1. \A j : j \in 1 .. i <=> j \in 1 .. i - 1 \/ j = i
      BY <1>2
    <3> QED
      BY <3>1
  <2>3. ASSUME NEW R, Pairwise(s, R), NEW y \in Upto(i - 1) PROVE <<y, x>> \in R
    <3>1. PICK j \in 1 .. i - 1 : y = s[j]
      OBVIOUS
    <3>2. j \in 1 .. Len(s) /\ i \in 1 .. Len(s) /\ j < i
      BY <1>2, <3>1 DEF n
    <3> QED
      BY <2>3, <3>1, <3>2 DEF Pairwise
  <2> HIDE DEF v, x, Upto
  <2>4. CASE x \in keep
    <3>1. f[i] = Append(v, x)
      BY <2>1, <2>4
    <3>2. Append(v, x) \in Seq(S) /\ ToSet(Append(v, x)) = ToSet(v) \cup {x}
      BY <2>1, AppendFacts
    <3>3. ASSUME NEW R, Pairwise(s, R) PROVE Pairwise(Append(v, x), R)
      <4>1. \A y \in ToSet(v) : <<y, x>> \in R
        BY <2>1, <2>3, <3>3
      <4> QED
        BY <2>1, <3>3, <4>1, PairwiseAppend
    <3>4. Good(f[i], i)
      BY <2>1, <2>2, <2>4, <3>1, <3>2, <3>3
    <3> QED
      BY <1>2, <3>4
  <2>5. CASE x \notin keep
    <3>1. Good(f[i], i)
      BY <2>1, <2>2, <2>5
    <3> QED
      BY <1>2, <3>1
  <2> QED
    BY <2>4, <2>5
<1>6. Good(Chosen(s, keep), n)
  <2> HIDE DEF T
  <2>1. \A i \in 1 .. n : i - 1 \in T => i \in T
    BY <1>5
  <2>2. \A i \in 0 .. n : i \in T
    BY ONLY <1>2, <1>4, <2>1, Counting, Zenon
  <2>3. n \in T
    BY <1>2, <2>2
  <2> QED
    BY <1>1, <2>3 DEF T
<1> QED
  BY <1>3, <1>6

(* A last element that is kept stays the last. *)
LEMMA ChosenLast ==
  ASSUME NEW S, NEW s \in Seq(S), s # <<>>, NEW keep, s[Len(s)] \in keep
  PROVE  Chosen(s, keep) # <<>> /\ Chosen(s, keep)[Len(Chosen(s, keep))] = s[Len(s)]
<1>1. PICK f : /\ f[0] = <<>> /\ f[Len(s)] = Chosen(s, keep)
               /\ \A i \in 1 .. Len(s) :
                    /\ i - 1 \in 0 .. Len(s) /\ f[i - 1] \in Seq(S)
                    /\ f[i] = IF s[i] \in keep THEN Append(f[i - 1], s[i]) ELSE f[i - 1]
  BY ChosenLoop
<1>2. Len(s) \in 1 .. Len(s) /\ s[Len(s)] \in S
  OBVIOUS
<1> DEFINE v == f[Len(s) - 1]
           x == s[Len(s)]
<1>3. Chosen(s, keep) = Append(v, x) /\ v \in Seq(S) /\ x \in S
  BY <1>1, <1>2
<1> HIDE DEF v, x
<1>4. Append(v, x) # <<>> /\ Append(v, x)[Len(Append(v, x))] = x
  BY <1>3
<1> QED
  BY <1>3, <1>4 DEF x

LEMMA ChosenDistinct ==
  ASSUME NEW S, NEW s \in Seq(S), NEW keep, Distinct(s)
  PROVE  Distinct(Chosen(s, keep))
<1> DEFINE R == {x \in S \X S : x[1] # x[2]}
           t == Chosen(s, keep)
<1>1. Pairwise(s, R)
  <2> SUFFICES ASSUME NEW i \in 1 .. Len(s), NEW j \in 1 .. Len(s), i < j
               PROVE  <<s[i], s[j]>> \in R
    BY DEF Pairwise
  <2>1. s[i] \in S /\ s[j] \in S /\ s[i] # s[j]
    BY DEF Distinct
  <2> QED
    BY <2>1
<1>2. t \in Seq(S) /\ Pairwise(t, R)
  <2> HIDE DEF R
  <2> QED
    BY <1>1, ChosenFacts
<1> HIDE DEF t
<1>3. ASSUME NEW i \in 1 .. Len(t), NEW j \in 1 .. Len(t), i < j PROVE t[i] # t[j]
  <2>1. <<t[i], t[j]>> \in R
    BY <1>2, <1>3 DEF Pairwise
  <2> QED
    BY <2>1
<1>4. Len(t) \in Nat
  BY <1>2
<1> QED
  BY <1>3, <1>4 DEF Distinct, t
=============================================================================
