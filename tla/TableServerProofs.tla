-------------------------- MODULE TableServerProofs ---------------------------
(***************************************************************************)
(* The command server and the table's thread, for any clients, sessions,   *)
(* faults and bounds: the queue's mutex and what it makes atomic, the list *)
(* of sockets, the way of a command, what can end the process, and whom a  *)
(* broadcast reaches.                                                      *)
(***************************************************************************)
EXTENDS TableServer, ListLemmas

-----------------------------------------------------------------------------
(* The parts the command server is made of: the mutex of MutexQueue is     *)
(* held by the thread inside an operation, and because of it the queue is  *)
(* atomic; and what each handler does to the list of sockets.              *)

(* Two threads cannot both be inside an operation. *)
LEMMA Exclusion == ASSUME QInv, NEW t \in Threads, pc[t] # "idle"
                   PROVE  \A u \in Threads : pc[u] # "idle" => u = t
BY DEF QInv, HolderIsInside

LEMMA QInvInit == QInit => QInv
BY NoThreadAssumption
   DEF QInit, QInv, QTypeOK, HolderIsInside, PushesItsArgument, Labels

(* What a lock attempt does to the mutex, whatever operation it starts. *)
LEMMA TryLockSound ==
  ASSUME QInv, NEW t \in Threads, NEW label \in Labels \ {"idle"}, TryLock(t, label)
  PROVE  /\ mutex' \in Threads \cup {NoThread}
         /\ pc' \in [Threads -> Labels]
         /\ HolderIsInside'
BY NoThreadAssumption DEF QInv, QTypeOK, HolderIsInside, TryLock, Goto, Labels

(* Moving on inside the lock leaves the holder inside. *)
LEMMA MoveSound ==
  ASSUME QInv, NEW t \in Threads, NEW label \in Labels \ {"idle"},
         pc[t] # "idle", Goto(t, label), UNCHANGED mutex
  PROVE  pc' \in [Threads -> Labels] /\ HolderIsInside'
BY DEF QInv, QTypeOK, HolderIsInside, Goto, Labels

LEMMA QInvNext == QInv /\ [QNext]_qvars => QInv'
<1> SUFFICES ASSUME QInv, [QNext]_qvars PROVE QInv'
  OBVIOUS
<1> USE DEF QTypeOK
<1>1. ASSUME NEW t \in Threads, NEW xs \in Batches, PushAllLock(t, xs)
      PROVE  QInv'
  <2>1. xs \in Seq(Elems)
    BY BatchesAssumption
  <2>2. HolderIsInside' /\ mutex' \in Threads \cup {NoThread} /\ pc' \in [Threads -> Labels]
    BY <1>1, TryLockSound DEF PushAllLock, Labels
  <2>3. PushesItsArgument'
    BY <1>1 DEF PushesItsArgument, PushAllLock, TryLock, Goto, QInv
  <2>4. QED
    BY <1>1, <2>1, <2>2, <2>3 DEF QInv, PushAllLock
<1>2. ASSUME NEW t \in Threads, PushBack(t) PROVE QInv'
  <2>1. HolderIsInside' /\ pc' \in [Threads -> Labels]
    BY <1>2, MoveSound DEF PushBack, Labels
  <2>2. PushesItsArgument'
    BY <1>2 DEF PushesItsArgument, PushBack, Goto, QInv
  <2>3. data' \in Seq(Elems)
    BY <1>2 DEF PushBack, QInv
  <2>4. QED
    BY <1>2, <2>1, <2>2, <2>3 DEF QInv, PushBack
<1>3. ASSUME NEW t \in Threads, PopAllLock(t) PROVE QInv'
  <2>1. HolderIsInside' /\ mutex' \in Threads \cup {NoThread} /\ pc' \in [Threads -> Labels]
    BY <1>3, TryLockSound DEF PopAllLock, Labels
  <2>2. PushesItsArgument'
    BY <1>3 DEF PushesItsArgument, PopAllLock, TryLock, Goto, QInv
  <2>3. QED
    BY <1>3, <2>1, <2>2 DEF QInv, PopAllLock
<1>4. ASSUME NEW t \in Threads, PopAllCopy(t) PROVE QInv'
  <2>1. HolderIsInside' /\ pc' \in [Threads -> Labels]
    BY <1>4, MoveSound DEF PopAllCopy, Labels
  <2>2. PushesItsArgument'
    BY <1>4 DEF PushesItsArgument, PopAllCopy, Goto, QInv
  <2>3. dest[t] \o data \in Seq(Elems)
    BY DEF QInv
  <2>4. dest' \in [Threads -> Seq(Elems)]
    BY <1>4, <2>3 DEF QInv, PopAllCopy
  <2>5. QED
    BY <1>4, <2>1, <2>2, <2>4 DEF QInv, PopAllCopy
<1>5. ASSUME NEW t \in Threads, PopAllClear(t) PROVE QInv'
  <2>1. HolderIsInside' /\ pc' \in [Threads -> Labels]
    BY <1>5, MoveSound DEF PopAllClear, Labels
  <2>2. PushesItsArgument'
    BY <1>5 DEF PushesItsArgument, PopAllClear, Goto, QInv
  <2>3. QED
    BY <1>5, <2>1, <2>2 DEF QInv, PopAllClear
<1>6. ASSUME NEW t \in Threads, Unlock(t) PROVE QInv'
  <2>1. mutex = t
    BY <1>6 DEF QInv, HolderIsInside, Unlock
  <2>2. HolderIsInside'
    BY <1>6, <2>1, NoThreadAssumption DEF QInv, HolderIsInside, Unlock, Goto
  <2>3. PushesItsArgument'
    BY <1>6 DEF PushesItsArgument, Unlock, Goto, QInv
  <2>4. QED
    BY <1>6, <2>2, <2>3 DEF QInv, Unlock, Goto, Labels
<1>7. ASSUME NEW t \in Threads, ClearDest(t) PROVE QInv'
  BY <1>7 DEF QInv, HolderIsInside, PushesItsArgument, ClearDest
<1>8. CASE UNCHANGED qvars
  BY <1>8 DEF QInv, HolderIsInside, PushesItsArgument, qvars
<1>9. QED
  BY <1>1, <1>2, <1>3, <1>4, <1>5, <1>6, <1>7, <1>8 DEF QNext, Contended

(* The mutex is held exactly by the thread that is between a successful    *)
(* try_lock and its unlock, and every field keeps its type.                *)
THEOREM MutexIsHeldInside == QSpec => []QInv
BY QInvInit, QInvNext, PTL DEF QSpec
-----------------------------------------------------------------------------
(* While a thread that is not clearing the deque is inside, no element is  *)
(* half taken: the deque is what the atomic queue holds.                   *)
LEMMA VisibleWhileInside ==
  ASSUME QInv, NEW t \in Threads, pc[t] # "idle", pc[t] # "clear"
  PROVE  Visible = data
BY Exclusion DEF Visible

(* Every step of the deque is an operation of the atomic queue or a        *)
(* stutter.  A push takes effect at its push_back, popAll at its copy.     *)
LEMMA StepIsAtomic ==
  QInv /\ QInv' /\ [QNext]_qvars => [AQ!ANext]_(AQ!avars)
<1> SUFFICES ASSUME QInv, QInv', [QNext]_qvars
             PROVE  AQ!ANext \/ UNCHANGED <<Visible, dest>>
  BY DEF AQ!avars
<1>1. ASSUME NEW t \in Threads, NEW xs \in Batches, PushAllLock(t, xs)
      PROVE  UNCHANGED <<Visible, dest>>
  <2>1. \A u \in Threads : pc[u] = "idle"
    BY <1>1, NoThreadAssumption DEF PushAllLock, TryLock, QInv, HolderIsInside
  <2>2. \A u \in Threads : pc'[u] # "clear"
    BY <1>1, <2>1 DEF PushAllLock, TryLock, Goto, QInv, QTypeOK
  <2>3. QED
    BY <1>1, <2>1, <2>2 DEF Visible, PushAllLock
<1>2. ASSUME NEW t \in Threads, PushBack(t)
      PROVE  AQ!ANext
  <2>1. Visible = data
    BY <1>2, VisibleWhileInside DEF PushBack
  <2>2. Visible' = data'
    <3>1. pc'[t] = "unlock"
      BY <1>2 DEF PushBack, Goto, QInv, QTypeOK
    <3>2. \A u \in Threads : pc'[u] # "clear"
      BY <1>2, <3>1, Exclusion DEF PushBack, Goto, QInv, QTypeOK
    <3>3. QED
      BY <3>2 DEF Visible
  <2>3. arg[t] \in Batches
    BY <1>2 DEF PushBack, QInv, PushesItsArgument
  <2>4. AQ!Deposit(arg[t])
    BY <1>2, <2>1, <2>2 DEF PushBack, AQ!Deposit
  <2>5. QED
    BY <2>3, <2>4 DEF AQ!ANext
<1>3. ASSUME NEW t \in Threads, PopAllLock(t)
      PROVE  UNCHANGED <<Visible, dest>>
  <2>1. \A u \in Threads : pc[u] = "idle"
    BY <1>3, NoThreadAssumption DEF PopAllLock, TryLock, QInv, HolderIsInside
  <2>2. \A u \in Threads : pc'[u] # "clear"
    BY <1>3, <2>1 DEF PopAllLock, TryLock, Goto, QInv, QTypeOK
  <2>3. QED
    BY <1>3, <2>1, <2>2 DEF Visible, PopAllLock
<1>4. ASSUME NEW t \in Threads, PopAllCopy(t)
      PROVE  AQ!ANext
  <2>1. Visible = data
    BY <1>4, VisibleWhileInside DEF PopAllCopy
  <2>2. pc'[t] = "clear"
    BY <1>4 DEF PopAllCopy, Goto, QInv, QTypeOK
  <2>3. Visible' = <<>>
    BY <2>2 DEF Visible
  <2>4. QED
    BY <1>4, <2>1, <2>3 DEF PopAllCopy, AQ!ANext, AQ!TakeAll
<1>5. ASSUME NEW t \in Threads, PopAllClear(t)
      PROVE  UNCHANGED <<Visible, dest>>
  <2>1. Visible = <<>> /\ data' = <<>>
    BY <1>5 DEF PopAllClear, Visible
  <2>2. QED
    BY <1>5, <2>1 DEF PopAllClear, Visible
<1>6. ASSUME NEW t \in Threads, Unlock(t)
      PROVE  UNCHANGED <<Visible, dest>>
  <2>1. \A u \in Threads : pc[u] = "clear" <=> pc'[u] = "clear"
    BY <1>6 DEF Unlock, Goto, QInv, QTypeOK
  <2>2. QED
    BY <1>6, <2>1 DEF Unlock, Visible
<1>7. ASSUME NEW t \in Threads, ClearDest(t)
      PROVE  AQ!ANext
  BY <1>7 DEF ClearDest, AQ!ANext, AQ!Discard, Visible
<1>8. CASE UNCHANGED qvars
  BY <1>8 DEF qvars, Visible
<1>9. QED
  BY <1>1, <1>2, <1>3, <1>4, <1>5, <1>6, <1>7, <1>8 DEF QNext, Contended

(* The many-step, try-lock queue of the code implements the queue whose    *)
(* operations take one instant.                                            *)
THEOREM QueueRefinesAtomicQueue == QSpec => QueueIsAtomic
<1>1. QInit => AQ!AInit
  BY DEF QInit, AQ!AInit, Visible
<1>2. QED
  BY <1>1, StepIsAtomic, MutexIsHeldInside, PTL DEF QSpec, QueueIsAtomic, AQ!ASpec
-----------------------------------------------------------------------------
(* The vector after each round of the loop in disconnect(). *)
LEMMA EraseLoop ==
  ASSUME NEW S, NEW s \in Seq(S), NEW p
  PROVE  \E f : /\ f[0] = s /\ f[Len(s)] = Erase(s, p)
                /\ \A i \in 1 .. Len(s) : f[i] = Round(f[i - 1], i, p)
<1> DEFINE n == Len(s)
           V == Seq(S)
           after[i \in 0 .. n] == IF i = 0 THEN s ELSE Round(after[i - 1], i, p)
           step == [i \in 1 .. n |-> [x \in V |-> Round(x, i, p)]]
<1>1. ASSUME NEW x \in V, NEW i \in 1 .. n PROVE Round(x, i, p) \in V
  BY RemoveAtFacts DEF Round
<1>2. n \in Nat /\ s \in V
  OBVIOUS
<1>3. Erase(s, p) = after[n]
  BY DEF Erase
<1> HIDE DEF Round, n, V
<1>4. step \in [1 .. n -> [V -> V]] /\ \A x \in V, i \in 1 .. n : step[i][x] = Round(x, i, p)
  BY <1>1
<1> HIDE DEF step
<1>5. PICK f : f \in [0 .. n -> V] /\ f[0] = s /\ \A i \in 1 .. n : f[i] = step[i][f[i - 1]]
  <2> HIDE DEF after
  <2>1. IsLoop(V, n, step)
    BY <1>4 DEF IsLoop
  <2>2. \E f : IsRun(V, s, n, step, f)
    BY <1>2, <2>1, LoopExists
  <2> QED
    BY <2>2 DEF IsRun
<1>6. ASSUME NEW i \in 1 .. n
      PROVE  i # 0 /\ i \in 0 .. n /\ f[i] = Round(f[i - 1], i, p)
  <2>1. i - 1 \in 0 .. n /\ i # 0 /\ i \in 0 .. n
    BY <1>2
  <2> QED
    BY <1>4, <1>5, <2>1
<1>7. f = [i \in 0 .. n |-> IF i = 0 THEN s ELSE Round(f[i - 1], i, p)]
  <2>1. \A i \in 0 .. n : i = 0 \/ i \in 1 .. n
    BY <1>2
  <2> QED
    BY <1>5, <1>6, <2>1
<1>8. after = [i \in 0 .. n |-> IF i = 0 THEN s ELSE Round(after[i - 1], i, p)]
  BY <1>7
<1> HIDE DEF after
<1>9. after[0] = s /\ \A i \in 1 .. n : after[i] = Round(after[i - 1], i, p)
  BY <1>2, <1>8
<1> QED
  BY <1>3, <1>9 DEF n

(* A disconnect drops nobody else's socket; when no socket is listed twice *)
(* it drops the one it looks for.                                          *)
LEMMA EraseKeeps ==
  ASSUME NEW S, NEW s \in Seq(S), NEW p
  PROVE  /\ Erase(s, p) \in Seq(S)
         /\ ToSet(Erase(s, p)) \subseteq ToSet(s)
         /\ ToSet(s) \ {p} \subseteq ToSet(Erase(s, p))
         /\ Distinct(s) => Distinct(Erase(s, p)) /\ p \notin ToSet(Erase(s, p))
<1> DEFINE n == Len(s)
           Good(v, i) == /\ v \in Seq(S) /\ Len(v) <= n
                         /\ ToSet(v) \subseteq ToSet(s)
                         /\ ToSet(s) \ {p} \subseteq ToSet(v)
                         /\ Distinct(s) => /\ Distinct(v)
                                           /\ \A j \in 1 .. i : j <= Len(v) => v[j] # p
<1>1. PICK f : /\ f[0] = s /\ f[n] = Erase(s, p)
               /\ \A i \in 1 .. n : f[i] = Round(f[i - 1], i, p)
  BY EraseLoop
<1>2. n \in Nat
  OBVIOUS
<1> HIDE DEF n
<1> DEFINE T == {i \in 0 .. n : Good(f[i], i)}
<1>3. 0 \in T
  BY <1>1, <1>2 DEF n
<1>4. ASSUME NEW i \in 1 .. n, i - 1 \in T PROVE i \in T
  <2> DEFINE v == f[i - 1]
  <2>1. Good(v, i - 1) /\ f[i] = Round(v, i, p)
    BY <1>1, <1>4
  <2> HIDE DEF v
  <2>2. CASE i <= Len(v) /\ v[i] = p
    <3>1. f[i] = RemoveAt(v, i) /\ i \in 1 .. Len(v)
      BY <2>1, <2>2 DEF Round
    <3>2. /\ RemoveAt(v, i) \in Seq(S) /\ Len(RemoveAt(v, i)) = Len(v) - 1
      BY <2>1, <3>1, RemoveAtFacts
    <3>3. /\ ToSet(RemoveAt(v, i)) \subseteq ToSet(v)
          /\ ToSet(v) \ {p} \subseteq ToSet(RemoveAt(v, i))
          /\ Distinct(v) => Distinct(RemoveAt(v, i)) /\ p \notin ToSet(RemoveAt(v, i))
      BY <2>1, <2>2, <3>1, RemoveAtKeeps
    <3>4. \A j \in 1 .. Len(RemoveAt(v, i)) : RemoveAt(v, i)[j] \in ToSet(RemoveAt(v, i))
      BY <3>2 DEF ToSet
    <3>5. Good(RemoveAt(v, i), i)
      BY <1>2, <2>1, <3>2, <3>3, <3>4
    <3> QED
      BY <3>1, <3>5
  <2>3. CASE ~ (i <= Len(v) /\ v[i] = p)
    <3>1. f[i] = v
      BY <2>1, <2>3 DEF Round
    <3>2. Good(v, i)
      BY <1>2, <2>1, <2>3
    <3> QED
      BY <3>1, <3>2
  <2> QED
    BY <2>2, <2>3
<1>5. Good(Erase(s, p), n)
  <2> HIDE DEF T
  <2>1. \A i \in 1 .. n : i - 1 \in T => i \in T
    BY <1>4
  <2>2. \A i \in 0 .. n : i \in T
    BY ONLY <1>2, <1>3, <2>1, Counting, Zenon
  <2>3. n \in T
    BY <1>2, <2>2
  <2> QED
    BY <1>1, <2>3 DEF T
<1>6. Distinct(s) => p \notin ToSet(Erase(s, p))
  BY <1>2, <1>5 DEF ToSet
<1> QED
  BY <1>5, <1>6
-----------------------------------------------------------------------------
(* Who is connected.  `sockets' and the open sessions go together as long  *)
(* as a session that is deleted has been disconnected first, which only a  *)
(* read that fails otherwise than by eof or reset leaves out.              *)

ClientStates == {"away", "dialing", "on", "closed", "reset", "broken"}

SessionTypes == /\ client \in [Clients -> ClientStates]
                /\ heap \in [Addrs -> {"free", "accepting", "open"}]
                /\ peer \in [Addrs -> Clients \cup {Nil}]
                /\ fresh \in Addrs \cup {Nil}
                /\ sockets \in Seq(Addrs)
                /\ fresh # Nil => heap[fresh] = "accepting"

(* A connection has one session at this end, and a client one connection. *)
OneSessionEach ==
  \A a \in Open : /\ peer[a] \in Clients
                  /\ client[peer[a]] \notin {"away", "dialing"}
                  /\ \A b \in Open : peer[a] = peer[b] => a = b

NothingBreaks == \A c \in Clients : client[c] # "broken"

ListsTheOpen == "read_error" \notin Faults =>
                  NothingBreaks /\ Distinct(sockets) /\ ToSet(sockets) = Open

SessionsOK == SessionTypes /\ OneSessionEach /\ OpenIsRegistered /\ ListsTheOpen

LEMMA SessionsInit == CInit => SessionsOK
<1> SUFFICES ASSUME CInit PROVE SessionsOK
  OBVIOUS
<1>1. sockets = <<>> /\ <<>> \in Seq(Addrs) /\ Len(<<>>) = 0 /\ ToSet(<<>>) = {}
  BY DEF CInit, ToSet
<1>2. Open = {} /\ fresh \in Addrs
  BY DEF CInit, Open
<1>3. SessionTypes
  BY <1>1, <1>2 DEF CInit, SessionTypes, ClientStates
<1>4. NothingBreaks /\ Distinct(sockets)
  BY <1>1 DEF CInit, NothingBreaks, Distinct
<1> QED
  BY <1>1, <1>2, <1>3, <1>4 DEF SessionsOK, OneSessionEach, OpenIsRegistered, ListsTheOpen

(* Dialling and leaving change the client alone. *)
LEMMA ClientMoves ==
  ASSUME SessionsOK, UNCHANGED <<heap, peer, fresh, sockets>>,
         NEW c \in Clients, NEW s \in ClientStates, client' = [client EXCEPT ![c] = s],
         s \in {"away", "dialing"} => client[c] \in {"away", "dialing"},
         s = "broken" => "read_error" \in Faults
  PROVE  SessionsOK'
<1>1. Open' = Open
  BY DEF Open
<1>2. SessionTypes'
  BY DEF SessionsOK, SessionTypes
<1>3. OneSessionEach'
  BY <1>1 DEF SessionsOK, SessionTypes, OneSessionEach
<1>4. OpenIsRegistered'
  BY <1>1 DEF SessionsOK, OpenIsRegistered
<1>5. ListsTheOpen'
  BY <1>1 DEF SessionsOK, SessionTypes, ListsTheOpen, NothingBreaks
<1> QED
  BY <1>2, <1>3, <1>4, <1>5 DEF SessionsOK

LEMMA SessionsStay ==
  ASSUME SessionsOK, UNCHANGED <<client, heap, peer, fresh, sockets>>
  PROVE  SessionsOK'
<1>1. Open' = Open
  BY DEF Open
<1> QED
  BY <1>1 DEF SessionsOK, SessionTypes, OneSessionEach, OpenIsRegistered, ListsTheOpen,
              NothingBreaks

LEMMA AcceptRegisters ==
  ASSUME SessionsOK, NEW c \in Clients, HandleAccept(c)
  PROVE  SessionsOK'
<1>1. fresh \in Addrs /\ heap[fresh] = "accepting" /\ client[c] = "dialing"
  BY NilAssumption DEF HandleAccept, SessionsOK, SessionTypes
<1>2. PICK a \in Addrs : /\ heap[a] = "free"
                         /\ heap' = [heap EXCEPT ![fresh] = "open", ![a] = "accepting"]
                         /\ fresh' = a
  BY DEF HandleAccept
<1>3. /\ sockets' = Append(sockets, fresh)
      /\ peer' = [peer EXCEPT ![fresh] = c]
      /\ client' = [client EXCEPT ![c] = "on"]
  BY DEF HandleAccept
<1>4. Open' = Open \cup {fresh} /\ fresh \notin Open
  BY <1>1, <1>2 DEF Open, SessionsOK, SessionTypes
<1>5. sockets' \in Seq(Addrs) /\ ToSet(sockets') = ToSet(sockets) \cup {fresh}
  BY <1>1, <1>3, AppendFacts DEF SessionsOK, SessionTypes
<1>6. SessionTypes'
  BY <1>1, <1>2, <1>3, <1>5, NilAssumption DEF SessionsOK, SessionTypes, ClientStates
<1>7. OneSessionEach'
  <2>1. \A b \in Open : peer'[b] = peer[b] /\ peer[b] \in Clients /\ peer[b] # c
    BY <1>1, <1>3, <1>4 DEF SessionsOK, SessionTypes, OneSessionEach, Open
  <2>2. peer'[fresh] = c /\ client'[c] = "on"
    BY <1>1, <1>3 DEF SessionsOK, SessionTypes
  <2>3. \A d \in Clients : d # c => client'[d] = client[d]
    BY <1>3 DEF SessionsOK, SessionTypes
  <2> QED
    BY <1>4, <2>1, <2>2, <2>3 DEF SessionsOK, OneSessionEach
<1>8. OpenIsRegistered'
  BY <1>4, <1>5 DEF SessionsOK, OpenIsRegistered
<1>9. ListsTheOpen'
  <2> SUFFICES ASSUME "read_error" \notin Faults
               PROVE  NothingBreaks' /\ Distinct(sockets') /\ ToSet(sockets') = Open'
    BY DEF ListsTheOpen
  <2>1. NothingBreaks /\ Distinct(sockets) /\ ToSet(sockets) = Open
    BY DEF SessionsOK, ListsTheOpen
  <2>2. NothingBreaks'
    BY <1>3, <2>1 DEF SessionsOK, SessionTypes, NothingBreaks
  <2>3. Distinct(sockets')
    BY <1>1, <1>3, <1>4, <2>1, AppendFacts DEF SessionsOK, SessionTypes
  <2> QED
    BY <1>4, <1>5, <2>1, <2>2, <2>3
<1> QED
  BY <1>6, <1>7, <1>8, <1>9 DEF SessionsOK

LEMMA AcceptErrorRegisters ==
  ASSUME SessionsOK, HandleAcceptError
  PROVE  SessionsOK'
<1>1. /\ fresh \in Addrs /\ heap[fresh] = "accepting"
      /\ heap' = [heap EXCEPT ![fresh] = "free"]
      /\ fresh' = Nil /\ UNCHANGED <<client, peer, sockets>>
  BY DEF HandleAcceptError, clientVars, SessionsOK, SessionTypes
<1>2. Open' = Open
  BY <1>1 DEF Open, SessionsOK, SessionTypes
<1>3. SessionTypes'
  BY <1>1 DEF SessionsOK, SessionTypes
<1> QED
  BY <1>1, <1>2, <1>3
  DEF SessionsOK, OneSessionEach, OpenIsRegistered, ListsTheOpen, NothingBreaks

(* What a deletion does, whether the session was disconnected or not. *)
LEMMA DeleteCloses ==
  ASSUME SessionsOK, NEW a \in Open, Delete(a), sockets' \in Seq(Addrs)
  PROVE  /\ SessionTypes' /\ OneSessionEach'
         /\ Open' = Open \ {a}
         /\ NothingBreaks => NothingBreaks'
<1>1. /\ heap' = [heap EXCEPT ![a] = "free"]
      /\ peer' = [peer EXCEPT ![a] = Nil]
      /\ client' = [client EXCEPT ![peer[a]] = "away"]
      /\ fresh' = fresh
  BY DEF Delete
<1>2. a \in Addrs /\ heap[a] = "open" /\ peer[a] \in Clients
  BY DEF Open, SessionsOK, OneSessionEach
<1>3. Open' = Open \ {a}
  BY <1>1, <1>2 DEF Open, SessionsOK, SessionTypes
<1>4. SessionTypes'
  BY <1>1, <1>2 DEF SessionsOK, SessionTypes, ClientStates
<1>5. OneSessionEach'
  <2>1. \A b \in Open \ {a} : peer'[b] = peer[b] /\ peer[b] \in Clients /\ peer[b] # peer[a]
    BY <1>1, <1>2 DEF Open, SessionsOK, SessionTypes, OneSessionEach
  <2>2. \A b \in Open \ {a} : client'[peer[b]] = client[peer[b]]
    BY <1>1, <1>2, <2>1 DEF SessionsOK, SessionTypes
  <2> QED
    BY <1>3, <2>1, <2>2 DEF SessionsOK, OneSessionEach
<1>6. NothingBreaks => NothingBreaks'
  BY <1>1, <1>2 DEF SessionsOK, SessionTypes, NothingBreaks
<1> QED
  BY <1>3, <1>4, <1>5, <1>6

LEMMA EofUnregisters ==
  ASSUME SessionsOK, NEW a \in Addrs, HandleEof(a)
  PROVE  SessionsOK'
<1>1. a \in Open /\ Delete(a) /\ sockets' = Erase(sockets, a)
  BY DEF HandleEof, Open
<1>2. sockets \in Seq(Addrs)
  BY DEF SessionsOK, SessionTypes
<1>3. /\ sockets' \in Seq(Addrs)
      /\ ToSet(sockets') \subseteq ToSet(sockets)
      /\ ToSet(sockets) \ {a} \subseteq ToSet(sockets')
      /\ Distinct(sockets) => Distinct(sockets') /\ a \notin ToSet(sockets')
  BY <1>1, <1>2, EraseKeeps
<1>4. /\ SessionTypes' /\ OneSessionEach' /\ Open' = Open \ {a}
      /\ NothingBreaks => NothingBreaks'
  BY <1>1, <1>3, DeleteCloses
<1>5. OpenIsRegistered'
  BY <1>3, <1>4 DEF SessionsOK, OpenIsRegistered
<1>6. ListsTheOpen'
  BY <1>3, <1>4 DEF SessionsOK, ListsTheOpen
<1> QED
  BY <1>4, <1>5, <1>6 DEF SessionsOK

LEMMA ErrorForgets ==
  ASSUME SessionsOK, NEW a \in Addrs, HandleError(a)
  PROVE  SessionsOK'
<1>1. a \in Open /\ Delete(a) /\ sockets' = sockets /\ client[peer[a]] = "broken"
  BY DEF HandleError, Open
<1>2. /\ SessionTypes' /\ OneSessionEach' /\ Open' = Open \ {a}
  BY <1>1, DeleteCloses DEF SessionsOK, SessionTypes
<1>3. "read_error" \in Faults
  BY <1>1 DEF SessionsOK, OneSessionEach, ListsTheOpen, NothingBreaks
<1>4. OpenIsRegistered' /\ ListsTheOpen'
  BY <1>1, <1>2, <1>3 DEF SessionsOK, OpenIsRegistered, ListsTheOpen
<1> QED
  BY <1>2, <1>4 DEF SessionsOK

-----------------------------------------------------------------------------
(* The way of a command from its client to the log.                        *)
(*                                                                         *)
(* A command passes through five places: the connection (wire), the        *)
(* argument of a push, the deque, the vector the table thread pops into,   *)
(* and the log of what was parsed.  A string stands for its first command, *)
(* the only one that is looked at.  The inductive invariant says that each *)
(* place is in order and that what lies further along was sent earlier.    *)
(* It needs the lock's invariant: between the two writes of popAll the     *)
(* deque still holds what the vector holds already, and only the mutex     *)
(* keeps a push from appending to it then.                                 *)

Cmd == [n : Nat, from : Clients, code : Codes]
Lines == [cmds : Seq(Cmd) \ {<<>>}, garbled : BOOLEAN]
Parsings == {Command(s) : s \in Lines}

First(s) == Head(s.cmds)

(* What popAll has copied is no longer in the deque. *)
InQueue == IF pc[Table] = "clear" THEN <<>> ELSE data
Pushing == IF pc[Asio] = "push" THEN arg[Asio] ELSE <<>>

Precedes(c, d) == c.n # d.n /\ (c.from = d.from => c.n < d.n)

Ordered(ss) == \A i, j \in 1 .. Len(ss) : i < j => Precedes(First(ss[i]), First(ss[j]))
Before(ss, tt) == \A i \in 1 .. Len(ss), j \in 1 .. Len(tt) : Precedes(First(ss[i]), First(tt[j]))
LogBefore(tt) == \A i \in 1 .. Len(log), j \in 1 .. Len(tt) : Precedes(log[i], First(tt[j]))

(* c was read from a connection, and what is still there came later. *)
Passed(c) == /\ c.n <= sends
             /\ \A d \in Clients : \A i \in 1 .. Len(wire[d]) : Precedes(c, wire[d][i])
AllPassed(ss) == \A i \in 1 .. Len(ss) : Passed(First(ss[i]))

TypesOK == /\ data \in Seq(Lines)
           /\ arg \in [Threads -> Seq(Lines)]
           /\ dest \in [Threads -> Seq(Lines)]
           /\ log \in Seq(Parsings)
           /\ wire \in [Clients -> Seq(Cmd)]
           /\ sends \in Nat

LockOK == /\ pc \in [Threads -> Labels]
          /\ HolderIsInside
          /\ pc[Asio] \in {"idle", "push", "unlock"}
          /\ pc[Table] \in {"idle", "copy", "clear", "unlock"}

PeersOK == /\ fresh \in Addrs \cup {Nil}
           /\ heap \in [Addrs -> {"free", "accepting", "open"}]
           /\ peer \in [Addrs -> Clients \cup {Nil}]
           /\ \A a \in Addrs : heap[a] = "open" => peer[a] \in Clients

(* The connections: numbers grow along each, and differ between any two. *)
OnWireOK ==
  /\ \A c \in Clients : \A i \in 1 .. Len(wire[c]) : wire[c][i].from = c /\ wire[c][i].n <= sends
  /\ \A c \in Clients : \A i, j \in 1 .. Len(wire[c]) : i < j => wire[c][i].n < wire[c][j].n
  /\ \A c, d \in Clients : c # d =>
       \A i \in 1 .. Len(wire[c]), j \in 1 .. Len(wire[d]) : wire[c][i].n # wire[d][j].n

LogOK == /\ \A i, j \in 1 .. Len(log) : i < j => Precedes(log[i], log[j])
         /\ \A i \in 1 .. Len(log) : Passed(log[i])
         /\ LogBefore(dest[Table]) /\ LogBefore(InQueue) /\ LogBefore(Pushing)

ReadOK == /\ Ordered(dest[Table]) /\ Ordered(InQueue) /\ Ordered(Pushing)
          /\ Before(dest[Table], InQueue)
          /\ Before(dest[Table], Pushing)
          /\ Before(InQueue, Pushing)
          /\ AllPassed(dest[Table]) /\ AllPassed(InQueue) /\ AllPassed(Pushing)

PipeOK == TypesOK /\ LockOK /\ PeersOK /\ OnWireOK /\ LogOK /\ ReadOK
-----------------------------------------------------------------------------
LEMMA LineFacts ==
  ASSUME NEW s \in Lines
  PROVE  /\ First(s) \in Cmd
         /\ Command(s).n = First(s).n /\ Command(s).from = First(s).from
         /\ Command(s) \in Parsings
<1>1. s.cmds \in Seq(Cmd) /\ s.cmds # <<>>
  BY DEF Lines
<1>2. Head(s.cmds) \in Cmd
  <2> HIDE DEF Cmd
  <2> QED
    BY <1>1
<1>3. Command(s).n = Head(s.cmds).n /\ Command(s).from = Head(s.cmds).from
  BY DEF Command
<1>4. Command(s) \in Parsings
  BY DEF Parsings
<1> QED
  BY <1>2, <1>3, <1>4 DEF First

LEMMA ConcatFacts ==
  ASSUME NEW S, NEW s \in Seq(S), NEW t \in Seq(S)
  PROVE  /\ s \o t \in Seq(S)
         /\ \A i \in 1 .. Len(s \o t) :
              \/ i \in 1 .. Len(s) /\ (s \o t)[i] = s[i]
              \/ i - Len(s) \in 1 .. Len(t) /\ (s \o t)[i] = t[i - Len(s)]
  OBVIOUS

LEMMA PrecedesTyped ==
  ASSUME NEW c \in Cmd, NEW d \in Cmd
  PROVE  c.n \in Nat /\ d.n \in Nat
  BY DEF Cmd

LEMMA OrderedConcat ==
  ASSUME NEW ss \in Seq(Lines), NEW tt \in Seq(Lines), Ordered(ss), Ordered(tt), Before(ss, tt)
  PROVE  Ordered(ss \o tt)
<1> HIDE DEF Lines
<1> DEFINE u == ss \o tt
<1>1. /\ \A i \in 1 .. Len(u) : \/ i \in 1 .. Len(ss) /\ u[i] = ss[i]
                                \/ i - Len(ss) \in 1 .. Len(tt) /\ u[i] = tt[i - Len(ss)]
      /\ Len(ss) \in Nat /\ Len(u) \in Nat
  BY ConcatFacts
<1> HIDE DEF u
<1> SUFFICES ASSUME NEW i \in 1 .. Len(u), NEW j \in 1 .. Len(u), i < j
             PROVE  Precedes(First(u[i]), First(u[j]))
  BY DEF Ordered, u
<1>2. CASE i \in 1 .. Len(ss) /\ u[i] = ss[i] /\ j \in 1 .. Len(ss) /\ u[j] = ss[j]
  BY <1>2 DEF Ordered
<1>3. CASE i \in 1 .. Len(ss) /\ u[i] = ss[i]
           /\ j - Len(ss) \in 1 .. Len(tt) /\ u[j] = tt[j - Len(ss)]
  BY <1>3 DEF Before
<1>4. CASE i - Len(ss) \in 1 .. Len(tt) /\ u[i] = tt[i - Len(ss)]
           /\ j - Len(ss) \in 1 .. Len(tt) /\ u[j] = tt[j - Len(ss)]
  <2>1. i - Len(ss) < j - Len(ss)
    BY <1>1
  <2> QED
    BY <1>4, <2>1 DEF Ordered
<1> QED
  BY <1>1, <1>2, <1>3, <1>4

LEMMA BeforeConcat ==
  ASSUME NEW rr \in Seq(Lines), NEW ss \in Seq(Lines), NEW tt \in Seq(Lines)
  PROVE  /\ Before(rr, ss) /\ Before(rr, tt) => Before(rr, ss \o tt)
         /\ Before(rr, tt) /\ Before(ss, tt) => Before(rr \o ss, tt)
         /\ LogBefore(ss) /\ LogBefore(tt) => LogBefore(ss \o tt)
         /\ AllPassed(ss) /\ AllPassed(tt) => AllPassed(ss \o tt)
<1> HIDE DEF Lines
<1>1. \A i \in 1 .. Len(ss \o tt) :
         \/ i \in 1 .. Len(ss) /\ (ss \o tt)[i] = ss[i]
         \/ i - Len(ss) \in 1 .. Len(tt) /\ (ss \o tt)[i] = tt[i - Len(ss)]
  BY ConcatFacts
<1>2. \A i \in 1 .. Len(rr \o ss) :
         \/ i \in 1 .. Len(rr) /\ (rr \o ss)[i] = rr[i]
         \/ i - Len(rr) \in 1 .. Len(ss) /\ (rr \o ss)[i] = ss[i - Len(rr)]
  BY ConcatFacts
<1>3. Before(rr, ss) /\ Before(rr, tt) => Before(rr, ss \o tt)
  BY <1>1, Zenon DEF Before
<1>4. Before(rr, tt) /\ Before(ss, tt) => Before(rr \o ss, tt)
  BY <1>2, Zenon DEF Before
<1>5. LogBefore(ss) /\ LogBefore(tt) => LogBefore(ss \o tt)
  BY <1>1, Zenon DEF LogBefore
<1>6. AllPassed(ss) /\ AllPassed(tt) => AllPassed(ss \o tt)
  BY <1>1, Zenon DEF AllPassed
<1> QED
  BY <1>3, <1>4, <1>5, <1>6

LEMMA NothingIsOrdered ==
  /\ <<>> \in Seq(Lines) /\ Ordered(<<>>) /\ LogBefore(<<>>) /\ AllPassed(<<>>)
  /\ \A ss : Before(ss, <<>>) /\ Before(<<>>, ss)
<1> HIDE DEF Lines
<1>1. Len(<<>>) = 0 /\ 1 .. 0 = {} /\ <<>> \in Seq(Lines)
  OBVIOUS
<1> QED
  BY <1>1, Zenon DEF Ordered, LogBefore, AllPassed, Before
-----------------------------------------------------------------------------
(* The queue. *)

LEMMA LockFacts ==
  ASSUME PipeOK
  PROVE  /\ Asio \in Threads /\ Table \in Threads /\ Asio # Table
         /\ Asio # NoThread /\ Table # NoThread
         /\ \A t \in Threads : t = Asio \/ t = Table
         /\ \A t, u \in Threads : pc[t] # "idle" /\ pc[u] # "idle" => t = u
         /\ mutex = NoThread => \A t \in Threads : pc[t] = "idle"
  BY ThreadsAssumption, NoThreadAssumption DEF PipeOK, LockOK, HolderIsInside

LEMMA PlaceTypes ==
  ASSUME PipeOK
  PROVE  /\ data \in Seq(Lines) /\ InQueue \in Seq(Lines) /\ Pushing \in Seq(Lines)
         /\ dest[Table] \in Seq(Lines) /\ log \in Seq(Parsings)
<1> HIDE DEF Lines, Parsings
<1>1. data \in Seq(Lines) /\ arg[Asio] \in Seq(Lines) /\ dest[Table] \in Seq(Lines)
      /\ log \in Seq(Parsings)
  BY LockFacts DEF PipeOK, TypesOK
<1> QED
  BY <1>1, NothingIsOrdered DEF InQueue, Pushing

(* What a step must show when connections and peers stay as they are. *)
Inward == UNCHANGED <<wire, sends, fresh, heap, peer>>

LEMMA InwardKeeps ==
  ASSUME PipeOK, Inward
  PROVE  PeersOK' /\ OnWireOK' /\ (\A c : Passed(c)' <=> Passed(c))
  BY DEF PipeOK, Inward, PeersOK, OnWireOK, Passed

(* Everything stays where it is. *)
LEMMA StillStep ==
  ASSUME PipeOK, Inward, UNCHANGED <<log, InQueue, Pushing>>, dest'[Table] = dest[Table],
         TypesOK', LockOK'
  PROVE  PipeOK'
<1>1. PeersOK' /\ OnWireOK' /\ (\A c : Passed(c)' <=> Passed(c))
  BY InwardKeeps
<1>2. LogOK'
  BY <1>1 DEF PipeOK, LogOK, LogBefore
<1>3. ReadOK'
  BY <1>1 DEF PipeOK, ReadOK, Ordered, Before, AllPassed
<1> QED
  BY <1>1, <1>2, <1>3 DEF PipeOK

LEMMA LockStep ==
  ASSUME PipeOK, Inward, PopAllLock(Table), UNCHANGED log
  PROVE  PipeOK'
<1>1. pc' = [pc EXCEPT ![Table] = "copy"] /\ mutex' = Table /\ pc[Table] = "idle"
      /\ mutex = NoThread /\ UNCHANGED <<data, arg, dest>>
  BY DEF PopAllLock, TryLock, Goto
<1>2. LockOK'
  BY <1>1, LockFacts DEF PipeOK, LockOK, HolderIsInside, Labels
<1>3. UNCHANGED <<InQueue, Pushing>>
  BY <1>1, LockFacts DEF PipeOK, LockOK, InQueue, Pushing
<1>4. TypesOK'
  BY <1>1 DEF PipeOK, TypesOK, Inward
<1> QED
  BY <1>1, <1>2, <1>3, <1>4, StillStep

(* popAll takes the deque over when it is copied. *)
LEMMA CopyStep ==
  ASSUME PipeOK, Inward, PopAllCopy(Table), UNCHANGED log
  PROVE  PipeOK'
<1>1. pc' = [pc EXCEPT ![Table] = "clear"] /\ pc[Table] = "copy"
      /\ dest' = [dest EXCEPT ![Table] = @ \o data] /\ UNCHANGED <<data, mutex, arg>>
  BY DEF PopAllCopy, Goto
<1>2. LockOK'
  BY <1>1, LockFacts DEF PipeOK, LockOK, HolderIsInside, Labels
<1>3. InQueue = data /\ InQueue' = <<>> /\ Pushing' = Pushing
  BY <1>1, LockFacts DEF PipeOK, LockOK, InQueue, Pushing
<1>4. dest'[Table] = dest[Table] \o data /\ dest[Table] \o data \in Seq(Lines)
  <2>1. Table \in DOMAIN dest
    BY LockFacts DEF PipeOK, TypesOK
  <2> HIDE DEF Lines
  <2> QED
    BY <1>1, <2>1, PlaceTypes, ConcatFacts
<1>5. TypesOK'
  BY <1>1, <1>4 DEF PipeOK, TypesOK, Inward
<1>6. PeersOK' /\ OnWireOK' /\ (\A c : Passed(c)' <=> Passed(c))
  BY InwardKeeps
<1>7. /\ Ordered(dest[Table] \o data)
      /\ Before(dest[Table] \o data, Pushing)
      /\ LogBefore(dest[Table] \o data)
      /\ AllPassed(dest[Table] \o data)
  BY <1>3, PlaceTypes, OrderedConcat, BeforeConcat DEF PipeOK, LogOK, ReadOK
<1>8. LogOK'
  BY <1>3, <1>4, <1>6, <1>7, NothingIsOrdered DEF PipeOK, LogOK, LogBefore
<1>9. ReadOK'
  <2>1. Ordered(dest[Table])' /\ Before(dest[Table], Pushing)' /\ AllPassed(dest[Table])'
    BY <1>3, <1>4, <1>6, <1>7 DEF Ordered, Before, AllPassed
  <2>2. Ordered(InQueue)' /\ Before(dest[Table], InQueue)' /\ Before(InQueue, Pushing)'
        /\ AllPassed(InQueue)'
    BY <1>3, NothingIsOrdered DEF Ordered, Before, AllPassed
  <2>3. Ordered(Pushing)' /\ AllPassed(Pushing)'
    BY <1>3, <1>6 DEF PipeOK, ReadOK, Ordered, AllPassed
  <2> QED
    BY <2>1, <2>2, <2>3 DEF ReadOK
<1> QED
  BY <1>2, <1>5, <1>6, <1>8, <1>9 DEF PipeOK

LEMMA ClearStep ==
  ASSUME PipeOK, Inward, PopAllClear(Table), UNCHANGED log
  PROVE  PipeOK'
<1>1. pc' = [pc EXCEPT ![Table] = "unlock"] /\ pc[Table] = "clear"
      /\ data' = <<>> /\ UNCHANGED <<mutex, arg, dest>>
  BY DEF PopAllClear, Goto
<1>2. LockOK'
  BY <1>1, LockFacts DEF PipeOK, LockOK, HolderIsInside, Labels
<1>3. UNCHANGED <<InQueue, Pushing>>
  BY <1>1, LockFacts DEF PipeOK, LockOK, InQueue, Pushing
<1>4. TypesOK'
  BY <1>1, NothingIsOrdered DEF PipeOK, TypesOK, Inward
<1> QED
  BY <1>1, <1>2, <1>3, <1>4, StillStep

LEMMA UnlockStep ==
  ASSUME PipeOK, Inward, NEW t \in Threads, Unlock(t), UNCHANGED log
  PROVE  PipeOK'
<1>1. pc' = [pc EXCEPT ![t] = "idle"] /\ pc[t] = "unlock" /\ mutex' = NoThread
      /\ UNCHANGED <<data, arg, dest>>
  BY DEF Unlock, Goto
<1>2. LockOK'
  BY <1>1, LockFacts DEF PipeOK, LockOK, HolderIsInside, Labels
<1>3. UNCHANGED <<InQueue, Pushing>>
  BY <1>1, LockFacts DEF PipeOK, LockOK, InQueue, Pushing
<1>4. TypesOK'
  BY <1>1 DEF PipeOK, TypesOK, Inward
<1> QED
  BY <1>1, <1>2, <1>3, <1>4, StillStep

(* The argument of a push joins the deque, which the lock keeps from being *)
(* cleared.                                                                *)
LEMMA PushBackStep ==
  ASSUME PipeOK, Inward, PushBack(Asio), UNCHANGED log
  PROVE  PipeOK'
<1>1. pc' = [pc EXCEPT ![Asio] = "unlock"] /\ pc[Asio] = "push"
      /\ data' = data \o arg[Asio] /\ UNCHANGED <<mutex, arg, dest>>
  BY DEF PushBack, Goto
<1>2. LockOK'
  BY <1>1, LockFacts DEF PipeOK, LockOK, HolderIsInside, Labels
<1>3. /\ InQueue = data /\ Pushing = arg[Asio]
      /\ InQueue' = InQueue \o Pushing /\ Pushing' = <<>>
  BY <1>1, LockFacts DEF PipeOK, LockOK, InQueue, Pushing
<1>4. InQueue \o Pushing \in Seq(Lines)
  <2> HIDE DEF Lines
  <2> QED
    BY PlaceTypes, ConcatFacts
<1>5. TypesOK'
  BY <1>1, <1>3, <1>4 DEF PipeOK, TypesOK, Inward
<1>6. PeersOK' /\ OnWireOK' /\ (\A c : Passed(c)' <=> Passed(c))
  BY InwardKeeps
<1>7. /\ Ordered(InQueue \o Pushing)
      /\ Before(dest[Table], InQueue \o Pushing)
      /\ LogBefore(InQueue \o Pushing)
      /\ AllPassed(InQueue \o Pushing)
  BY PlaceTypes, OrderedConcat, BeforeConcat DEF PipeOK, LogOK, ReadOK
<1>8. LogOK'
  BY <1>1, <1>3, <1>6, <1>7, NothingIsOrdered DEF PipeOK, LogOK, LogBefore
<1>9. ReadOK'
  <2>1. Ordered(InQueue)' /\ Before(dest[Table], InQueue)' /\ AllPassed(InQueue)'
    BY <1>1, <1>3, <1>6, <1>7 DEF Ordered, Before, AllPassed
  <2>2. Ordered(Pushing)' /\ Before(dest[Table], Pushing)' /\ Before(InQueue, Pushing)'
        /\ AllPassed(Pushing)'
    BY <1>3, NothingIsOrdered DEF Ordered, Before, AllPassed
  <2>3. Ordered(dest[Table])' /\ AllPassed(dest[Table])'
    BY <1>1, <1>6 DEF PipeOK, ReadOK, Ordered, AllPassed
  <2> QED
    BY <2>1, <2>2, <2>3 DEF ReadOK
<1> QED
  BY <1>2, <1>5, <1>6, <1>8, <1>9 DEF PipeOK
-----------------------------------------------------------------------------
(* Parsing: what was popped joins the log, in the same order. *)
LEMMA ParseStep ==
  ASSUME PipeOK, Parse
  PROVE  PipeOK'
<1> DEFINE popped == dest[Table]
           parsed == [i \in DOMAIN popped |-> Command(popped[i])]
<1>1. /\ log' = log \o parsed
      /\ dest' = [dest EXCEPT ![Table] = <<>>]
      /\ UNCHANGED <<data, mutex, pc, arg, wire, sends, fresh, heap, peer>>
  BY DEF Parse, ClearDest, cvars, clientVars, sessionVars
<1>2. popped \in Seq(Lines) /\ Len(popped) \in Nat /\ DOMAIN popped = 1 .. Len(popped)
      /\ \A i \in 1 .. Len(popped) : popped[i] \in Lines
  <2> HIDE DEF Lines
  <2>1. popped \in Seq(Lines)
    BY PlaceTypes
  <2> HIDE DEF popped
  <2> QED
    BY <2>1
<1>3. \A i \in 1 .. Len(popped) : /\ parsed[i] \in Parsings
                                  /\ parsed[i].n = First(popped[i]).n
                                  /\ parsed[i].from = First(popped[i]).from
  <2> HIDE DEF popped, Lines, Parsings
  <2> QED
    BY <1>2, LineFacts
<1>4. parsed \in Seq(Parsings) /\ Len(parsed) = Len(popped)
  <2> DEFINE L == Len(popped)
             e(i) == Command(popped[i])
  <2>1. parsed = [i \in 1 .. L |-> e(i)]
    BY <1>2
  <2>2. \A i \in 1 .. L : e(i) \in Parsings
    BY <1>2, LineFacts
  <2>3. L \in Nat
    BY <1>2
  <2> HIDE DEF popped, Lines, Parsings, L, e
  <2>4. [i \in 1 .. L |-> e(i)] \in Seq(Parsings) /\ Len([i \in 1 .. L |-> e(i)]) = L
    BY <2>2, <2>3
  <2> QED
    BY <2>1, <2>4 DEF L
<1>5. /\ log' \in Seq(Parsings)
      /\ \A i \in 1 .. Len(log') :
           \/ i \in 1 .. Len(log) /\ log'[i] = log[i]
           \/ i - Len(log) \in 1 .. Len(popped) /\ log'[i] = parsed[i - Len(log)]
      /\ Len(log) \in Nat /\ Len(log') \in Nat
  <2> HIDE DEF parsed, Parsings
  <2>1. log \in Seq(Parsings)
    BY DEF PipeOK, TypesOK
  <2>2. log \o parsed \in Seq(Parsings)
        /\ \A i \in 1 .. Len(log \o parsed) :
             \/ i \in 1 .. Len(log) /\ (log \o parsed)[i] = log[i]
             \/ i - Len(log) \in 1 .. Len(parsed) /\ (log \o parsed)[i] = parsed[i - Len(log)]
    BY <1>4, <2>1, ConcatFacts
  <2> QED
    BY <1>1, <1>4, <2>1, <2>2
<1>6. LogBefore(popped) /\ Ordered(popped) /\ AllPassed(popped)
      /\ (\A i, j \in 1 .. Len(log) : i < j => Precedes(log[i], log[j]))
      /\ (\A i \in 1 .. Len(log) : Passed(log[i]))
      /\ LogBefore(InQueue) /\ LogBefore(Pushing)
      /\ Before(popped, InQueue) /\ Before(popped, Pushing)
  BY DEF PipeOK, LogOK, ReadOK
<1> HIDE DEF parsed, popped
<1>7. ASSUME NEW i \in 1 .. Len(popped)
      PROVE  /\ \A d : Precedes(d, First(popped[i])) => Precedes(d, parsed[i])
             /\ \A d : Precedes(First(popped[i]), d) => Precedes(parsed[i], d)
             /\ Passed(First(popped[i])) => Passed(parsed[i])
  BY <1>3, <1>7 DEF Precedes, Passed
<1>8. \A i, j \in 1 .. Len(log') : i < j => Precedes(log'[i], log'[j])
  <2> SUFFICES ASSUME NEW i \in 1 .. Len(log'), NEW j \in 1 .. Len(log'), i < j
               PROVE  Precedes(log'[i], log'[j])
    OBVIOUS
  <2>1. CASE /\ i \in 1 .. Len(log) /\ log'[i] = log[i]
             /\ j \in 1 .. Len(log) /\ log'[j] = log[j]
    BY <1>6, <2>1
  <2>2. CASE /\ i \in 1 .. Len(log) /\ log'[i] = log[i]
             /\ j - Len(log) \in 1 .. Len(popped) /\ log'[j] = parsed[j - Len(log)]
    BY <1>6, <1>7, <2>2 DEF LogBefore
  <2>3. CASE /\ i - Len(log) \in 1 .. Len(popped) /\ log'[i] = parsed[i - Len(log)]
             /\ j - Len(log) \in 1 .. Len(popped) /\ log'[j] = parsed[j - Len(log)]
    <3>1. i - Len(log) < j - Len(log)
      BY <1>5
    <3>2. Precedes(First(popped[i - Len(log)]), First(popped[j - Len(log)]))
      BY <1>6, <2>3, <3>1 DEF Ordered
    <3>3. Precedes(First(popped[i - Len(log)]), parsed[j - Len(log)])
      BY <1>7, <2>3, <3>2
    <3> QED
      BY <1>7, <2>3, <3>3
  <2> QED
    BY <1>5, <2>1, <2>2, <2>3
<1>9. \A i \in 1 .. Len(log') : Passed(log'[i])
  BY <1>5, <1>6, <1>7, Zenon DEF AllPassed
<1>10. \A c : Passed(c)' <=> Passed(c)
  BY <1>1 DEF Passed
<1>11. InQueue' = InQueue /\ Pushing' = Pushing /\ dest'[Table] = <<>>
  BY <1>1, LockFacts DEF InQueue, Pushing, PipeOK, TypesOK
<1>12. ASSUME NEW tt, LogBefore(tt), Before(popped, tt), NEW i \in 1 .. Len(log'),
             NEW j \in 1 .. Len(tt)
       PROVE  Precedes(log'[i], First(tt[j]))
  BY <1>5, <1>7, <1>12, Zenon DEF LogBefore, Before
<1>13. LogOK'
  <2>1. LogBefore(InQueue)' /\ LogBefore(Pushing)'
    BY <1>6, <1>11, <1>12, Zenon DEF LogBefore
  <2>2. LogBefore(dest[Table])'
    BY <1>11, NothingIsOrdered DEF LogBefore
  <2> QED
    BY <1>8, <1>9, <1>10, <2>1, <2>2 DEF LogOK
<1>14. ReadOK'
  <2>1. Ordered(dest[Table])' /\ Before(dest[Table], InQueue)' /\ Before(dest[Table], Pushing)'
        /\ AllPassed(dest[Table])'
    BY <1>11, NothingIsOrdered DEF Ordered, Before, AllPassed
  <2>2. Ordered(InQueue)' /\ Ordered(Pushing)' /\ Before(InQueue, Pushing)'
        /\ AllPassed(InQueue)' /\ AllPassed(Pushing)'
    BY <1>10, <1>11 DEF PipeOK, ReadOK, Ordered, Before, AllPassed
  <2> QED
    BY <2>1, <2>2 DEF ReadOK
<1>15. TypesOK'
  BY <1>1, <1>5, NothingIsOrdered DEF PipeOK, TypesOK
<1>16. LockOK' /\ PeersOK' /\ OnWireOK'
  BY <1>1 DEF PipeOK, LockOK, HolderIsInside, PeersOK, OnWireOK
<1> QED
  BY <1>13, <1>14, <1>15, <1>16 DEF PipeOK
-----------------------------------------------------------------------------
(* The connections. *)

(* Nothing moves on the table's side of the connections. *)
LEMMA OutwardKeeps ==
  ASSUME PipeOK, UNCHANGED <<log, dest, InQueue>>, Pushing' \in {Pushing, <<>>},
         \A c : c.n \in Nat /\ Passed(c) => Passed(c)'
  PROVE  LogOK' /\ ReadOK'
<1>1. \A ss \in Seq(Lines) : \A i \in 1 .. Len(ss) : First(ss[i]).n \in Nat
  <2> SUFFICES ASSUME NEW ss \in Seq(Lines), NEW i \in 1 .. Len(ss)
               PROVE  First(ss[i]).n \in Nat
    OBVIOUS
  <2>1. ss[i] \in Lines
    <3> HIDE DEF Lines
    <3> QED
      OBVIOUS
  <2>2. First(ss[i]) \in Cmd
    BY <2>1, LineFacts
  <2> QED
    BY <2>2 DEF Cmd
<1>2. \A i \in 1 .. Len(log) : log[i].n \in Nat
  <2> SUFFICES ASSUME NEW i \in 1 .. Len(log) PROVE log[i].n \in Nat
    OBVIOUS
  <2>1. log[i] \in Parsings
    <3> HIDE DEF Parsings
    <3> QED
      BY PlaceTypes
  <2>2. PICK s \in Lines : log[i] = Command(s)
    BY <2>1 DEF Parsings
  <2>3. First(s) \in Cmd /\ log[i].n = First(s).n
    BY <2>2, LineFacts
  <2> QED
    BY <2>3 DEF Cmd
<1> HIDE DEF Lines, Parsings
<1>3. \A i \in 1 .. Len(log) : Passed(log[i])'
  BY <1>2 DEF PipeOK, LogOK
<1>4. /\ AllPassed(dest[Table])' /\ AllPassed(InQueue)'
      /\ Pushing' = Pushing => AllPassed(Pushing)'
  <2>1. ASSUME NEW ss \in Seq(Lines), AllPassed(ss)
        PROVE  AllPassed(ss)'
    BY <1>1, <2>1 DEF AllPassed
  <2>2. AllPassed(dest[Table]) /\ AllPassed(InQueue) /\ AllPassed(Pushing)
    BY DEF PipeOK, ReadOK
  <2>3. dest[Table] \in Seq(Lines) /\ InQueue \in Seq(Lines) /\ Pushing \in Seq(Lines)
    BY PlaceTypes
  <2>4. \A ss \in Seq(Lines) : AllPassed(ss) =>
          \A i \in 1 .. Len(ss) : Passed(First(ss[i]))'
    BY <2>1 DEF AllPassed
  <2>5. AllPassed(dest[Table])'
    BY <2>2, <2>3, <2>4 DEF AllPassed
  <2>6. AllPassed(InQueue)'
    BY <2>2, <2>3, <2>4 DEF AllPassed
  <2>7. Pushing' = Pushing => AllPassed(Pushing)'
    BY <2>2, <2>3, <2>4 DEF AllPassed
  <2> QED
    BY <2>5, <2>6, <2>7
<1>5. LogBefore(Pushing)'
  <2>1. CASE Pushing' = Pushing
    BY <2>1 DEF PipeOK, LogOK, LogBefore
  <2>2. CASE Pushing' = <<>>
    BY <2>2, NothingIsOrdered DEF LogBefore
  <2> QED
    BY <2>1, <2>2
<1>6. LogOK'
  BY <1>3, <1>5 DEF PipeOK, LogOK, LogBefore
<1>7. /\ Ordered(Pushing)' /\ Before(dest[Table], Pushing)' /\ Before(InQueue, Pushing)'
      /\ AllPassed(Pushing)'
  <2>1. CASE Pushing' = Pushing
    BY <1>4, <2>1 DEF PipeOK, ReadOK, Ordered, Before, AllPassed
  <2>2. CASE Pushing' = <<>>
    BY <2>2, NothingIsOrdered DEF Ordered, Before, AllPassed
  <2> QED
    BY <2>1, <2>2
<1>8. /\ Ordered(dest[Table])' /\ Ordered(InQueue)' /\ Before(dest[Table], InQueue)'
      /\ AllPassed(dest[Table])' /\ AllPassed(InQueue)'
  BY <1>4 DEF PipeOK, ReadOK, Ordered, Before, AllPassed
<1> QED
  BY <1>6, <1>7, <1>8 DEF ReadOK

(* Every connection keeps what is at its end. *)
Drained == /\ sends' = sends
           /\ wire' \in [Clients -> Seq(Cmd)]
           /\ \A d \in Clients : \E o \in Nat : \A i \in 1 .. Len(wire'[d]) :
                i + o \in 1 .. Len(wire[d]) /\ wire'[d][i] = wire[d][i + o]

LEMMA DrainedKeeps ==
  ASSUME PipeOK, Drained
  PROVE  OnWireOK' /\ (\A c : Passed(c) => Passed(c)')
<1> HIDE DEF Cmd
<1>1. PICK o \in [Clients -> Nat] : \A d \in Clients : \A i \in 1 .. Len(wire'[d]) :
        i + o[d] \in 1 .. Len(wire[d]) /\ wire'[d][i] = wire[d][i + o[d]]
  <2> DEFINE Fits(d, k) == \A i \in 1 .. Len(wire'[d]) :
               i + k \in 1 .. Len(wire[d]) /\ wire'[d][i] = wire[d][i + k]
             off == [d \in Clients |-> CHOOSE k \in Nat : Fits(d, k)]
  <2>1. \A d \in Clients : \E k \in Nat : Fits(d, k)
    BY DEF Drained
  <2> HIDE DEF Fits
  <2>2. \A d \in Clients : off[d] \in Nat /\ Fits(d, off[d])
    BY <2>1
  <2>3. off \in [Clients -> Nat]
    BY <2>2
  <2> USE DEF Fits
  <2> HIDE DEF off
  <2> QED
    BY <2>2, <2>3
<1>2. \A c : Passed(c) => Passed(c)'
  BY <1>1 DEF Drained, Passed
<1>3. \A c \in Clients : \A i \in 1 .. Len(wire'[c]) :
         wire'[c][i].from = c /\ wire'[c][i].n <= sends'
  BY <1>1 DEF PipeOK, OnWireOK, Drained
<1>4. \A c \in Clients : \A i, j \in 1 .. Len(wire'[c]) :
         i < j => wire'[c][i].n < wire'[c][j].n
  <2> SUFFICES ASSUME NEW c \in Clients, NEW i \in 1 .. Len(wire'[c]),
                      NEW j \in 1 .. Len(wire'[c]), i < j
               PROVE  wire'[c][i].n < wire'[c][j].n
    OBVIOUS
  <2>1. o[c] \in Nat /\ i \in Int /\ j \in Int
    BY <1>1
  <2>2. i + o[c] < j + o[c] /\ i + o[c] \in 1 .. Len(wire[c]) /\ j + o[c] \in 1 .. Len(wire[c])
    BY <1>1, <2>1
  <2>3. wire[c][i + o[c]].n < wire[c][j + o[c]].n
    BY <2>2 DEF PipeOK, OnWireOK
  <2> QED
    BY <1>1, <2>3
<1>5. \A c, d \in Clients : c # d =>
        \A i \in 1 .. Len(wire'[c]), j \in 1 .. Len(wire'[d]) : wire'[c][i].n # wire'[d][j].n
  <2> SUFFICES ASSUME NEW c \in Clients, NEW d \in Clients, c # d,
                      NEW i \in 1 .. Len(wire'[c]), NEW j \in 1 .. Len(wire'[d])
               PROVE  wire'[c][i].n # wire'[d][j].n
    OBVIOUS
  <2>1. i + o[c] \in 1 .. Len(wire[c]) /\ j + o[d] \in 1 .. Len(wire[d])
    BY <1>1
  <2>2. wire[c][i + o[c]].n # wire[d][j + o[d]].n
    BY <2>1 DEF PipeOK, OnWireOK
  <2> QED
    BY <1>1, <2>2
<1> QED
  BY <1>2, <1>3, <1>4, <1>5 DEF OnWireOK

(* A client that goes may take along what was not read. *)
LEMMA LeaveStep ==
  ASSUME PipeOK, NEW c \in Clients, NEW how \in Ways, Leave(c, how), UNCHANGED log
  PROVE  PipeOK'
<1>1. /\ wire' = [wire EXCEPT ![c] = IF how = "closed" THEN @ ELSE <<>>]
      /\ UNCHANGED <<data, mutex, pc, arg, dest, sends, fresh, heap, peer>>
  BY DEF Leave, sessionVars, qvars
<1>2. Drained
  <2> HIDE DEF Cmd
  <2>1. wire \in [Clients -> Seq(Cmd)] /\ <<>> \in Seq(Cmd)
    BY DEF PipeOK, TypesOK
  <2>2. wire' \in [Clients -> Seq(Cmd)]
    BY <1>1, <2>1
  <2>3. \A d \in Clients : wire'[d] = wire[d] \/ wire'[d] = <<>>
    BY <1>1, <2>1
  <2>4. ASSUME NEW d \in Clients
        PROVE  \A i \in 1 .. Len(wire'[d]) :
                 i + 0 \in 1 .. Len(wire[d]) /\ wire'[d][i] = wire[d][i + 0]
    <3>1. CASE wire'[d] = wire[d]
      <4>1. \A i \in 1 .. Len(wire[d]) : i + 0 = i
        BY <2>1
      <4> QED
        BY <3>1, <4>1
    <3>2. CASE wire'[d] = <<>>
      BY <3>2
    <3> QED
      BY <2>3, <3>1, <3>2
  <2>5. 0 \in Nat
    OBVIOUS
  <2> QED
    BY <1>1, <2>2, <2>4, <2>5, Zenon DEF Drained
<1>3. OnWireOK' /\ (\A x : Passed(x) => Passed(x)')
  BY <1>2, DrainedKeeps
<1>4. UNCHANGED <<InQueue, Pushing>>
  BY <1>1 DEF InQueue, Pushing
<1>5. LogOK' /\ ReadOK'
  BY <1>1, <1>3, <1>4, OutwardKeeps
<1>6. TypesOK' /\ LockOK' /\ PeersOK'
  BY <1>1, <1>2 DEF Drained, PipeOK, TypesOK, LockOK, HolderIsInside, PeersOK
<1> QED
  BY <1>3, <1>5, <1>6 DEF PipeOK

LEMMA SendStep ==
  ASSUME PipeOK, NEW c \in Clients, NEW code \in Codes, Send(c, code), UNCHANGED log
  PROVE  PipeOK'
<1> DEFINE new == [n |-> sends + 1, from |-> c, code |-> code]
<1>1. /\ sends' = sends + 1
      /\ wire' = [wire EXCEPT ![c] = Append(@, new)]
      /\ UNCHANGED <<data, mutex, pc, arg, dest, fresh, heap, peer>>
  BY DEF Send, sessionVars, qvars
<1>2. new \in Cmd /\ new.n = sends + 1 /\ new.from = c /\ sends \in Nat
  BY DEF PipeOK, TypesOK, Cmd
<1> HIDE DEF new
<1>3. wire \in [Clients -> Seq(Cmd)] /\ \A d \in Clients : wire[d] \in Seq(Cmd)
  BY DEF PipeOK, TypesOK
<1>4. /\ wire'[c] = Append(wire[c], new)
      /\ \A d \in Clients \ {c} : wire'[d] = wire[d]
  BY <1>1, <1>3
<1>5. /\ Append(wire[c], new) \in Seq(Cmd)
      /\ \A i \in 1 .. Len(wire'[c]) :
           \/ i \in 1 .. Len(wire[c]) /\ wire'[c][i] = wire[c][i]
           \/ i = Len(wire[c]) + 1 /\ wire'[c][i] = new
      /\ Len(wire[c]) \in Nat
  <2> DEFINE w == wire[c]
  <2>1. w \in Seq(Cmd) /\ new \in Cmd
    BY <1>2, <1>3
  <2> HIDE DEF w, Cmd
  <2>2. /\ Append(w, new) \in Seq(Cmd) /\ Len(w) \in Nat
        /\ \A i \in 1 .. Len(Append(w, new)) :
             \/ i \in 1 .. Len(w) /\ Append(w, new)[i] = w[i]
             \/ i = Len(w) + 1 /\ Append(w, new)[i] = new
    BY <2>1
  <2> QED
    BY <1>4, <2>2 DEF w
<1>6. wire' \in [Clients -> Seq(Cmd)]
  <2> HIDE DEF Cmd
  <2> QED
    BY <1>1, <1>3, <1>5
<1>7. \A d \in Clients : \A i \in 1 .. Len(wire[d]) :
        wire[d][i].n \in Nat /\ wire[d][i].n <= sends /\ wire[d][i].from = d
  <2> SUFFICES ASSUME NEW d \in Clients, NEW i \in 1 .. Len(wire[d])
               PROVE  wire[d][i].n \in Nat
    BY DEF PipeOK, OnWireOK
  <2>1. wire[d][i] \in Cmd
    <3> HIDE DEF Cmd
    <3> QED
      BY <1>3
  <2> QED
    BY <2>1 DEF Cmd
<1> HIDE DEF Cmd
<1>8. \A x : x.n \in Nat /\ Passed(x) => Passed(x)'
  <2> SUFFICES ASSUME NEW x, x.n \in Nat, Passed(x), NEW d \in Clients,
                      NEW i \in 1 .. Len(wire'[d])
               PROVE  x.n <= sends' /\ Precedes(x, wire'[d][i])
    BY <1>1, <1>2 DEF Passed
  <2>1. CASE d = c /\ i = Len(wire[c]) + 1 /\ wire'[c][i] = new
    BY <1>1, <1>2, <2>1 DEF Passed, Precedes
  <2>2. CASE i \in 1 .. Len(wire[d]) /\ wire'[d][i] = wire[d][i]
    BY <1>1, <1>2, <2>2 DEF Passed
  <2> QED
    BY <1>4, <1>5, <2>1, <2>2
<1>9. OnWireOK'
  <2>1. \A d \in Clients : \A i \in 1 .. Len(wire'[d]) :
           wire'[d][i].from = d /\ wire'[d][i].n <= sends'
    BY <1>1, <1>2, <1>4, <1>5, <1>7
  <2>2. \A d \in Clients : \A i, j \in 1 .. Len(wire'[d]) :
           i < j => wire'[d][i].n < wire'[d][j].n
    <3> SUFFICES ASSUME NEW i \in 1 .. Len(wire'[c]), NEW j \in 1 .. Len(wire'[c]), i < j
                 PROVE  wire'[c][i].n < wire'[c][j].n
      BY <1>4 DEF PipeOK, OnWireOK
    <3>1. i \in 1 .. Len(wire[c]) /\ wire'[c][i] = wire[c][i]
      BY <1>4, <1>5
    <3>2. CASE j \in 1 .. Len(wire[c]) /\ wire'[c][j] = wire[c][j]
      BY <3>1, <3>2 DEF PipeOK, OnWireOK
    <3>3. CASE wire'[c][j] = new
      BY <1>2, <1>7, <3>1, <3>3
    <3> QED
      BY <1>5, <3>2, <3>3
  <2>3. ASSUME NEW d \in Clients \ {c}, NEW i \in 1 .. Len(wire'[c]),
               NEW j \in 1 .. Len(wire[d])
        PROVE  wire'[c][i].n # wire[d][j].n
    <3>1. CASE i \in 1 .. Len(wire[c]) /\ wire'[c][i] = wire[c][i]
      BY <3>1 DEF PipeOK, OnWireOK
    <3>2. CASE wire'[c][i] = new
      BY <1>2, <1>7, <3>2
    <3> QED
      BY <1>5, <3>1, <3>2
  <2>4. \A d, e \in Clients : d # e =>
          \A i \in 1 .. Len(wire'[d]), j \in 1 .. Len(wire'[e]) : wire'[d][i].n # wire'[e][j].n
    <3> SUFFICES ASSUME NEW d \in Clients, NEW e \in Clients, d # e,
                        NEW i \in 1 .. Len(wire'[d]), NEW j \in 1 .. Len(wire'[e])
                 PROVE  wire'[d][i].n # wire'[e][j].n
      OBVIOUS
    <3>1. CASE d = c
      <4>1. e \in Clients \ {c} /\ wire'[e] = wire[e] /\ j \in 1 .. Len(wire[e])
        BY <1>4, <3>1
      <4>2. wire'[c][i].n # wire[e][j].n
        BY <2>3, <3>1, <4>1
      <4> QED
        BY <3>1, <4>1, <4>2
    <3>2. CASE e = c
      <4>1. d \in Clients \ {c} /\ wire'[d] = wire[d] /\ i \in 1 .. Len(wire[d])
        BY <1>4, <3>2
      <4>2. wire'[c][j].n # wire[d][i].n
        BY <2>3, <3>2, <4>1
      <4> QED
        BY <3>2, <4>1, <4>2
    <3>3. CASE d # c /\ e # c
      BY <1>4, <3>3 DEF PipeOK, OnWireOK
    <3> QED
      BY <3>1, <3>2, <3>3
  <2> QED
    BY <2>1, <2>2, <2>4 DEF OnWireOK
<1>10. UNCHANGED <<InQueue, Pushing>>
  BY <1>1 DEF InQueue, Pushing
<1>11. LogOK' /\ ReadOK'
  BY <1>1, <1>8, <1>10, OutwardKeeps
<1>12. TypesOK' /\ LockOK' /\ PeersOK'
  BY <1>1, <1>2, <1>6 DEF PipeOK, TypesOK, LockOK, HolderIsInside, PeersOK
<1> QED
  BY <1>9, <1>11, <1>12 DEF PipeOK
-----------------------------------------------------------------------------
(* The sessions. *)

(* A read takes a string off the front of a connection.  It is pushed, or  *)
(* lost when the table holds the lock.                                     *)
LEMMA HandleReadStep ==
  ASSUME PipeOK, NEW a \in Addrs, HandleRead(a), UNCHANGED log
  PROVE  PipeOK'
<1> DEFINE p == peer[a]
           flags == Garblings(a)
<1>1. p \in Clients /\ wire \in [Clients -> Seq(Cmd)] /\ wire[p] \in Seq(Cmd) /\ Len(wire[p]) \in Nat
  <2>1. p \in Clients /\ wire \in [Clients -> Seq(Cmd)]
    BY DEF HandleRead, PipeOK, PeersOK, TypesOK
  <2> HIDE DEF p, Cmd
  <2> QED
    BY <2>1
<1>2. PICK s \in Reads(a) :
        /\ wire' = [wire EXCEPT ![p] = SubSeq(@, Len(s.cmds) + 1, Len(@))]
        /\ PushAllLock(Asio, <<s>>) \/ Contended(Asio)
  BY DEF HandleRead
<1>2a. PICK k \in 1 .. Len(wire[p]), g \in flags :
         s = [cmds |-> SubSeq(wire[p], 1, k), garbled |-> g]
  <2> DEFINE R == Reads(a)
  <2>1. s \in R /\ R = {[cmds |-> SubSeq(wire[p], 1, k), garbled |-> g] :
                          k \in 1 .. Len(wire[p]), g \in flags}
    BY <1>2 DEF Reads
  <2> HIDE DEF R, flags
  <2> QED
    BY <2>1
<1>3. UNCHANGED <<sends, heap, peer, fresh>>
  BY DEF HandleRead
<1>4. g \in BOOLEAN
  <2>1. flags \subseteq BOOLEAN
    BY Zenon DEF Garblings
  <2> QED
    BY <2>1
<1>5. /\ SubSeq(wire[p], 1, k) \in Seq(Cmd) \ {<<>>}
      /\ Len(SubSeq(wire[p], 1, k)) = k
      /\ Head(SubSeq(wire[p], 1, k)) = wire[p][1]
  <2> DEFINE w == wire[p]
  <2>1. w \in Seq(Cmd) /\ k \in 1 .. Len(w)
    BY <1>1
  <2> HIDE DEF w, p, flags, Cmd
  <2>2. /\ SubSeq(w, 1, k) \in Seq(Cmd) /\ Len(SubSeq(w, 1, k)) = k
        /\ SubSeq(w, 1, k)[1] = w[1]
    BY <2>1
  <2>3. SubSeq(w, 1, k) # <<>> /\ Head(SubSeq(w, 1, k)) = SubSeq(w, 1, k)[1]
    BY <2>1, <2>2
  <2> QED
    BY <2>2, <2>3 DEF w
<1>6. s \in Lines /\ First(s) = wire[p][1] /\ Len(s.cmds) = k
  <2> DEFINE q == SubSeq(wire[p], 1, k)
  <2>1. q \in Seq(Cmd) \ {<<>>} /\ Len(q) = k /\ Head(q) = wire[p][1] /\ g \in BOOLEAN
    BY <1>4, <1>5
  <2>2. s = [cmds |-> q, garbled |-> g]
    BY <1>2a
  <2> HIDE DEF q, p, flags, Cmd
  <2>3. s.cmds = q
    BY <2>2
  <2>4. s \in [cmds : Seq(Cmd) \ {<<>>}, garbled : BOOLEAN]
    BY <2>1, <2>2, Zenon
  <2> QED
    BY <2>1, <2>3, <2>4 DEF Lines, First
<1>7. wire' = [wire EXCEPT ![p] = SubSeq(wire[p], k + 1, Len(wire[p]))]
  BY <1>1, <1>2, <1>6
<1>8. Drained
  <2> DEFINE rest == SubSeq(wire[p], k + 1, Len(wire[p]))
  <2>1. /\ rest \in Seq(Cmd) /\ k \in Nat
        /\ \A i \in 1 .. Len(rest) : i + k \in 1 .. Len(wire[p]) /\ rest[i] = wire[p][i + k]
    <3> DEFINE w == wire[p]
    <3>1. w \in Seq(Cmd) /\ k \in 1 .. Len(w)
      BY <1>1
    <3> HIDE DEF w, p, flags, Cmd
    <3>2. /\ SubSeq(w, k + 1, Len(w)) \in Seq(Cmd)
          /\ \A i \in 1 .. Len(SubSeq(w, k + 1, Len(w))) :
               i + k \in 1 .. Len(w) /\ SubSeq(w, k + 1, Len(w))[i] = w[i + k]
      BY <3>1
    <3> QED
      BY <3>1, <3>2 DEF w
  <2> HIDE DEF flags, Cmd
  <2>2. wire' = [wire EXCEPT ![p] = rest]
    BY <1>7
  <2> HIDE DEF rest, p
  <2>3. wire' \in [Clients -> Seq(Cmd)] /\ wire'[p] = rest
    BY <1>1, <2>1, <2>2
  <2>4. ASSUME NEW d \in Clients
        PROVE  \E o \in Nat : \A i \in 1 .. Len(wire'[d]) :
                 i + o \in 1 .. Len(wire[d]) /\ wire'[d][i] = wire[d][i + o]
    <3>1. CASE d = p
      BY <2>1, <2>3, <3>1
    <3>2. CASE d # p
      <4>1. wire'[d] = wire[d] /\ Len(wire[d]) \in Nat
        BY <1>1, <2>2, <3>2
      <4>2. \A i \in 1 .. Len(wire'[d]) :
              i + 0 \in 1 .. Len(wire[d]) /\ wire'[d][i] = wire[d][i + 0]
        BY <4>1
      <4>3. 0 \in Nat
        OBVIOUS
      <4> QED
        BY <4>2, <4>3
    <3> QED
      BY <3>1, <3>2
  <2> QED
    BY <1>3, <2>3, <2>4, Zenon DEF Drained
<1>9. OnWireOK' /\ (\A x : Passed(x) => Passed(x)')
  BY <1>8, DrainedKeeps
<1>10. PeersOK' /\ wire' \in [Clients -> Seq(Cmd)] /\ sends' \in Nat
  BY <1>3, <1>8 DEF Drained, PipeOK, PeersOK, TypesOK
<1>11. CASE Contended(Asio)
  <2>1. UNCHANGED <<data, mutex, pc, arg, dest>>
    BY <1>11 DEF Contended, qvars
  <2>2. UNCHANGED <<InQueue, Pushing>>
    BY <2>1 DEF InQueue, Pushing
  <2>3. LogOK' /\ ReadOK'
    BY <1>9, <2>1, <2>2, OutwardKeeps
  <2>4. TypesOK' /\ LockOK'
    BY <1>10, <2>1 DEF PipeOK, TypesOK, LockOK, HolderIsInside
  <2> QED
    BY <1>9, <1>10, <2>3, <2>4 DEF PipeOK
<1>12. CASE PushAllLock(Asio, <<s>>)
  <2> HIDE DEF flags
  <2>1. /\ pc[Asio] = "idle" /\ mutex = NoThread /\ mutex' = Asio
        /\ pc' = [pc EXCEPT ![Asio] = "push"] /\ arg' = [arg EXCEPT ![Asio] = <<s>>]
        /\ UNCHANGED <<data, dest>>
    BY <1>12 DEF PushAllLock, TryLock, Goto
  <2>2. LockOK'
    BY <2>1, LockFacts DEF PipeOK, LockOK, HolderIsInside, Labels
  <2>3. Pushing = <<>> /\ Pushing' = <<s>> /\ InQueue' = InQueue
    BY <2>1, LockFacts DEF PipeOK, LockOK, TypesOK, Pushing, InQueue
  <2>4. /\ <<s>> \in Seq(Lines) /\ Len(<<s>>) = 1 /\ <<s>>[1] = s
        /\ \A i \in 1 .. Len(<<s>>) : i = 1
    <3> HIDE DEF Lines
    <3> QED
      BY <1>6
  <2>5. TypesOK'
    BY <1>10, <2>1, <2>4 DEF PipeOK, TypesOK
  <2>6. /\ First(s) = wire[p][1] /\ 1 \in 1 .. Len(wire[p])
        /\ \A x : Passed(x) => Precedes(x, First(s))
    BY <1>1, <1>6 DEF Passed
  <2>7. Passed(First(s))'
    <3>1. First(s).n <= sends' /\ First(s).from = p
      BY <1>1, <1>3, <2>6 DEF PipeOK, OnWireOK
    <3>2. ASSUME NEW d \in Clients, NEW i \in 1 .. Len(wire'[d])
          PROVE  Precedes(First(s), wire'[d][i])
      <4>1. CASE d = p
        <5> DEFINE rest == SubSeq(wire[p], k + 1, Len(wire[p]))
        <5>1. wire'[d] = rest
          BY <1>1, <1>7, <4>1
        <5>2. i + k \in 2 .. Len(wire[p]) /\ rest[i] = wire[p][i + k]
          <6> DEFINE w == wire[p]
          <6>1. w \in Seq(Cmd) /\ k \in 1 .. Len(w) /\ i \in 1 .. Len(SubSeq(w, k + 1, Len(w)))
            BY <1>1, <3>2, <5>1
          <6> HIDE DEF w, p, Cmd
          <6>2. i + k \in 2 .. Len(w) /\ SubSeq(w, k + 1, Len(w))[i] = w[i + k]
            BY <6>1
          <6> QED
            BY <6>2 DEF w
        <5> HIDE DEF rest
        <5>3. 1 < i + k /\ i + k \in 1 .. Len(wire[p])
          BY <1>1, <5>2
        <5>4. wire[p][1].n < wire[p][i + k].n
          BY <1>1, <2>6, <5>3 DEF PipeOK, OnWireOK
        <5>5. wire[p][1] \in Cmd /\ wire[p][i + k] \in Cmd
          <6> HIDE DEF Cmd
          <6> QED
            BY <1>1, <2>6, <5>3
        <5>6. wire[p][1].n \in Nat /\ wire[p][i + k].n \in Nat
          BY <5>5 DEF Cmd
        <5>7. wire[p][1].n # wire[p][i + k].n
          BY <5>4, <5>6
        <5> QED
          BY <2>6, <5>1, <5>2, <5>4, <5>7 DEF Precedes
      <4>2. CASE d # p
        <5>1. wire'[d] = wire[d]
          BY <1>1, <1>7, <4>2
        <5>2. wire[d][i].from = d /\ wire[p][1].n # wire[d][i].n
          BY <1>1, <2>6, <4>2, <5>1 DEF PipeOK, OnWireOK
        <5> QED
          BY <2>6, <3>1, <4>2, <5>1, <5>2 DEF Precedes
      <4> QED
        BY <4>1, <4>2
    <3> QED
      BY <3>1, <3>2 DEF Passed
  <2> HIDE DEF p
  <2>8. /\ \A i \in 1 .. Len(log) : Passed(log[i])
        /\ \A i \in 1 .. Len(dest[Table]) : Passed(First(dest[Table][i]))
        /\ \A i \in 1 .. Len(InQueue) : Passed(First(InQueue[i]))
    BY DEF PipeOK, LogOK, ReadOK, AllPassed
  <2>9. LogOK'
    <3>1. LogBefore(Pushing)'
      BY <2>3, <2>4, <2>6, <2>8 DEF LogBefore
    <3>2. LogBefore(dest[Table])' /\ LogBefore(InQueue)'
      BY <2>1, <2>3 DEF PipeOK, LogOK, LogBefore
    <3>3. \A i \in 1 .. Len(log') : Passed(log[i])'
      BY <1>9, <2>8
    <3> QED
      BY <3>1, <3>2, <3>3 DEF PipeOK, LogOK
  <2>10. ReadOK'
    <3>1. Ordered(Pushing)'
      BY <2>3, <2>4 DEF Ordered
    <3>2. Before(dest[Table], Pushing)'
      BY <2>1, <2>3, <2>4, <2>6, <2>8 DEF Before
    <3>3. Before(InQueue, Pushing)'
      BY <2>3, <2>4, <2>6, <2>8 DEF Before
    <3>4. AllPassed(Pushing)'
      BY <2>3, <2>4, <2>7 DEF AllPassed
    <3>5. AllPassed(dest[Table])' /\ AllPassed(InQueue)'
      BY <1>9, <2>1, <2>3, <2>8 DEF AllPassed
    <3>6. Ordered(dest[Table])' /\ Ordered(InQueue)' /\ Before(dest[Table], InQueue)'
      BY <2>1, <2>3 DEF PipeOK, ReadOK, Ordered, Before
    <3> QED
      BY <3>1, <3>2, <3>3, <3>4, <3>5, <3>6 DEF ReadOK
  <2> QED
    BY <1>9, <1>10, <2>2, <2>5, <2>9, <2>10 DEF PipeOK
<1> QED
  BY <1>2, <1>11, <1>12

(* Steps of sessions, of broadcasts and of serving. *)
LEMMA ElsewhereStep ==
  ASSUME PipeOK, UNCHANGED <<qvars, wire, sends, log>>, PeersOK'
  PROVE  PipeOK'
<1>1. UNCHANGED <<data, mutex, pc, arg, dest, wire, sends, log>>
  BY DEF qvars
<1>2. UNCHANGED <<InQueue, Pushing>> /\ (\A c : Passed(c)' <=> Passed(c))
  BY <1>1 DEF InQueue, Pushing, Passed
<1>3. LogOK' /\ ReadOK'
  BY <1>1, <1>2, OutwardKeeps
<1>4. TypesOK' /\ LockOK' /\ OnWireOK'
  BY <1>1 DEF PipeOK, TypesOK, LockOK, HolderIsInside, OnWireOK
<1> QED
  BY <1>3, <1>4 DEF PipeOK

LEMMA AcceptStep ==
  ASSUME PipeOK, NEW c \in Clients, HandleAccept(c), UNCHANGED log
  PROVE  PipeOK'
<1>1. PICK a \in Addrs : /\ heap[a] = "free" /\ fresh' = a
                         /\ heap' = [heap EXCEPT ![fresh] = "open", ![a] = "accepting"]
  BY DEF HandleAccept
<1>2. fresh # Nil /\ peer' = [peer EXCEPT ![fresh] = c] /\ UNCHANGED <<qvars, wire, sends>>
  BY DEF HandleAccept
<1>3. PeersOK'
  BY <1>1, <1>2 DEF PipeOK, PeersOK
<1> QED
  BY <1>2, <1>3, ElsewhereStep

LEMMA AcceptErrorStep ==
  ASSUME PipeOK, HandleAcceptError, UNCHANGED log
  PROVE  PipeOK'
<1>1. /\ heap' = [heap EXCEPT ![fresh] = "free"] /\ fresh' = Nil
      /\ UNCHANGED <<peer, qvars, wire, sends>>
  BY DEF HandleAcceptError, clientVars
<1>2. PeersOK'
  BY <1>1 DEF PipeOK, PeersOK
<1> QED
  BY <1>1, <1>2, ElsewhereStep

LEMMA DeleteStep ==
  ASSUME PipeOK, NEW a \in Addrs, Delete(a), UNCHANGED log
  PROVE  PipeOK'
<1>1. /\ heap' = [heap EXCEPT ![a] = "free"] /\ peer' = [peer EXCEPT ![a] = Nil]
      /\ UNCHANGED <<fresh, qvars, wire, sends>>
  BY DEF Delete
<1>2. PeersOK'
  BY <1>1 DEF PipeOK, PeersOK
<1> QED
  BY <1>1, <1>2, ElsewhereStep

(* No other step touches the queue, the connections or the sessions. *)
LEMMA SameStep ==
  ASSUME PipeOK, UNCHANGED <<qvars, wire, sends, sessionVars, log>>
  PROVE  PipeOK'
<1>1. PeersOK'
  BY DEF PipeOK, PeersOK, sessionVars
<1> QED
  BY <1>1, ElsewhereStep
-----------------------------------------------------------------------------
LEMMA TableStepKeeps ==
  ASSUME PipeOK, TableStep
  PROVE  PipeOK'
<1>1. CASE Poll
  <2>1. UNCHANGED <<cvars, log>> /\ (PopAllLock(Table) \/ Contended(Table))
    BY <1>1 DEF Poll
  <2>2. CASE PopAllLock(Table)
    BY <2>1, <2>2, LockStep DEF Inward, cvars, clientVars, sessionVars
  <2>3. CASE Contended(Table)
    BY <2>1, <2>3, SameStep DEF Contended, cvars, clientVars
  <2> QED
    BY <2>1, <2>2, <2>3
<1>2. CASE PopStep
  <2>1. /\ Inward /\ UNCHANGED log
        /\ PopAllCopy(Table) \/ PopAllClear(Table) \/ Unlock(Table)
    BY <1>2 DEF PopStep, Inward, cvars, clientVars, sessionVars
  <2> QED
    BY <2>1, CopyStep, ClearStep, UnlockStep, LockFacts
<1>3. CASE Parse
  BY <1>3, ParseStep
<1>4. CASE Echo \/ Verify
  <2>1. UNCHANGED <<qvars, log, clientVars, sessionVars>>
    BY <1>4 DEF Echo, Verify, Respond, BroadcastStart
  <2> QED
    BY <2>1, SameStep DEF clientVars
<1>5. CASE VerifyNothing \/ CalculateRoi
  BY <1>5, SameStep DEF VerifyNothing, CalculateRoi, clientVars
<1>6. CASE Ignore \/ ServeEnd \/ Frame \/ PressKey
  BY <1>6, SameStep DEF Ignore, ServeEnd, Frame, PressKey, cvars, clientVars
<1>7. CASE Responding
  <2>1. UNCHANGED <<qvars, log>> /\ (BroadcastStep \/ UNCHANGED cvars)
    BY <1>7 DEF Responding
  <2>2. UNCHANGED <<wire, sends, sessionVars>>
    BY <2>1 DEF BroadcastStep, BroadcastFetch, BroadcastWrite, BroadcastEnd, BroadcastCrash,
                cvars, clientVars
  <2> QED
    BY <2>1, <2>2, SameStep
<1> QED
  BY <1>1, <1>2, <1>3, <1>4, <1>5, <1>6, <1>7 DEF TableStep

LEMMA AsioStepKeeps ==
  ASSUME PipeOK, AsioStep
  PROVE  PipeOK'
<1>1. UNCHANGED log
  BY DEF AsioStep, tableVars
<1>2. ASSUME NEW c \in Clients, HandleAccept(c) PROVE PipeOK'
  BY <1>1, <1>2, AcceptStep
<1>3. CASE HandleAcceptError
  BY <1>1, <1>3, AcceptErrorStep
<1>4. ASSUME NEW a \in Addrs, HandleRead(a) PROVE PipeOK'
  BY <1>1, <1>4, HandleReadStep
<1>5. ASSUME NEW a \in Addrs, HandleEof(a) \/ HandleError(a) PROVE PipeOK'
  <2>1. Delete(a)
    BY <1>5 DEF HandleEof, HandleError
  <2> QED
    BY <1>1, <2>1, DeleteStep
<1>6. CASE AsioQueueStep
  <2>1. Inward /\ (PushBack(Asio) \/ Unlock(Asio))
    BY <1>6 DEF AsioQueueStep, Inward, cvars, clientVars, sessionVars
  <2> QED
    BY <1>1, <2>1, PushBackStep, UnlockStep, LockFacts
<1>7. ASSUME NEW w \in late, LateSend(w) PROVE PipeOK'
  <2>1. UNCHANGED <<qvars, wire, sends, sessionVars>>
    BY <1>7 DEF LateSend
  <2> QED
    BY <1>1, <2>1, SameStep
<1> QED
  BY <1>2, <1>3, <1>4, <1>5, <1>6, <1>7 DEF AsioStep

LEMMA ClientStepKeeps ==
  ASSUME PipeOK, ClientStep
  PROVE  PipeOK'
<1>1. UNCHANGED log
  BY DEF ClientStep, tableVars
<1>2. ASSUME NEW c \in Clients, Dial(c) PROVE PipeOK'
  <2>1. UNCHANGED <<qvars, wire, sends, sessionVars>>
    BY <1>2 DEF Dial
  <2> QED
    BY <1>1, <2>1, SameStep
<1>3. ASSUME NEW c \in Clients, NEW code \in Codes, Send(c, code) PROVE PipeOK'
  BY <1>1, <1>3, SendStep
<1>4. ASSUME NEW c \in Clients, NEW how \in Ways, Leave(c, how) PROVE PipeOK'
  BY <1>1, <1>4, LeaveStep
<1> QED
  BY <1>2, <1>3, <1>4 DEF ClientStep

LEMMA PipeInit == Init => PipeOK
<1> SUFFICES ASSUME Init PROVE PipeOK
  OBVIOUS
<1> USE DEF Init, QInit, CInit, TInit
<1>1. Asio \in Threads /\ Table \in Threads /\ NoThread \notin Threads
  BY ThreadsAssumption, NoThreadAssumption
<1>2. InQueue = <<>> /\ Pushing = <<>> /\ dest[Table] = <<>> /\ log = <<>>
  BY <1>1 DEF InQueue, Pushing
<1>3. <<>> \in Seq(Lines) /\ <<>> \in Seq(Parsings) /\ <<>> \in Seq(Cmd) /\ Len(<<>>) = 0
  <2> HIDE DEF Lines, Parsings, Cmd
  <2> QED
    OBVIOUS
<1>4. TypesOK
  BY <1>3 DEF TypesOK
<1>5. LockOK
  BY <1>1 DEF LockOK, HolderIsInside, Labels
<1>6. PeersOK
  BY DEF PeersOK
<1>7. OnWireOK
  BY <1>3 DEF OnWireOK
<1>8. LogOK
  BY <1>2, <1>3, NothingIsOrdered DEF LogOK
<1>9. ReadOK
  BY <1>2, NothingIsOrdered DEF ReadOK
<1> QED
  BY <1>4, <1>5, <1>6, <1>7, <1>8, <1>9 DEF PipeOK

LEMMA PipeNext == PipeOK /\ [Next]_vars => PipeOK'
<1> SUFFICES ASSUME PipeOK, [Next]_vars PROVE PipeOK'
  OBVIOUS
<1>1. CASE UNCHANGED vars
  BY <1>1, SameStep DEF vars, cvars, clientVars, tableVars
<1> QED
  BY <1>1, TableStepKeeps, AsioStepKeeps, ClientStepKeeps DEF Next

(* The order of the commands, place by place, in every state. *)
THEOREM PipelineCorrect == Spec => []PipeOK
<1> QED
  BY PipeInit, PipeNext, PTL DEF Spec

(* Whatever the clients send, however their connections end and whichever  *)
(* try_lock fails: no command is parsed twice, and the commands of one     *)
(* client are parsed in the order in which it sent them.                   *)
THEOREM CommandsAreParsedInOrder == Spec => []InOrderOnce
<1>1. PipeOK => InOrderOnce
  <2> SUFFICES ASSUME PipeOK PROVE InOrderOnce
    OBVIOUS
  <2>1. log \in Seq(Parsings)
    BY PlaceTypes
  <2>2. DOMAIN log = 1 .. Len(log)
    <3> HIDE DEF Parsings
    <3> QED
      BY <2>1
  <2> QED
    BY <2>2 DEF PipeOK, LogOK, Precedes, InOrderOnce
<1> QED
  BY <1>1, PipelineCorrect, PTL

(* In the composed system, where sessions push and the table pops, no path *)
(* leaves the queue locked.                                                *)
THEOREM QueueIsNeverLeftLocked == Spec => []HolderIsInside
<1>1. PipeOK => HolderIsInside
  BY DEF PipeOK, LockOK
<1> QED
  BY <1>1, PipelineCorrect, PTL
-----------------------------------------------------------------------------
(* The table server uses the queue as MutexQueue allows: its two threads   *)
(* call push and popAll and nothing else touches the deque.                *)

(* What the clients of a run can have sent, and what a read makes of it.   *)
Sendable == [n : 1 .. MaxSends, from : Clients, code : Codes]
ReadStrings ==
  [cmds : UNION {[1 .. k -> Sendable] : k \in 1 .. MaxSends}, garbled : BOOLEAN]

WireHolds(s, k) == s \in Seq(Sendable) /\ Len(s) <= k

WireOK == /\ sends \in 0 .. MaxSends
          /\ wire \in [Clients -> Seq(Sendable)]
          /\ \A c \in Clients : WireHolds(wire[c], sends)

LEMMA WireInit == ASSUME MaxSends \in Nat, Init PROVE WireOK
BY DEF Init, CInit, WireOK, WireHolds

(* A read takes a prefix off the wire. *)
LEMMA WirePrefix ==
  ASSUME MaxSends \in Nat, NEW l \in 0 .. MaxSends, NEW s, WireHolds(s, l),
         NEW k \in 1 .. Len(s), NEW g \in BOOLEAN
  PROVE  /\ [cmds |-> SubSeq(s, 1, k), garbled |-> g] \in ReadStrings
         /\ Len(SubSeq(s, 1, k)) = k
         /\ WireHolds(SubSeq(s, k + 1, Len(s)), l)
<1>1. s \in Seq(Sendable) /\ Len(s) \in 0 .. MaxSends /\ Len(s) <= l /\ k \in 1 .. MaxSends
  BY DEF WireHolds
<1>2. SubSeq(s, 1, k) \in [1 .. k -> Sendable] /\ Len(SubSeq(s, 1, k)) = k
  <2> HIDE DEF Sendable
  <2> DEFINE t == SubSeq(s, 1, k)
  <2>1. t \in Seq(Sendable) /\ Len(t) = k
    BY <1>1
  <2> HIDE DEF t
  <2>2. t \in [1 .. k -> Sendable]
    BY <1>1, <2>1
  <2> QED
    BY <2>1, <2>2 DEF t
<1>3. SubSeq(s, k + 1, Len(s)) \in Seq(Sendable) /\ Len(SubSeq(s, k + 1, Len(s))) <= Len(s)
  <2> HIDE DEF Sendable
  <2> QED
    BY <1>1
<1> QED
  BY <1>1, <1>2, <1>3 DEF ReadStrings, WireHolds

(* What each step leaves on the wires. *)
LEMMA WireKept == ASSUME WireOK, UNCHANGED <<wire, sends>> PROVE WireOK'
BY DEF WireOK

LEMMA WireSend ==
  ASSUME MaxSends \in Nat, WireOK, NEW c \in Clients, NEW code \in Codes, Send(c, code)
  PROVE  WireOK'
<1> DEFINE m == [n |-> sends + 1, from |-> c, code |-> code]
<1>1. sends \in 0 .. MaxSends /\ sends' = sends + 1 /\ sends' \in 1 .. MaxSends
  BY DEF Send, WireOK
<1>2. m \in Sendable
  BY <1>1 DEF Sendable
<1>3. wire' = [wire EXCEPT ![c] = Append(wire[c], m)]
  BY DEF Send
<1> HIDE DEF m, Sendable
<1>4. ASSUME NEW d \in Clients PROVE WireHolds(wire'[d], sends') /\ wire'[d] \in Seq(Sendable)
  <2>1. wire[d] \in Seq(Sendable) /\ Len(wire[d]) <= sends
    BY DEF WireOK, WireHolds
  <2>2. Append(wire[d], m) \in Seq(Sendable) /\ Len(Append(wire[d], m)) = Len(wire[d]) + 1
    BY <1>2, <2>1
  <2>3. wire'[d] = IF d = c THEN Append(wire[d], m) ELSE wire[d]
    BY <1>3 DEF WireOK
  <2> QED
    BY <1>1, <2>1, <2>2, <2>3 DEF WireHolds
<1>5. wire' \in [Clients -> Seq(Sendable)]
  BY <1>3, <1>4 DEF WireOK
<1> QED
  BY <1>1, <1>4, <1>5 DEF WireOK

LEMMA WireLeave ==
  ASSUME WireOK, NEW c \in Clients, NEW how \in Ways, Leave(c, how)
  PROVE  WireOK'
<1>1. sends' = sends /\ wire' = [wire EXCEPT ![c] = IF how = "closed" THEN @ ELSE <<>>]
  BY DEF Leave
<1>2. WireHolds(<<>>, sends)
  BY DEF WireHolds, WireOK
<1> QED
  BY <1>1, <1>2 DEF WireOK, WireHolds

LEMMA WireRead ==
  ASSUME MaxSends \in Nat, PeersOK, WireOK, NEW a \in Addrs, HandleRead(a)
  PROVE  /\ WireOK'
         /\ (\E s \in ReadStrings : PushAllLock(Asio, <<s>>)) \/ Contended(Asio)
<1>1. PICK s \in Reads(a) :
         /\ wire' = [wire EXCEPT ![peer[a]] = SubSeq(@, Len(s.cmds) + 1, Len(@))]
         /\ PushAllLock(Asio, <<s>>) \/ Contended(Asio)
  BY DEF HandleRead
<1>2. peer[a] \in Clients /\ sends' = sends
  BY DEF HandleRead, PeersOK
<1> DEFINE w == wire[peer[a]]
<1>3. PICK k \in 1 .. Len(w), g \in BOOLEAN : s = [cmds |-> SubSeq(w, 1, k), garbled |-> g]
  BY <1>1 DEF Reads, Garblings
<1>4. WireHolds(w, sends) /\ sends \in 0 .. MaxSends
  BY <1>2 DEF WireOK
<1>5. s \in ReadStrings /\ Len(s.cmds) = k /\ WireHolds(SubSeq(w, k + 1, Len(w)), sends)
  BY <1>3, <1>4, WirePrefix
<1>6. wire' = [wire EXCEPT ![peer[a]] = SubSeq(w, k + 1, Len(w))]
  BY <1>1, <1>5
<1>7. WireOK'
  BY <1>2, <1>5, <1>6 DEF WireOK, WireHolds
<1> QED
  BY <1>1, <1>5, <1>7

(* Every step of the table server leaves the queue alone or is one of the  *)
(* steps MutexQueue allows.                                                *)
LEMMA ServerUsesTheQueue ==
  ASSUME MaxSends \in Nat, {<<s>> : s \in ReadStrings} \subseteq Batches,
         PeersOK, WireOK, [Next]_vars
  PROVE  WireOK' /\ [QNext]_qvars
<1>1. Asio \in Threads /\ Table \in Threads
  BY ThreadsAssumption
<1>2. CASE TableStep
  <2>1. UNCHANGED <<wire, sends>>
    BY <1>2 DEF TableStep, Poll, PopStep, Parse, Echo, Verify, Respond, BroadcastStart,
                VerifyNothing, CalculateRoi, Ignore, Responding, BroadcastStep, BroadcastFetch,
                BroadcastWrite, Deliver, BroadcastEnd, BroadcastCrash, ServeEnd, Frame, PressKey,
                cvars, clientVars
  <2>2. CASE Poll \/ PopStep \/ Parse
    <3>1. \/ PopAllLock(Table) \/ Contended(Table) \/ PopAllCopy(Table)
          \/ PopAllClear(Table) \/ Unlock(Table) \/ ClearDest(Table)
      BY <2>2, Zenon DEF Poll, PopStep, Parse
    <3>2. QNext
      BY <1>1, <3>1, Zenon DEF QNext
    <3> QED
      BY <2>1, <3>2, WireKept
  <2>3. CASE \/ Echo \/ Verify \/ VerifyNothing \/ CalculateRoi \/ Ignore
             \/ Responding \/ ServeEnd \/ Frame \/ PressKey
    <3>1. UNCHANGED qvars
      <4>1. CASE Echo \/ Verify \/ VerifyNothing \/ CalculateRoi
        BY <4>1 DEF Echo, Verify, VerifyNothing, CalculateRoi
      <4>2. CASE Ignore \/ Responding \/ ServeEnd \/ Frame \/ PressKey
        BY <4>2 DEF Ignore, Responding, ServeEnd, Frame, PressKey
      <4> QED
        BY <2>3, <4>1, <4>2
    <3> QED
      BY <2>1, <3>1, WireKept
  <2> QED
    BY <1>2, <2>2, <2>3 DEF TableStep
<1>3. CASE \E a \in Addrs : HandleRead(a)
  <2>1. PICK a \in Addrs : HandleRead(a)
    BY <1>3
  <2>2. WireOK' /\ ((\E s \in ReadStrings : PushAllLock(Asio, <<s>>)) \/ Contended(Asio))
    BY <2>1, WireRead
  <2> QED
    BY <1>1, <2>2 DEF QNext
<1>4. CASE AsioStep /\ ~ \E a \in Addrs : HandleRead(a)
  <2>1. UNCHANGED <<wire, sends>> /\ (UNCHANGED qvars \/ PushBack(Asio) \/ Unlock(Asio))
    BY <1>4 DEF AsioStep, HandleAccept, HandleAcceptError, HandleEof, HandleError, Delete,
                AsioQueueStep, LateSend, cvars, clientVars
  <2> QED
    BY <1>1, <2>1, WireKept DEF QNext
<1>5. CASE ClientStep
  <2>1. UNCHANGED qvars
    BY <1>5 DEF ClientStep, Dial, Send, Leave
  <2>2. WireOK'
    <3>1. ASSUME NEW c \in Clients, Dial(c) PROVE WireOK'
      BY <3>1, WireKept DEF Dial
    <3> QED
      BY <1>5, <3>1, WireSend, WireLeave DEF ClientStep
  <2> QED
    BY <2>1, <2>2
<1>6. CASE UNCHANGED vars
  BY <1>6, WireKept DEF vars, cvars, clientVars
<1> QED
  BY <1>2, <1>3, <1>4, <1>5, <1>6 DEF Next

(* server.cpp:51 and data/MutexQueue.hpp: between the command server and   *)
(* the table loop the queue behaves as one whose operations take effect in *)
(* one instant, whatever the threads do in between: no command that was    *)
(* pushed is seen twice or lost, and they come out in the order in which   *)
(* they went in.  The batches may be any set that has the strings a read   *)
(* can yield.                                                              *)
THEOREM ServerQueueIsAtomic ==
  ASSUME MaxSends \in Nat, {<<s>> : s \in ReadStrings} \subseteq Batches
  PROVE  Spec => QueueIsAtomic
<1>1. Init => QInv /\ WireOK /\ AQ!AInit
  BY QInvInit, WireInit DEF Init, QInit, AQ!AInit, Visible
<1>2. PipeOK /\ QInv /\ WireOK /\ [Next]_vars =>
        QInv' /\ WireOK' /\ [AQ!ANext]_(AQ!avars)
  BY ServerUsesTheQueue, QInvNext, StepIsAtomic DEF PipeOK
<1> QED
  BY <1>1, <1>2, PipelineCorrect, PTL DEF Spec, QueueIsAtomic, AQ!ASpec
-----------------------------------------------------------------------------
(* The sessions.  Whatever the table thread does, it leaves them alone.    *)

LEMMA SessionsNext == SessionsOK /\ [Next]_vars => SessionsOK'
<1> SUFFICES ASSUME SessionsOK, [Next]_vars PROVE SessionsOK'
  OBVIOUS
<1>1. CASE TableStep
  <2>1. UNCHANGED <<client, sessionVars>>
    <3>1. CASE Poll \/ PopStep \/ Parse
      BY <3>1 DEF Poll, PopStep, Parse, cvars, clientVars
    <3>2. CASE Echo \/ Verify
      BY <3>2 DEF Echo, Verify, Respond, BroadcastStart, clientVars
    <3>3. CASE VerifyNothing \/ CalculateRoi \/ Ignore \/ ServeEnd \/ Frame \/ PressKey
      BY <3>3 DEF VerifyNothing, CalculateRoi, Ignore, ServeEnd, Frame, PressKey, cvars, clientVars
    <3>4. CASE Responding
      <4>1. BroadcastStep \/ UNCHANGED cvars
        BY <3>4 DEF Responding
      <4> QED
        BY <4>1 DEF BroadcastStep, BroadcastFetch, BroadcastWrite, BroadcastEnd, BroadcastCrash,
                    cvars, clientVars
    <3> QED
      BY <1>1, <3>1, <3>2, <3>3, <3>4 DEF TableStep
  <2> QED
    BY <2>1, SessionsStay DEF sessionVars
<1>2. CASE AsioStep
  <2>1. ASSUME NEW c \in Clients, HandleAccept(c) PROVE SessionsOK'
    BY <2>1, AcceptRegisters
  <2>2. ASSUME NEW a \in Addrs, HandleRead(a) \/ HandleEof(a) \/ HandleError(a)
        PROVE  SessionsOK'
    <3>1. CASE HandleRead(a)
      BY <3>1, SessionsStay DEF HandleRead
    <3> QED
      BY <2>2, <3>1, EofUnregisters, ErrorForgets
  <2>3. CASE AsioQueueStep \/ \E w \in late : LateSend(w)
    <3>1. UNCHANGED <<client, sessionVars>>
      BY <2>3 DEF AsioQueueStep, LateSend, cvars, clientVars
    <3> QED
      BY <3>1, SessionsStay DEF sessionVars
  <2> QED
    BY <1>2, <2>1, <2>2, <2>3, AcceptErrorRegisters DEF AsioStep
<1>3. CASE ClientStep
  <2>1. ASSUME NEW c \in Clients, Dial(c) PROVE SessionsOK'
    BY <2>1, ClientMoves DEF Dial, sessionVars, ClientStates
  <2>2. ASSUME NEW c \in Clients, NEW code \in Codes, Send(c, code) PROVE SessionsOK'
    BY <2>2, SessionsStay DEF Send, sessionVars
  <2>3. ASSUME NEW c \in Clients, NEW how \in Ways, Leave(c, how) PROVE SessionsOK'
    <3>1. how \in {"closed", "reset", "broken"} /\ (how = "broken" => "read_error" \in Faults)
      BY DEF Ways
    <3>2. UNCHANGED <<heap, peer, fresh, sockets>> /\ client' = [client EXCEPT ![c] = how]
      BY <2>3 DEF Leave, sessionVars
    <3> QED
      BY <3>1, <3>2, ClientMoves DEF ClientStates
  <2> QED
    BY <1>3, <2>1, <2>2, <2>3 DEF ClientStep
<1>4. CASE UNCHANGED vars
  BY <1>4, SessionsStay DEF vars, cvars, clientVars, sessionVars
<1> QED
  BY <1>1, <1>2, <1>3, <1>4 DEF Next

THEOREM SessionsCorrect == Spec => []SessionsOK
<1>1. Init => SessionsOK
  BY SessionsInit DEF Init
<1> QED
  BY <1>1, SessionsNext, PTL DEF Spec

(* With every fault there is, no accept, disconnect or deletion takes the  *)
(* socket of another session off the list that broadcast() walks.          *)
THEOREM OpenSessionsAreRegistered == Spec => []OpenIsRegistered
<1>1. SessionsOK => OpenIsRegistered
  BY DEF SessionsOK
<1> QED
  BY <1>1, SessionsCorrect, PTL

(* While no read fails otherwise than by eof or reset, the list holds the  *)
(* connected sockets and nothing else.  The run dangling_socket shows that *)
(* the condition is needed.                                                *)
THEOREM ListedSocketsAreConnected ==
  ASSUME "read_error" \notin Faults
  PROVE  Spec => []SocketsAreConnected
<1>1. SessionsOK => SocketsAreConnected
  <2> SUFFICES ASSUME SessionsOK PROVE SocketsAreConnected
    OBVIOUS
  <2>1. sockets \in Seq(Addrs) /\ Distinct(sockets) /\ ToSet(sockets) = Open
    BY DEF SessionsOK, SessionTypes, ListsTheOpen
  <2>2. Len(sockets) = Cardinality(Open)
    BY <2>1, DistinctCount
  <2> QED
    BY <2>2 DEF SocketsAreConnected
<1> QED
  BY <1>1, SessionsCorrect, PTL
-----------------------------------------------------------------------------
(* Outside processServerMessages there are no commands, and no broadcast.  *)
LoopOK == /\ tpc \notin {"serve", "respond"} => commands = <<>>
          /\ tpc # "respond" => bcText = Nil
          /\ crashed \in BOOLEAN

LEMMA LoopInit == Init => LoopOK
  BY DEF Init, CInit, TInit, LoopOK

LEMMA LoopNext == LoopOK /\ [Next]_vars => LoopOK'
<1> SUFFICES ASSUME LoopOK, [Next]_vars PROVE LoopOK'
  OBVIOUS
<1>1. CASE TableStep
  <2>1. CASE Poll \/ PopStep \/ Parse
    BY <2>1 DEF Poll, PopStep, Parse, LoopOK, At, cvars, castVars
  <2>2. CASE Echo \/ Verify
    BY <2>2 DEF Echo, Verify, Respond, BroadcastStart, Serving, At, LoopOK
  <2>3. CASE VerifyNothing \/ CalculateRoi \/ Ignore \/ ServeEnd \/ Frame \/ PressKey
    <3>1. /\ tpc' \notin {"serve", "respond"} => commands' = <<>>
          /\ tpc' # "respond" => bcText' = Nil
      BY <2>3 DEF VerifyNothing, CalculateRoi, Ignore, ServeEnd, Frame, PressKey, Serving, At,
                  LoopOK, cvars, castVars
    <3>2. crashed' \in {FALSE, TRUE, markers = "few"} \/ crashed' = crashed
      BY <2>3 DEF VerifyNothing, CalculateRoi, Ignore, ServeEnd, Frame, PressKey, cvars
    <3>3. crashed' \in BOOLEAN
      BY <3>2 DEF LoopOK
    <3> QED
      BY <3>1, <3>3 DEF LoopOK
  <2>4. CASE Responding
    <3>1. /\ tpc' \notin {"serve", "respond"} => commands' = <<>>
          /\ tpc' # "respond" => bcText' = Nil
      BY <2>4 DEF Responding, At, LoopOK, cvars, castVars
    <3>2. \/ crashed' \in {FALSE, heap[bcPtr] = "free"}
          \/ crashed' = TRUE
          \/ crashed' = crashed
      BY <2>4 DEF Responding, BroadcastStep, BroadcastFetch, BroadcastWrite, BroadcastEnd,
                  BroadcastCrash, cvars
    <3>3. crashed' \in BOOLEAN
      BY <3>2 DEF LoopOK
    <3> QED
      BY <3>1, <3>3 DEF LoopOK
  <2> QED
    BY <1>1, <2>1, <2>2, <2>3, <2>4 DEF TableStep
<1>2. CASE AsioStep
  <2>1. UNCHANGED <<tpc, commands>>
    BY <1>2 DEF AsioStep, tableVars
  <2>2. bcText' = bcText /\ crashed' = crashed
    BY <1>2 DEF AsioStep, HandleAccept, HandleAcceptError, HandleRead, HandleEof, HandleError,
                AsioQueueStep, LateSend, Delete, cvars, castVars
  <2> QED
    BY <2>1, <2>2 DEF LoopOK
<1>3. CASE ClientStep
  <2>1. UNCHANGED <<tpc, commands>>
    BY <1>3 DEF ClientStep, tableVars
  <2>2. bcText' = bcText /\ crashed' = crashed
    BY <1>3 DEF ClientStep, Dial, Send, Leave, castVars
  <2> QED
    BY <2>1, <2>2 DEF LoopOK
<1>4. CASE UNCHANGED vars
  BY <1>4 DEF vars, tableVars, cvars, castVars, LoopOK
<1> QED
  BY <1>1, <1>2, <1>3, <1>4 DEF Next

(* While no read fails otherwise than by eof or reset, a session that is   *)
(* gone is off the list: only the pointer that broadcast() had read before *)
(* the disconnect, or an iterator that push_back made stale, can bring the *)
(* process down.                                                           *)
THEOREM OnlyARaceCrashes ==
  ASSUME "read_error" \notin Faults
  PROVE  Spec => CrashNeedsRace
<1>1. ASSUME SessionsOK, LoopOK, [Next]_vars, crashed' # crashed, bcText # Nil
      PROVE  bcOld # Nil \/ bcPtr \notin ToSet(sockets)
  <2>1. ToSet(sockets) = Open
    BY <1>1 DEF SessionsOK, ListsTheOpen
  <2>2. CASE TableStep
    <3>1. tpc = "respond"
      BY <1>1 DEF LoopOK
    <3>2. Responding
      BY <1>1, <2>2, <3>1 DEF TableStep, Poll, PopStep, Parse, Echo, Verify, VerifyNothing,
                              CalculateRoi,
                              Ignore, ServeEnd, Frame, PressKey, Serving, At
    <3>3. BroadcastWrite \/ bcOld # Nil
      BY <1>1, <3>2 DEF Responding, BroadcastStep, BroadcastFetch, BroadcastEnd, BroadcastCrash,
                        cvars
    <3>4. ~crashed
      BY <3>2 DEF Responding, At
    <3>5. CASE BroadcastWrite
      <4>1. crashed' = crashed \/ crashed' \in {FALSE, heap[bcPtr] = "free"}
        BY <3>5 DEF BroadcastWrite
      <4>2. crashed = FALSE /\ crashed' # FALSE
        BY <1>1, <3>4 DEF LoopOK
      <4>3. crashed' = (heap[bcPtr] = "free")
        BY <4>1, <4>2
      <4>4. heap[bcPtr] = "free"
        BY <4>2, <4>3
      <4> QED
        BY <2>1, <4>4 DEF Open
    <3> QED
      BY <3>3, <3>5
  <2>3. CASE AsioStep \/ ClientStep
    <3>1. crashed' = crashed
      BY <2>3 DEF AsioStep, ClientStep, HandleAccept, HandleAcceptError, HandleRead, HandleEof,
                  HandleError, AsioQueueStep, LateSend, Delete, Dial, Send, Leave, cvars
    <3> QED
      BY <1>1, <3>1
  <2>4. CASE UNCHANGED vars
    BY <1>1, <2>4 DEF vars, cvars
  <2> QED
    BY <1>1, <2>2, <2>3, <2>4 DEF Next
<1>2. SessionsOK /\ LoopOK /\ [Next]_vars =>
        [crashed' # crashed /\ bcText # Nil => bcOld # Nil \/ bcPtr \notin ToSet(sockets)]_cvars
  BY <1>1
<1> QED
  BY <1>2, LoopInit, LoopNext, SessionsCorrect, PTL DEF Spec, CrashNeedsRace
-----------------------------------------------------------------------------
(* The responses.  A response has the number of the command it answers, so *)
(* that a client has it already when it holds a response of that number.   *)

Texts == [n : Nat, ok : BOOLEAN, intact : BOOLEAN]

Received(c, n) == {i \in DOMAIN inbox[c] : inbox[c][i].n = n}
Held(c, n) == {l \in late : l.to = c /\ l.text.n = n}

Never(c, n) == Received(c, n) = {} /\ Held(c, n) = {}
Once(c, n) == \/ (\E i \in DOMAIN inbox[c] : Received(c, n) = {i}) /\ Held(c, n) = {}
              \/ Received(c, n) = {} /\ \E l \in late : Held(c, n) = {l}

Unanswered(n) == \A c \in Clients : Never(c, n)
Logged(n) == \E i \in 1 .. Len(log) : log[i].n = n

AnswerTypes == /\ inbox \in [Clients -> Seq(Texts)]
               /\ late \subseteq [to : Clients, text : Texts]
               /\ bcText # Nil => bcText \in Texts
               /\ commands \in Seq(Parsings)
               /\ cmd \in 1 .. Len(commands) + 1
               /\ tpc = "respond" => cmd <= Len(commands)
               /\ bcIdx \in Nat \ {0}
               /\ bcPtr \in Addrs \cup {Nil}
               /\ bcOld # Nil => bcOld \in Seq(Addrs)

(* A broadcast answers the command that is being served. *)
CastIsTheAnswer == tpc = "respond" /\ bcText # Nil => bcText.n = commands[cmd].n

(* The commands that are still to be answered have not been answered.      *)
PendingOK ==
  /\ \A j \in 1 .. Len(commands) : Logged(commands[j].n)
  /\ \A i, j \in 1 .. Len(commands) : i < j => commands[i].n # commands[j].n
  /\ \A j \in 1 .. Len(commands) :
       j > cmd \/ (j = cmd /\ tpc # "respond") => Unanswered(commands[j].n)
  /\ \A n \in Nat : ~Logged(n) => Unanswered(n)

(* The socket at position k has had its turn in the broadcast. *)
Served(k) == k < bcIdx /\ ~(bcPtr # Nil /\ k = bcIdx - 1)

(* Half way through a broadcast that nothing disturbed: whoever is still   *)
(* there has the response exactly if its socket had its turn.              *)
CastOK ==
  bcText # Nil /\ calm =>
    /\ bcOld = Nil
    /\ bcIdx \in 1 .. Len(sockets) + 1
    /\ bcPtr # Nil => bcIdx > 1 /\ bcPtr = sockets[bcIdx - 1]
    /\ \A k \in 1 .. Len(sockets) : client[peer[sockets[k]]] = "on" =>
         /\ Served(k) => Once(peer[sockets[k]], bcText.n)
         /\ ~Served(k) => Never(peer[sockets[k]], bcText.n)

AnswersOK == AnswerTypes /\ LoopOK /\ CastIsTheAnswer /\ PendingOK /\ CastOK

LEMMA ParsingTypes ==
  ASSUME NEW p \in Parsings
  PROVE  p.n \in Nat /\ p.intact \in BOOLEAN
<1>1. PICK s \in Lines : p = Command(s)
  BY DEF Parsings
<1>2. p.n = First(s).n /\ First(s) \in Cmd
  BY <1>1, LineFacts
<1>3. p.n \in Nat
  BY <1>2 DEF Cmd
<1>4. p.intact \in BOOLEAN
  BY <1>1 DEF Command
<1> QED
  BY <1>3, <1>4

LEMMA TextFacts ==
  ASSUME NEW t \in Texts, NEW b \in BOOLEAN
  PROVE  [t EXCEPT !.intact = @ /\ b] \in Texts /\ [t EXCEPT !.intact = @ /\ b].n = t.n
<1>1. t.intact \in BOOLEAN /\ (t.intact /\ b) \in BOOLEAN
  BY Zenon DEF Texts
<1> DEFINE x == t.intact /\ b
<1> HIDE DEF x
<1>2. ASSUME x \in BOOLEAN
      PROVE  [t EXCEPT !.intact = x] \in Texts /\ [t EXCEPT !.intact = x].n = t.n
  BY <1>2 DEF Texts
<1> QED
  BY <1>1, <1>2 DEF x

(* One more response for c. *)
LEMMA ReceivedGrows ==
  ASSUME inbox \in [Clients -> Seq(Texts)], NEW c \in Clients, NEW t \in Texts,
         inbox' = [inbox EXCEPT ![c] = Append(@, t)]
  PROVE  /\ inbox' \in [Clients -> Seq(Texts)]
         /\ \A d \in Clients : \A n : d # c \/ n # t.n => Received(d, n)' = Received(d, n)
         /\ Len(inbox[c]) + 1 \in DOMAIN inbox'[c]
         /\ Received(c, t.n)' = Received(c, t.n) \cup {Len(inbox[c]) + 1}
<1> DEFINE s == inbox[c]
           u == Append(s, t)
<1> HIDE DEF Texts
<1>1. /\ s \in Seq(Texts) /\ u \in Seq(Texts) /\ Len(s) \in Nat
      /\ DOMAIN s = 1 .. Len(s) /\ DOMAIN u = 1 .. Len(s) + 1
      /\ u[Len(s) + 1] = t /\ \A i \in 1 .. Len(s) : u[i] = s[i]
  <2>1. s \in Seq(Texts)
    OBVIOUS
  <2> HIDE DEF s
  <2> QED
    BY <2>1
<1>2. inbox'[c] = u /\ \A d \in Clients : d # c => inbox'[d] = inbox[d]
  OBVIOUS
<1>3. inbox' \in [Clients -> Seq(Texts)]
  <2> HIDE DEF s
  <2>1. inbox' = [inbox EXCEPT ![c] = u]
    BY DEF s
  <2> HIDE DEF u
  <2> QED
    BY <1>1, <2>1
<1> HIDE DEF u
<1>4. \A i : i \in 1 .. Len(s) + 1 <=> i \in 1 .. Len(s) \/ i = Len(s) + 1
  BY <1>1
<1>5. \A d \in Clients : \A n : d # c => Received(d, n)' = Received(d, n)
  BY <1>2 DEF Received
<1>6. \A n : n # t.n => Received(c, n)' = Received(c, n)
  BY <1>1, <1>2, <1>4 DEF Received
<1>7. Received(c, t.n)' = Received(c, t.n) \cup {Len(s) + 1}
  BY <1>1, <1>2, <1>4 DEF Received
<1>8. Len(s) + 1 \in DOMAIN inbox'[c]
  BY <1>1, <1>2, <1>4
<1> QED
  BY <1>3, <1>5, <1>6, <1>7, <1>8 DEF s

LEMMA NeverStays ==
  ASSUME inbox' = inbox, late' \subseteq late
  PROVE  \A c, n : Never(c, n) => Never(c, n)'
  BY DEF Never, Received, Held

LEMMA OnceStays ==
  ASSUME UNCHANGED <<inbox, late>>
  PROVE  \A c, n : Once(c, n) => Once(c, n)'
  BY DEF Once, Received, Held

(* A response that waited moves from one place to the other.               *)
LEMMA LateSendMoves ==
  ASSUME AnswerTypes, NEW w, LateSend(w)
  PROVE  /\ inbox' \in [Clients -> Seq(Texts)]
         /\ late' \subseteq [to : Clients, text : Texts]
         /\ \A c \in Clients : \A n : /\ Never(c, n) => Never(c, n)'
                                      /\ Once(c, n) => Once(c, n)'
<1>1. /\ w \in late /\ late' = late \ {w}
      /\ \E spoiled \in {FALSE, bcText # w.text} :
           inbox' = [inbox EXCEPT ![w.to] = Append(@, [w.text EXCEPT !.intact = @ /\ ~spoiled])]
  BY DEF LateSend
<1>2. w.to \in Clients /\ w.text \in Texts
  <2> HIDE DEF Texts
  <2> QED
    BY <1>1 DEF AnswerTypes
<1>3. PICK t \in Texts : t.n = w.text.n /\ inbox' = [inbox EXCEPT ![w.to] = Append(@, t)]
  <2>1. PICK b \in BOOLEAN :
          inbox' = [inbox EXCEPT ![w.to] = Append(@, [w.text EXCEPT !.intact = @ /\ b])]
    <3>1. PICK spoiled \in {FALSE, bcText # w.text} :
            inbox' = [inbox EXCEPT ![w.to] =
                        Append(@, [w.text EXCEPT !.intact = @ /\ ~spoiled])]
      BY <1>1
    <3>2. (~spoiled) \in BOOLEAN
      OBVIOUS
    <3> QED
      BY <3>1, <3>2
  <2> QED
    BY <1>2, <2>1, TextFacts
<1> HIDE DEF Texts
<1>4. /\ inbox' \in [Clients -> Seq(Texts)]
      /\ \A d \in Clients : \A n : d # w.to \/ n # t.n => Received(d, n)' = Received(d, n)
      /\ Len(inbox[w.to]) + 1 \in DOMAIN inbox'[w.to]
      /\ Received(w.to, t.n)' = Received(w.to, t.n) \cup {Len(inbox[w.to]) + 1}
  BY <1>2, <1>3, ReceivedGrows DEF AnswerTypes
<1>5. ASSUME NEW c \in Clients, NEW n, c # w.to \/ n # t.n
      PROVE  Received(c, n)' = Received(c, n) /\ Held(c, n)' = Held(c, n)
  BY <1>1, <1>3, <1>4, <1>5 DEF Held
<1>6. ASSUME NEW c \in Clients, NEW n, c # w.to \/ n # t.n
      PROVE  (Never(c, n) => Never(c, n)') /\ (Once(c, n) => Once(c, n)')
  <2>1. Received(c, n)' = Received(c, n) /\ Held(c, n)' = Held(c, n)
    BY <1>5, <1>6
  <2>2. Once(c, n) => Once(c, n)'
    <3>1. (\E i \in DOMAIN inbox[c] : Received(c, n) = {i}) =>
            \E i \in DOMAIN inbox'[c] : Received(c, n)' = {i}
      BY <2>1 DEF Received
    <3>2. (\E l \in late : Held(c, n) = {l}) => \E l \in late' : Held(c, n)' = {l}
      BY <2>1 DEF Held
    <3> QED
      BY <2>1, <3>1, <3>2 DEF Once
  <2> QED
    BY <2>1, <2>2 DEF Never
<1>7. w \in Held(w.to, t.n)
  BY <1>1, <1>3 DEF Held
<1>8. Once(w.to, t.n) => Once(w.to, t.n)'
  <2> SUFFICES ASSUME Once(w.to, t.n) PROVE Once(w.to, t.n)'
    OBVIOUS
  <2>1. Received(w.to, t.n) = {} /\ Held(w.to, t.n) = {w}
    BY <1>7 DEF Once
  <2>2. Received(w.to, t.n)' = {Len(inbox[w.to]) + 1}
    BY <1>4, <2>1
  <2>3. Held(w.to, t.n)' = {}
    BY <1>1, <2>1 DEF Held
  <2> QED
    BY <1>4, <2>2, <2>3 DEF Once
<1>9. ~ Never(w.to, t.n)
  BY <1>7 DEF Never
<1>10. late' \subseteq [to : Clients, text : Texts]
  BY <1>1 DEF AnswerTypes
<1> QED
  BY <1>4, <1>6, <1>8, <1>9, <1>10

(* async_write hands c what it did not have, at once or for later.         *)
LEMMA DeliverGives ==
  ASSUME AnswerTypes, NEW c \in Clients, NEW t \in Texts, t = bcText, Deliver(c)
  PROVE  /\ inbox' \in [Clients -> Seq(Texts)]
         /\ late' \subseteq [to : Clients, text : Texts]
         /\ \A d \in Clients : \A n : d # c \/ n # t.n =>
               (Never(d, n) => Never(d, n)') /\ (Once(d, n) => Once(d, n)')
         /\ Never(c, t.n) => Once(c, t.n)'
<1> HIDE DEF Texts
<1>1. CASE inbox' = [inbox EXCEPT ![c] = Append(@, t)] /\ late' = late
  <2>1. /\ inbox' \in [Clients -> Seq(Texts)]
        /\ \A d \in Clients : \A n : d # c \/ n # t.n => Received(d, n)' = Received(d, n)
        /\ Len(inbox[c]) + 1 \in DOMAIN inbox'[c]
        /\ Received(c, t.n)' = Received(c, t.n) \cup {Len(inbox[c]) + 1}
    BY <1>1, ReceivedGrows DEF AnswerTypes
  <2>2. \A d, n : Held(d, n)' = Held(d, n)
    BY <1>1 DEF Held
  <2>3. ASSUME NEW d \in Clients, NEW n, d # c \/ n # t.n
        PROVE  (Never(d, n) => Never(d, n)') /\ (Once(d, n) => Once(d, n)')
    <3>1. (\E i \in DOMAIN inbox[d] : Received(d, n) = {i}) =>
            \E i \in DOMAIN inbox'[d] : Received(d, n)' = {i}
      <4>1. Received(d, n)' = Received(d, n)
        BY <2>1, <2>3
      <4>2. \A i : i \in Received(d, n)' => i \in DOMAIN inbox'[d]
        BY DEF Received
      <4> QED
        BY <4>1, <4>2
    <3>2. (\E l \in late : Held(d, n) = {l}) => \E l \in late' : Held(d, n)' = {l}
      BY <1>1, <2>2
    <3>3. Received(d, n)' = Received(d, n) /\ Held(d, n)' = Held(d, n)
      BY <2>1, <2>2, <2>3
    <3> QED
      BY <3>1, <3>2, <3>3 DEF Never, Once
  <2>4. Never(c, t.n) => Once(c, t.n)'
    <3> SUFFICES ASSUME Never(c, t.n) PROVE Once(c, t.n)'
      OBVIOUS
    <3>1. Held(c, t.n)' = {} /\ Received(c, t.n)' = {Len(inbox[c]) + 1}
      BY <2>1, <2>2 DEF Never
    <3> QED
      BY <2>1, <3>1 DEF Once
  <2> QED
    BY <1>1, <2>1, <2>3, <2>4 DEF AnswerTypes
<1>2. CASE late' = late \cup {[to |-> c, text |-> t]} /\ inbox' = inbox
  <2> DEFINE w == [to |-> c, text |-> t]
  <2>1. w \in [to : Clients, text : Texts] /\ w.to = c /\ w.text.n = t.n
    OBVIOUS
  <2>2. late' = late \cup {w}
    BY <1>2
  <2> HIDE DEF w
  <2>3. \A d, n : Received(d, n)' = Received(d, n)
    BY <1>2 DEF Received
  <2>4. ASSUME NEW d \in Clients, NEW n, d # c \/ n # t.n
        PROVE  (Never(d, n) => Never(d, n)') /\ (Once(d, n) => Once(d, n)')
    <3>1. Held(d, n)' = Held(d, n)
      BY <2>1, <2>2, <2>4 DEF Held
    <3>2. Received(d, n)' = Received(d, n) /\ DOMAIN inbox'[d] = DOMAIN inbox[d]
      BY <1>2, <2>3
    <3>3. (\E l \in late : Held(d, n) = {l}) => \E l \in late' : Held(d, n)' = {l}
      BY <2>2, <3>1
    <3> QED
      BY <3>1, <3>2, <3>3 DEF Never, Once
  <2>5. Never(c, t.n) => Once(c, t.n)'
    <3> SUFFICES ASSUME Never(c, t.n) PROVE Once(c, t.n)'
      OBVIOUS
    <3>1. Held(c, t.n) = {} /\ Received(c, t.n) = {}
      BY DEF Never
    <3>2. \A l : l \in Held(c, t.n)' <=> l = w
      BY <2>1, <2>2, <3>1 DEF Held
    <3>3. Held(c, t.n)' = {w} /\ w \in late'
      BY <2>2, <3>2
    <3> QED
      BY <2>3, <3>1, <3>3 DEF Once
  <2> QED
    BY <1>2, <2>1, <2>2, <2>4, <2>5 DEF AnswerTypes
<1> QED
  BY <1>1, <1>2 DEF Deliver

LEMMA PendingKeeps ==
  ASSUME PendingOK, UNCHANGED <<log, commands, cmd, tpc>>,
         \A c \in Clients : \A n : Never(c, n) => Never(c, n)'
  PROVE  PendingOK'
<1>1. \A n : Unanswered(n) => Unanswered(n)'
  BY DEF Unanswered
<1>2. \A n : Logged(n)' <=> Logged(n)
  BY DEF Logged
<1> QED
  BY <1>1, <1>2 DEF PendingOK

(* Who is reached by a broadcast that nothing disturbs. *)
LEMMA SocketPeers ==
  ASSUME SessionsOK, "read_error" \notin Faults, NEW k \in 1 .. Len(sockets)
  PROVE  /\ sockets[k] \in Addrs /\ sockets[k] # Nil /\ heap[sockets[k]] = "open"
         /\ peer[sockets[k]] \in Clients
         /\ \A l \in 1 .. Len(sockets) : peer[sockets[l]] = peer[sockets[k]] => l = k
<1>1. sockets \in Seq(Addrs) /\ Distinct(sockets) /\ ToSet(sockets) = Open
  BY DEF SessionsOK, SessionTypes, ListsTheOpen
<1>2. \A l \in 1 .. Len(sockets) : sockets[l] \in Open
  BY <1>1 DEF ToSet
<1>3. sockets[k] # Nil
  BY <1>2, NilAssumption DEF Open
<1> QED
  BY <1>1, <1>2, <1>3 DEF SessionsOK, OneSessionEach, Open, Distinct

(* The table's loop and the responses stay as they are, but for some that  *)
(* are lost with their connection; and either the broadcast is no longer   *)
(* calm, or nobody appears on a socket.                                    *)
LEMMA QuietStep ==
  ASSUME SessionsOK, AnswersOK, LoopOK', "read_error" \notin Faults,
         UNCHANGED <<inbox, log, commands, cmd, tpc, bcText, bcIdx, bcPtr>>,
         late' \subseteq late, bcOld' \in {Nil, sockets, bcOld},
         \/ calm' = FALSE
         \/ /\ UNCHANGED <<late, bcOld, sockets, peer, calm>>
            /\ \A c \in Clients : client'[c] = "on" => client[c] = "on"
  PROVE  AnswersOK'
<1>1. sockets \in Seq(Addrs)
  BY DEF SessionsOK, SessionTypes
<1>2. AnswerTypes'
  <2> HIDE DEF Texts, Parsings
  <2>1. inbox' \in [Clients -> Seq(Texts)] /\ late' \subseteq [to : Clients, text : Texts]
        /\ (bcText' # Nil => bcText' \in Texts)
        /\ commands' \in Seq(Parsings) /\ cmd' \in 1 .. Len(commands') + 1
        /\ (tpc' = "respond" => cmd' <= Len(commands'))
    BY DEF AnswersOK, AnswerTypes
  <2>2. bcIdx' \in Nat \ {0} /\ bcPtr' \in Addrs \cup {Nil} /\ (bcOld' # Nil => bcOld' \in Seq(Addrs))
    BY <1>1 DEF AnswersOK, AnswerTypes
  <2> QED
    BY <2>1, <2>2 DEF AnswerTypes
<1>3. PendingOK'
  BY NeverStays, PendingKeeps DEF AnswersOK
<1>4. CastIsTheAnswer'
  BY DEF AnswersOK, CastIsTheAnswer
<1>5. CastOK'
  <2> SUFFICES ASSUME bcText' # Nil, calm' PROVE CastOK'
    BY DEF CastOK
  <2>1. /\ UNCHANGED <<inbox, late, bcText, bcIdx, bcPtr, bcOld, sockets, peer, calm>>
        /\ \A c \in Clients : client'[c] = "on" => client[c] = "on"
    OBVIOUS
  <2>2. \A k : Served(k)' <=> Served(k)
    BY <2>1 DEF Served
  <2>3. \A c, n : (Once(c, n) => Once(c, n)') /\ (Never(c, n) => Never(c, n)')
    BY <2>1, OnceStays, NeverStays
  <2>4. ASSUME NEW k \in 1 .. Len(sockets), client'[peer[sockets[k]]] = "on"
        PROVE  /\ Served(k) => Once(peer[sockets[k]], bcText.n)
               /\ ~Served(k) => Never(peer[sockets[k]], bcText.n)
    <3>1. client[peer[sockets[k]]] = "on"
      BY <2>1, <2>4, SocketPeers
    <3> QED
      BY <2>1, <3>1 DEF AnswersOK, CastOK
  <2>5. /\ bcOld' = Nil
        /\ bcIdx' \in 1 .. Len(sockets') + 1
        /\ bcPtr' # Nil => bcIdx' > 1 /\ bcPtr' = sockets'[bcIdx' - 1]
    BY <2>1 DEF AnswersOK, CastOK
  <2> QED
    BY <2>1, <2>2, <2>3, <2>4, <2>5 DEF CastOK
<1> QED
  BY <1>2, <1>3, <1>4, <1>5 DEF AnswersOK

LEMMA LateSendStep ==
  ASSUME SessionsOK, AnswersOK, LoopOK', "read_error" \notin Faults,
         NEW w, LateSend(w), UNCHANGED tableVars
  PROVE  AnswersOK'
<1>1. UNCHANGED <<log, commands, cmd, tpc, bcText, bcIdx, bcPtr, bcOld, calm, sockets, peer, client>>
  BY DEF LateSend, tableVars, sessionVars
<1>2. /\ inbox' \in [Clients -> Seq(Texts)]
      /\ late' \subseteq [to : Clients, text : Texts]
      /\ \A c \in Clients : \A n : /\ Never(c, n) => Never(c, n)'
                                   /\ Once(c, n) => Once(c, n)'
  BY LateSendMoves DEF AnswersOK
<1>3. AnswerTypes'
  <2> HIDE DEF Texts, Parsings
  <2> QED
    BY <1>1, <1>2 DEF AnswersOK, AnswerTypes
<1>4. PendingOK'
  BY <1>1, <1>2, PendingKeeps DEF AnswersOK
<1>5. CastIsTheAnswer'
  BY <1>1 DEF AnswersOK, CastIsTheAnswer
<1>6. CastOK'
  <2> SUFFICES ASSUME bcText # Nil, calm PROVE CastOK'
    BY <1>1 DEF CastOK
  <2>1. \A k : Served(k)' <=> Served(k)
    BY <1>1 DEF Served
  <2>2. ASSUME NEW k \in 1 .. Len(sockets), client[peer[sockets[k]]] = "on"
        PROVE  /\ Served(k) => Once(peer[sockets[k]], bcText.n)
               /\ ~Served(k) => Never(peer[sockets[k]], bcText.n)
               /\ peer[sockets[k]] \in Clients
    BY <2>2, SocketPeers DEF AnswersOK, CastOK
  <2>3. /\ bcOld' = Nil
        /\ bcIdx' \in 1 .. Len(sockets') + 1
        /\ bcPtr' # Nil => bcIdx' > 1 /\ bcPtr' = sockets'[bcIdx' - 1]
    BY <1>1 DEF AnswersOK, CastOK
  <2> QED
    BY <1>1, <1>2, <2>1, <2>2, <2>3 DEF CastOK
<1> QED
  BY <1>3, <1>4, <1>5, <1>6 DEF AnswersOK
-----------------------------------------------------------------------------
(* The table thread. *)

LEMMA ServeStep ==
  ASSUME AnswersOK, LoopOK', tpc # "respond", tpc' # "respond",
         UNCHANGED <<inbox, late, log, bcText, bcIdx, bcPtr, bcOld>>,
         \/ UNCHANGED <<commands, cmd>>
         \/ commands' = <<>> /\ cmd' = 1
         \/ commands' = commands /\ cmd <= Len(commands) /\ cmd' = cmd + 1
  PROVE  AnswersOK'
<1>1. \A n : (Unanswered(n) => Unanswered(n)') /\ (Logged(n)' <=> Logged(n))
  BY NeverStays DEF Unanswered, Logged
<1>2. Len(<<>>) = 0 /\ <<>> \in Seq(Parsings) /\ Len(commands) \in Nat /\ cmd \in 1 .. Len(commands) + 1
  <2> HIDE DEF Parsings
  <2> QED
    BY DEF AnswersOK, AnswerTypes
<1>3. AnswerTypes'
  <2> HIDE DEF Texts, Parsings
  <2>1. commands' \in Seq(Parsings) /\ cmd' \in 1 .. Len(commands') + 1
    <3>1. commands \in Seq(Parsings)
      BY DEF AnswersOK, AnswerTypes
    <3>2. CASE commands' = <<>> /\ cmd' = 1
      BY <1>2, <3>2
    <3>3. CASE commands' = commands /\ cmd' = cmd
      BY <1>2, <3>1, <3>3
    <3>4. CASE commands' = commands /\ cmd <= Len(commands) /\ cmd' = cmd + 1
      BY <1>2, <3>1, <3>4
    <3> QED
      BY <3>2, <3>3, <3>4
  <2>2. UNCHANGED <<bcIdx, bcPtr>>
    OBVIOUS
  <2> QED
    BY <2>1, <2>2 DEF AnswersOK, AnswerTypes
<1>4. PendingOK'
  BY <1>1, <1>2 DEF AnswersOK, PendingOK
<1>5. bcText' = Nil
  BY DEF AnswersOK, LoopOK
<1> QED
  BY <1>3, <1>4, <1>5 DEF AnswersOK, CastOK, CastIsTheAnswer

LEMMA RespondStep ==
  ASSUME SessionsOK, AnswersOK, LoopOK', "read_error" \notin Faults, Echo \/ Verify
  PROVE  AnswersOK'
<1>1. /\ tpc = "serve" /\ tpc' = "respond" /\ cmd <= Len(commands)
      /\ UNCHANGED <<inbox, late, log, commands, cmd, sockets, peer, client>>
      /\ bcIdx' = 1 /\ bcPtr' = Nil /\ bcOld' = Nil
  BY DEF Echo, Verify, Respond, BroadcastStart, Serving, At, clientVars, sessionVars
<1>2. cmd \in 1 .. Len(commands) /\ commands[cmd] \in Parsings
  <2> HIDE DEF Parsings
  <2>1. commands \in Seq(Parsings) /\ cmd \in 1 .. Len(commands) + 1
    BY DEF AnswersOK, AnswerTypes
  <2> QED
    BY <1>1, <2>1
<1>3. bcText' \in Texts /\ bcText'.n = commands[cmd].n
  <2> DEFINE c == commands[cmd]
  <2>1. c.n \in Nat /\ c.intact \in BOOLEAN
    BY <1>2, ParsingTypes
  <2>2. PICK ok \in BOOLEAN, i \in BOOLEAN : bcText' = [n |-> c.n, ok |-> ok, intact |-> i]
    <3>1. CASE Echo
      BY <2>1, <3>1 DEF Echo, Respond, BroadcastStart
    <3>2. CASE Verify
      <4> DEFINE d == [c EXCEPT !.intact = TRUE]
      <4>1. bcText' = [n |-> d.n, ok |-> (markers' = "legal"), intact |-> d.intact]
        BY <3>2 DEF Verify, Respond, BroadcastStart
      <4>2. d.n = c.n /\ d.intact = TRUE
        <5>1. PICK s \in Lines : c = Command(s)
          BY <1>2 DEF Parsings
        <5> QED
          BY <5>1 DEF Command
      <4>3. (markers' = "legal") \in BOOLEAN
        OBVIOUS
      <4> QED
        BY <4>1, <4>2, <4>3
    <3> QED
      BY <3>1, <3>2
  <2>3. [n |-> c.n, ok |-> ok, intact |-> i] \in Texts
    <3>1. c.n \in Nat
      BY <2>1
    <3> HIDE DEF c
    <3> QED
      BY <3>1 DEF Texts
  <2>4. bcText'.n = c.n
    BY <2>2
  <2> QED
    BY <2>2, <2>3, <2>4
<1>4. \A n : (Unanswered(n) => Unanswered(n)') /\ (Logged(n)' <=> Logged(n))
  BY <1>1, NeverStays DEF Unanswered, Logged
<1>5. AnswerTypes'
  <2> HIDE DEF Texts, Parsings
  <2> QED
    BY <1>1, <1>2, <1>3 DEF AnswersOK, AnswerTypes
<1>6. PendingOK'
  BY <1>1, <1>4 DEF AnswersOK, PendingOK
<1>7. CastIsTheAnswer'
  BY <1>1, <1>3 DEF CastIsTheAnswer
<1>8. CastOK'
  <2>1. Unanswered(commands[cmd].n)
    BY <1>1, <1>2 DEF AnswersOK, PendingOK
  <2>2. \A n : Unanswered(n) => \A c \in Clients : Never(c, n)'
    BY <1>4 DEF Unanswered
  <2>3. \A k \in 1 .. Len(sockets) : peer[sockets[k]] \in Clients
    BY SocketPeers
  <2>4. \A k \in 1 .. Len(sockets) : ~Served(k)'
    BY <1>1 DEF Served
  <2>5. 1 \in 1 .. Len(sockets) + 1
    BY DEF SessionsOK, SessionTypes
  <2>6. \A k \in 1 .. Len(sockets') : Never(peer[sockets[k]], bcText.n)'
    BY <1>1, <1>3, <2>1, <2>2, <2>3
  <2> QED
    BY <1>1, <2>4, <2>5, <2>6 DEF CastOK
<1> QED
  BY <1>5, <1>6, <1>7, <1>8 DEF AnswersOK

LEMMA ConcatAt ==
  ASSUME NEW S, NEW s \in Seq(S), NEW t \in Seq(S)
  PROVE  /\ Len(s) \in Nat /\ Len(t) \in Nat /\ Len(s \o t) = Len(s) + Len(t)
         /\ \A i \in 1 .. Len(s) : (s \o t)[i] = s[i]
         /\ \A i \in 1 .. Len(t) : (s \o t)[Len(s) + i] = t[i]
  OBVIOUS

(* What was popped is parsed: none of it has been answered.                *)
LEMMA ParseAnswers ==
  ASSUME PipeOK, PipeOK', AnswersOK, LoopOK', Parse
  PROVE  AnswersOK'
<1> DEFINE popped == dest[Table]
           parsed == [i \in DOMAIN popped |-> Command(popped[i])]
           keep == {c \in ToSet(parsed) : c.code \in ServerCodes}
<1>1. /\ commands' = commands \o Chosen(parsed, keep)
      /\ log' = log \o parsed
      /\ tpc = "parse" /\ tpc' = "serve"
      /\ UNCHANGED <<inbox, late, cmd, bcText, bcIdx, bcPtr, bcOld>>
  BY DEF Parse, Put, At, cvars, clientVars, castVars
<1>2. parsed \in Seq(Parsings)
  <2>1. popped \in Seq(Lines)
    BY PlaceTypes
  <2> DEFINE L == Len(popped)
             e(i) == Command(popped[i])
  <2>2. L \in Nat /\ DOMAIN popped = 1 .. L /\ \A i \in 1 .. L : popped[i] \in Lines
    <3> HIDE DEF Lines, popped
    <3> QED
      BY <2>1
  <2>3. \A i \in 1 .. L : e(i) \in Parsings
    BY <2>2, LineFacts
  <2>4. parsed = [i \in 1 .. L |-> e(i)]
    BY <2>2
  <2> HIDE DEF popped, Lines, Parsings, L, e, parsed
  <2>5. [i \in 1 .. L |-> e(i)] \in Seq(Parsings)
    BY <2>2, <2>3
  <2> QED
    BY <2>4, <2>5
<1> HIDE DEF parsed, keep
<1> DEFINE P == Parsings
           put == Chosen(parsed, keep)
           R == {q \in P \X P : q[1].n # q[2].n}
           N == Len(log)
           M == Len(parsed)
<1>3. commands = <<>> /\ cmd = 1 /\ bcText = Nil
  <2>1. commands = <<>> /\ bcText = Nil
    BY <1>1 DEF AnswersOK, LoopOK
  <2>2. Len(<<>>) = 0 /\ cmd \in 1 .. Len(commands) + 1
    BY DEF AnswersOK, AnswerTypes
  <2> QED
    BY <2>1, <2>2
<1>4. /\ N \in Nat /\ M \in Nat /\ Len(log') = N + M
      /\ \A i \in 1 .. N : log'[i] = log[i] /\ log[i] \in P
      /\ \A i \in 1 .. M : log'[N + i] = parsed[i] /\ parsed[i] \in P
  <2>1. log \in Seq(P)
    BY DEF PipeOK, TypesOK
  <2>2. parsed \in Seq(P)
    BY <1>2
  <2> HIDE DEF P
  <2>3. /\ \A i \in 1 .. Len(log) : log[i] \in P
        /\ \A i \in 1 .. Len(parsed) : parsed[i] \in P
    BY <2>1, <2>2
  <2> QED
    BY <1>1, <2>1, <2>2, <2>3, ConcatAt
<1>5. \A i, j \in 1 .. Len(log') : i < j => log'[i].n # log'[j].n
  BY DEF PipeOK, LogOK, Precedes
<1>6. \A i, j \in 1 .. M : i < j => parsed[i].n # parsed[j].n
  <2> SUFFICES ASSUME NEW i \in 1 .. M, NEW j \in 1 .. M, i < j
               PROVE  parsed[i].n # parsed[j].n
    OBVIOUS
  <2>1. N + i \in 1 .. Len(log') /\ N + j \in 1 .. Len(log') /\ N + i < N + j
    BY <1>4
  <2> QED
    BY <1>4, <1>5, <2>1
<1>7. ASSUME NEW j \in 1 .. M
      PROVE  parsed[j].n \in Nat /\ ~ Logged(parsed[j].n)
  <2>1. \A i \in 1 .. N : i \in 1 .. Len(log') /\ N + j \in 1 .. Len(log') /\ i < N + j
    BY <1>4
  <2>2. ~ Logged(parsed[j].n)
    BY <1>4, <1>5, <2>1 DEF Logged
  <2> QED
    BY <1>4, <2>2, ParsingTypes
<1>8. \A n : Logged(n) => Logged(n)'
  BY <1>4 DEF Logged
<1>9. /\ put \in Seq(P) /\ ToSet(put) \subseteq ToSet(parsed) /\ Pairwise(put, R)
  <2>1. Pairwise(parsed, R)
    BY <1>4, <1>6 DEF Pairwise
  <2>0. parsed \in Seq(P)
    BY <1>2
  <2> HIDE DEF P, R
  <2>2. /\ Chosen(parsed, keep) \in Seq(P)
        /\ ToSet(Chosen(parsed, keep)) = ToSet(parsed) \cap keep
        /\ \A Q : Pairwise(parsed, Q) => Pairwise(Chosen(parsed, keep), Q)
    BY <2>0, ChosenFacts
  <2>3. Pairwise(Chosen(parsed, keep), R)
    BY <2>1, <2>2
  <2> QED
    BY <2>2, <2>3
<1>10. commands' = put
  <2> HIDE DEF P, put
  <2>1. <<>> \o put = put
    BY <1>9
  <2> QED
    BY <1>1, <1>3, <2>1 DEF put
<1> HIDE DEF put
<1>11. /\ Len(put) \in Nat
       /\ \A j \in 1 .. Len(put) : \E i \in 1 .. M : put[j] = parsed[i]
  <2> HIDE DEF P
  <2>1. Len(put) \in Nat /\ DOMAIN put = 1 .. Len(put) /\ DOMAIN parsed = 1 .. M
    BY <1>2, <1>9
  <2>2. \A j \in 1 .. Len(put) : put[j] \in ToSet(put)
    BY <2>1 DEF ToSet
  <2> QED
    BY <1>9, <2>1, <2>2 DEF ToSet
<1>12. AnswerTypes'
  <2>1. commands' \in Seq(P) /\ cmd' \in 1 .. Len(commands') + 1
    BY <1>1, <1>3, <1>9, <1>10, <1>11
  <2> HIDE DEF Texts, Parsings
  <2> QED
    BY <1>1, <2>1 DEF AnswersOK, AnswerTypes
<1>13. PendingOK'
  <2>1. \A n : Unanswered(n) => Unanswered(n)'
    BY <1>1, NeverStays DEF Unanswered
  <2>2. \A i, j \in 1 .. Len(put) : i < j => put[i].n # put[j].n
    BY <1>9 DEF Pairwise
  <2>3. \A n \in Nat : ~Logged(n)' => Unanswered(n)'
    BY <1>8, <2>1 DEF AnswersOK, PendingOK
  <2>4. ASSUME NEW j \in 1 .. Len(put)
        PROVE  Logged(commands[j].n)' /\ Unanswered(commands[j].n)'
    <3>1. PICK n \in Nat : n = put[j].n /\ ~Logged(n) /\ Logged(n)'
      <4>1. PICK i \in 1 .. M : put[j] = parsed[i]
        BY <1>11
      <4>2. PICK n : n = parsed[i].n
        OBVIOUS
      <4>3. n \in Nat /\ ~Logged(n)
        BY <1>7, <4>2
      <4>4. Logged(n)'
        <5>1. N + i \in 1 .. Len(log') /\ log'[N + i] = parsed[i]
          BY <1>4
        <5> QED
          BY <4>2, <5>1 DEF Logged
      <4> QED
        BY <4>1, <4>2, <4>3, <4>4
    <3>2. Unanswered(n)'
      BY <2>1, <3>1 DEF AnswersOK, PendingOK
    <3>3. commands'[j].n = n
      BY <1>10, <3>1
    <3> QED
      BY <3>1, <3>2, <3>3
  <2> QED
    BY <1>10, <2>2, <2>3, <2>4 DEF PendingOK
<1> QED
  BY <1>1, <1>3, <1>12, <1>13 DEF AnswersOK, CastIsTheAnswer, CastOK

(* The pointer that broadcast() holds, when the session is still there.    *)
LEMMA PointerFacts ==
  ASSUME SessionsOK, AnswersOK, bcPtr # Nil, heap[bcPtr] = "open"
  PROVE  bcPtr \in Open /\ peer[bcPtr] \in Clients
  BY DEF SessionsOK, OneSessionEach, Open, AnswersOK, AnswerTypes

LEMMA FetchAnswers ==
  ASSUME SessionsOK, AnswersOK, LoopOK', "read_error" \notin Faults,
         BroadcastFetch, UNCHANGED <<tableVars>>
  PROVE  AnswersOK'
<1>1. /\ bcText # Nil /\ bcPtr = Nil /\ bcIdx <= Len(Storage)
      /\ bcPtr' = Storage[bcIdx] /\ bcIdx' = bcIdx + 1
      /\ UNCHANGED <<inbox, late, log, commands, cmd, tpc, bcText, bcOld, calm, sockets, peer, client>>
  BY DEF BroadcastFetch, tableVars, clientVars, sessionVars
<1>2. Storage \in Seq(Addrs) /\ bcIdx \in 1 .. Len(Storage)
  BY <1>1 DEF Storage, SessionsOK, SessionTypes, AnswersOK, AnswerTypes
<1>3. bcPtr' \in Addrs /\ bcPtr' # Nil /\ bcIdx' \in Nat \ {0}
  <2>1. Storage[bcIdx] \in Addrs
    BY <1>2
  <2> QED
    BY <1>1, <1>2, <2>1, NilAssumption
<1>4. AnswerTypes'
  <2> HIDE DEF Texts, Parsings
  <2> QED
    BY <1>1, <1>3 DEF AnswersOK, AnswerTypes
<1>5. \A c, n : (Once(c, n) => Once(c, n)') /\ (Never(c, n) => Never(c, n)')
  BY <1>1, OnceStays, NeverStays
<1>6. PendingOK'
  BY <1>1, <1>5, PendingKeeps DEF AnswersOK
<1>7. CastIsTheAnswer'
  BY <1>1 DEF AnswersOK, CastIsTheAnswer
<1>8. CastOK'
  <2> SUFFICES ASSUME calm PROVE CastOK'
    BY <1>1 DEF CastOK
  <2>1. bcOld = Nil /\ Storage = sockets
    BY <1>1 DEF AnswersOK, CastOK, Storage
  <2>2. ASSUME NEW k \in 1 .. Len(sockets) PROVE Served(k)' <=> Served(k)
    BY <1>1, <1>2, <1>3 DEF Served
  <2>3. bcIdx' \in 1 .. Len(sockets) + 1 /\ bcIdx' > 1 /\ bcPtr' = sockets[bcIdx' - 1]
    BY <1>1, <1>2, <2>1
  <2>4. \A k \in 1 .. Len(sockets) : client[peer[sockets[k]]] = "on" =>
           /\ Served(k) => Once(peer[sockets[k]], bcText.n)
           /\ ~Served(k) => Never(peer[sockets[k]], bcText.n)
    BY <1>1 DEF AnswersOK, CastOK
  <2> QED
    BY <1>1, <1>5, <2>1, <2>2, <2>3, <2>4 DEF CastOK
<1> QED
  BY <1>4, <1>6, <1>7, <1>8 DEF AnswersOK

LEMMA WriteAnswers ==
  ASSUME SessionsOK, AnswersOK, LoopOK', "read_error" \notin Faults,
         bcText # Nil, tpc = "respond", BroadcastWrite, UNCHANGED <<tableVars>>
  PROVE  AnswersOK'
<1>1. /\ bcPtr # Nil /\ bcPtr' = Nil
      /\ UNCHANGED <<log, commands, cmd, tpc, bcText, bcIdx, bcOld, calm, sockets, peer, client>>
  BY DEF BroadcastWrite, tableVars, sessionVars
<1>2. PICK t \in Texts : t = bcText
  BY DEF AnswersOK, AnswerTypes
<1> DEFINE Reached == heap[bcPtr] = "open" /\ client[peer[bcPtr]] = "on"
           Other(d, n) == Reached => d # peer[bcPtr] \/ n # t.n
<1> HIDE DEF Texts
<1>3. /\ inbox' \in [Clients -> Seq(Texts)]
      /\ late' \subseteq [to : Clients, text : Texts]
      /\ \A d \in Clients : \A n : Other(d, n) =>
            (Never(d, n) => Never(d, n)') /\ (Once(d, n) => Once(d, n)')
      /\ Reached => \A d \in Clients : d = peer[bcPtr] /\ Never(d, t.n) => Once(d, t.n)'
  <2>1. CASE Reached
    <3>1. PICK c \in Clients : c = peer[bcPtr]
      BY <1>1, <2>1, PointerFacts
    <3>2. Deliver(c)
      BY <2>1, <3>1 DEF BroadcastWrite
    <3>3. /\ inbox' \in [Clients -> Seq(Texts)]
          /\ late' \subseteq [to : Clients, text : Texts]
          /\ \A d \in Clients : \A n : d # c \/ n # t.n =>
                (Never(d, n) => Never(d, n)') /\ (Once(d, n) => Once(d, n)')
          /\ Never(c, t.n) => Once(c, t.n)'
      BY <1>2, <3>2, DeliverGives DEF AnswersOK
    <3> QED
      BY <2>1, <3>1, <3>3
  <2>2. CASE ~Reached
    <3>1. UNCHANGED <<inbox, late>>
      BY <2>2 DEF BroadcastWrite
    <3> QED
      BY <2>2, <3>1, OnceStays, NeverStays DEF AnswersOK, AnswerTypes
  <2> QED
    BY <2>1, <2>2
<1>4. AnswerTypes'
  <2> HIDE DEF Parsings
  <2> QED
    BY <1>1, <1>3 DEF AnswersOK, AnswerTypes
<1>5. t.n = commands[cmd].n /\ cmd \in 1 .. Len(commands)
  <2>1. t.n = commands[cmd].n
    BY <1>2 DEF AnswersOK, CastIsTheAnswer
  <2>2. cmd \in 1 .. Len(commands) + 1 /\ cmd <= Len(commands) /\ Len(commands) \in Nat
    BY DEF AnswersOK, AnswerTypes
  <2> QED
    BY <2>1, <2>2
<1>6. PendingOK'
  <2>1. \A n : n # t.n /\ Unanswered(n) => Unanswered(n)'
    BY <1>3 DEF Unanswered
  <2>2. \A n : Logged(n)' <=> Logged(n)
    BY <1>1 DEF Logged
  <2>3. Logged(t.n)
    BY <1>5 DEF AnswersOK, PendingOK
  <2>4. ASSUME NEW j \in 1 .. Len(commands), j > cmd
        PROVE  commands[j].n # t.n /\ Unanswered(commands[j].n)
    BY <1>5, <2>4 DEF AnswersOK, PendingOK
  <2> QED
    BY <1>1, <2>1, <2>2, <2>3, <2>4 DEF AnswersOK, PendingOK
<1>7. CastIsTheAnswer'
  BY <1>1 DEF AnswersOK, CastIsTheAnswer
<1>8. CastOK'
  <2> SUFFICES ASSUME calm PROVE CastOK'
    BY <1>1 DEF CastOK
  <2>1. /\ bcOld = Nil /\ bcIdx \in 1 .. Len(sockets) + 1 /\ bcIdx > 1
        /\ bcPtr = sockets[bcIdx - 1] /\ bcIdx - 1 \in 1 .. Len(sockets)
    BY <1>1 DEF AnswersOK, CastOK, SessionsOK, SessionTypes
  <2>2. ASSUME NEW k \in 1 .. Len(sockets), client[peer[sockets[k]]] = "on"
        PROVE  /\ Served(k)' => Once(peer[sockets[k]], t.n)'
               /\ ~Served(k)' => Never(peer[sockets[k]], t.n)'
    <3>1. PICK d \in Clients : d = peer[sockets[k]]
      BY SocketPeers
    <3>2. /\ Served(k) => Once(d, t.n)
          /\ ~Served(k) => Never(d, t.n)
      BY <1>2, <2>2, <3>1 DEF AnswersOK, CastOK
    <3>3. d = peer'[sockets'[k]]
      BY <1>1, <3>1
    <3>4. CASE k = bcIdx - 1
      <4>1. ~Served(k) /\ Served(k)'
        BY <1>1, <2>1, <3>4 DEF Served
      <4>2. Reached /\ d = peer[bcPtr]
        BY <2>1, <2>2, <3>1, <3>4, SocketPeers
      <4>3. Once(d, t.n)'
        BY <1>3, <3>2, <4>1, <4>2
      <4> QED
        BY <3>3, <4>1, <4>3
    <3>5. CASE k # bcIdx - 1
      <4>1. Served(k)' <=> Served(k)
        BY <1>1, <2>1, <3>5 DEF Served
      <4>2. d # peer[bcPtr]
        BY <2>1, <3>1, <3>5, SocketPeers
      <4>3. (Never(d, t.n) => Never(d, t.n)') /\ (Once(d, t.n) => Once(d, t.n)')
        BY <1>3, <4>2
      <4> QED
        BY <3>2, <3>3, <4>1, <4>3
    <3> QED
      BY <3>4, <3>5
  <2>3. bcText' = t
    BY <1>1, <1>2
  <2> QED
    BY <1>1, <2>1, <2>2, <2>3 DEF CastOK
<1> QED
  BY <1>4, <1>6, <1>7, <1>8 DEF AnswersOK

LEMMA RespondingAnswers ==
  ASSUME SessionsOK, AnswersOK, LoopOK', "read_error" \notin Faults, Responding
  PROVE  AnswersOK'
<1>1. tpc = "respond" /\ UNCHANGED <<qvars, commands, regionMsgs, markers, bounds, log>>
  BY DEF Responding, At
<1>2. CASE bcText # Nil
  <2>1. BroadcastStep /\ UNCHANGED tableVars
    BY <1>1, <1>2 DEF Responding, tableVars
  <2>2. CASE BroadcastEnd
    <3>1. /\ bcText' = Nil /\ bcOld' = Nil
          /\ UNCHANGED <<inbox, late, log, commands, cmd, tpc, bcIdx, bcPtr>>
      BY <2>1, <2>2 DEF BroadcastEnd, clientVars, tableVars
    <3>2. AnswerTypes'
      <4> HIDE DEF Texts, Parsings
      <4> QED
        BY <3>1 DEF AnswersOK, AnswerTypes
    <3>3. PendingOK'
      BY <3>1, NeverStays, PendingKeeps DEF AnswersOK
    <3> QED
      BY <3>1, <3>2, <3>3 DEF AnswersOK, CastIsTheAnswer, CastOK
  <2>3. CASE BroadcastCrash
    <3>1. UNCHANGED <<inbox, late, log, commands, cmd, tpc, bcText, bcIdx, bcPtr, bcOld, calm,
                      sockets, peer, client>>
      BY <2>1, <2>3 DEF BroadcastCrash, clientVars, sessionVars, castVars, tableVars
    <3> QED
      BY <3>1, QuietStep
  <2> QED
    BY <1>1, <1>2, <2>1, <2>2, <2>3, FetchAnswers, WriteAnswers DEF BroadcastStep
<1>3. CASE bcText = Nil
  <2>1. /\ tpc' = "serve" /\ cmd' = cmd + 1
        /\ UNCHANGED <<inbox, late, log, commands, bcText, bcIdx, bcPtr, bcOld>>
    BY <1>1, <1>3 DEF Responding, cvars, clientVars, castVars
  <2>2. cmd \in 1 .. Len(commands) /\ Len(commands) \in Nat
    BY <1>1 DEF AnswersOK, AnswerTypes
  <2>3. AnswerTypes'
    <3>1. cmd' \in 1 .. Len(commands') + 1
      BY <2>1, <2>2
    <3> HIDE DEF Texts, Parsings
    <3> QED
      BY <2>1, <3>1 DEF AnswersOK, AnswerTypes
  <2>4. PendingOK'
    <3>1. \A n : (Unanswered(n) => Unanswered(n)') /\ (Logged(n)' <=> Logged(n))
      BY <2>1, NeverStays DEF Unanswered, Logged
    <3> QED
      BY <1>1, <2>1, <2>2, <3>1 DEF AnswersOK, PendingOK
  <2> QED
    BY <1>3, <2>1, <2>3, <2>4 DEF AnswersOK, CastIsTheAnswer, CastOK
<1> QED
  BY <1>2, <1>3
-----------------------------------------------------------------------------
LEMMA AnswersInit == Init => AnswersOK
<1> SUFFICES ASSUME Init PROVE AnswersOK
  OBVIOUS
<1>1. /\ inbox = [c \in Clients |-> <<>>] /\ late = {} /\ log = <<>> /\ commands = <<>>
      /\ cmd = 1 /\ tpc = "poll" /\ bcText = Nil /\ bcIdx = 1 /\ bcPtr = Nil /\ bcOld = Nil
  BY DEF Init, CInit, TInit
<1>2. <<>> \in Seq(Texts) /\ <<>> \in Seq(Parsings) /\ Len(<<>>) = 0 /\ DOMAIN <<>> = {}
  <2> HIDE DEF Texts, Parsings
  <2> QED
    OBVIOUS
<1>3. AnswerTypes
  <2> HIDE DEF Texts, Parsings
  <2> QED
    BY <1>1, <1>2 DEF AnswerTypes
<1>4. \A n : Unanswered(n)
  BY <1>1, <1>2 DEF Unanswered, Never, Received, Held
<1>5. PendingOK
  BY <1>1, <1>2, <1>4 DEF PendingOK
<1> QED
  BY <1>1, <1>3, <1>5, LoopInit DEF AnswersOK, CastIsTheAnswer, CastOK

LEMMA AnswersNext ==
  ASSUME "read_error" \notin Faults
  PROVE  PipeOK /\ PipeOK' /\ SessionsOK /\ AnswersOK /\ [Next]_vars => AnswersOK'
<1> SUFFICES ASSUME PipeOK, PipeOK', SessionsOK, AnswersOK, [Next]_vars PROVE AnswersOK'
  OBVIOUS
<1>1. LoopOK'
  BY LoopNext DEF AnswersOK
<1>2. CASE TableStep
  <2>1. CASE Poll \/ PopStep \/ VerifyNothing \/ Frame \/ PressKey
    <3>1. /\ tpc # "respond" /\ tpc' # "respond"
          /\ UNCHANGED <<inbox, late, log, bcText, bcIdx, bcPtr, bcOld, commands, cmd>>
      BY <2>1 DEF Poll, PopStep, VerifyNothing, Frame, PressKey, Serving, At, cvars,
                  clientVars, castVars
    <3> QED
      BY <1>1, <3>1, ServeStep
  <2>2. CASE CalculateRoi \/ Ignore \/ ServeEnd
    <3>1. /\ tpc # "respond" /\ tpc' # "respond"
          /\ UNCHANGED <<inbox, late, log, bcText, bcIdx, bcPtr, bcOld>>
          /\ \/ commands' = <<>> /\ cmd' = 1
             \/ commands' = commands /\ cmd <= Len(commands) /\ cmd' = cmd + 1
      BY <2>2 DEF CalculateRoi, Ignore, ServeEnd, Serving, At, cvars, clientVars, castVars
    <3> QED
      BY <1>1, <3>1, ServeStep
  <2> QED
    BY <1>1, <1>2, <2>1, <2>2, ParseAnswers, RespondStep, RespondingAnswers DEF TableStep
<1>3. CASE AsioStep
  <2>1. UNCHANGED <<log, commands, cmd, tpc>>
    BY <1>3 DEF AsioStep, tableVars
  <2>2. ASSUME NEW w \in late, LateSend(w), UNCHANGED tableVars PROVE AnswersOK'
    BY <1>1, <2>2, LateSendStep
  <2>3. CASE HandleAcceptError \/ AsioQueueStep \/ \E a \in Addrs : HandleRead(a)
    <3>1. UNCHANGED <<inbox, late, bcText, bcIdx, bcPtr, bcOld, calm, sockets, peer, client>>
      BY <2>3 DEF HandleAcceptError, AsioQueueStep, HandleRead, cvars, clientVars, sessionVars, castVars
    <3> QED
      BY <1>1, <2>1, <3>1, QuietStep
  <2>4. ASSUME NEW c \in Clients, HandleAccept(c) PROVE AnswersOK'
    <3>1. /\ UNCHANGED <<inbox, late, bcText, bcIdx, bcPtr>> /\ calm' = FALSE
          /\ bcOld' \in {Nil, sockets, bcOld}
      BY <2>4 DEF HandleAccept
    <3> QED
      BY <1>1, <2>1, <3>1, QuietStep
  <2>5. ASSUME NEW a \in Addrs, HandleEof(a) \/ HandleError(a) PROVE AnswersOK'
    <3>1. /\ UNCHANGED <<inbox, bcText, bcIdx, bcPtr, bcOld>> /\ calm' = FALSE
          /\ late' \subseteq late
      BY <2>5 DEF HandleEof, HandleError, Delete
    <3> QED
      BY <1>1, <2>1, <3>1, QuietStep
  <2> QED
    BY <1>3, <2>2, <2>3, <2>4, <2>5 DEF AsioStep
<1>4. CASE ClientStep
  <2>1. UNCHANGED <<log, commands, cmd, tpc>>
    BY <1>4 DEF ClientStep, tableVars
  <2>2. UNCHANGED <<inbox, late, bcText, bcIdx, bcPtr, bcOld, calm, sockets, peer>>
    BY <1>4 DEF ClientStep, Dial, Send, Leave, sessionVars, castVars
  <2>3. \A c \in Clients : client'[c] = "on" => client[c] = "on"
    <3>1. \/ client' = client
          \/ \E c \in Clients, s \in {"dialing", "closed", "reset", "broken"} :
               client' = [client EXCEPT ![c] = s]
      BY <1>4 DEF ClientStep, Dial, Send, Leave, Ways
    <3> QED
      BY <3>1 DEF SessionsOK, SessionTypes
  <2> QED
    BY <1>1, <2>1, <2>2, <2>3, QuietStep
<1>5. CASE UNCHANGED vars
  <2>1. UNCHANGED <<inbox, late, log, commands, cmd, tpc, bcText, bcIdx, bcPtr, bcOld, calm,
                    sockets, peer, client>>
    BY <1>5 DEF vars, cvars, tableVars, clientVars, sessionVars, castVars
  <2> QED
    BY <1>1, <2>1, QuietStep
<1> QED
  BY <1>2, <1>3, <1>4, <1>5 DEF Next

(* Once is what the counting of responses says. *)
LEMMA OnceIsOne ==
  ASSUME NEW c, NEW n, Once(c, n)
  PROVE  Cardinality(Received(c, n)) + Cardinality(Held(c, n)) = 1
<1>1. Cardinality({}) = 0 /\ \A x : Cardinality({x}) = 1
  BY FS_EmptySet, FS_Singleton
<1>2. \/ \E i : Received(c, n) = {i} /\ Held(c, n) = {}
      \/ \E l : Received(c, n) = {} /\ Held(c, n) = {l}
  BY DEF Once
<1>3. \/ Cardinality(Received(c, n)) = 1 /\ Cardinality(Held(c, n)) = 0
      \/ Cardinality(Received(c, n)) = 0 /\ Cardinality(Held(c, n)) = 1
  BY <1>1, <1>2
<1> QED
  BY <1>3

(* A broadcast during which nobody comes or goes answers every client once *)
(* each, whatever waits for slow sockets and whatever other responses the  *)
(* client has: no socket is skipped by the iteration and none served twice. *)
THEOREM CalmBroadcastsAnswerAll ==
  ASSUME "read_error" \notin Faults
  PROVE  Spec => CalmBroadcastReachesAll
<1>1. ASSUME SessionsOK, AnswersOK, [Next]_vars, bcText # Nil, bcText' = Nil, calm,
             NEW a \in Open, client[peer[a]] = "on"
      PROVE  Cardinality({i \in DOMAIN inbox[peer[a]] : inbox[peer[a]][i].n = bcText.n})
             + Cardinality({l \in late : l.to = peer[a] /\ l.text.n = bcText.n}) = 1
  <2>1. tpc = "respond"
    BY <1>1 DEF AnswersOK, LoopOK
  <2>2. TableStep
    <3>1. ~ AsioStep
      BY <1>1 DEF AsioStep, HandleAccept, HandleAcceptError, HandleRead, HandleEof, HandleError,
                  AsioQueueStep, LateSend, Delete, cvars, castVars
    <3>2. ~ ClientStep
      BY <1>1 DEF ClientStep, Dial, Send, Leave, castVars
    <3>3. ~ UNCHANGED vars
      BY <1>1 DEF vars, cvars, castVars
    <3> QED
      BY <1>1, <3>1, <3>2, <3>3 DEF Next
  <2>3. Responding
    BY <2>1, <2>2 DEF TableStep, Poll, PopStep, Parse, Echo, Verify, VerifyNothing, CalculateRoi,
                      Ignore, ServeEnd, Frame, PressKey, Serving, At
  <2>4. BroadcastEnd
    BY <1>1, <2>3 DEF Responding, BroadcastStep, BroadcastFetch, BroadcastWrite, BroadcastCrash,
                      castVars
  <2>5. /\ bcOld = Nil /\ bcIdx \in 1 .. Len(sockets) + 1
        /\ \A k \in 1 .. Len(sockets) : client[peer[sockets[k]]] = "on" =>
              (Served(k) => Once(peer[sockets[k]], bcText.n))
    BY <1>1 DEF AnswersOK, CastOK
  <2>6. bcPtr = Nil /\ bcIdx > Len(sockets)
    BY <2>4, <2>5 DEF BroadcastEnd, Storage
  <2>7. PICK k \in 1 .. Len(sockets) : a = sockets[k]
    <3>1. sockets \in Seq(Addrs) /\ a \in ToSet(sockets)
      BY <1>1 DEF SessionsOK, SessionTypes, OpenIsRegistered
    <3> QED
      BY <3>1 DEF ToSet
  <2>8. Served(k)
    BY <2>5, <2>6 DEF Served, SessionsOK, SessionTypes
  <2>9. Once(peer[a], bcText.n)
    BY <1>1, <2>5, <2>7, <2>8
  <2>10. PICK c, n : c = peer[a] /\ n = bcText.n
    OBVIOUS
  <2>11. Cardinality(Received(c, n)) + Cardinality(Held(c, n)) = 1
    BY <2>9, <2>10, OnceIsOne
  <2> QED
    BY <2>10, <2>11 DEF Received, Held
<1>2. SessionsOK /\ AnswersOK /\ [Next]_vars =>
        [bcText # Nil /\ bcText' = Nil /\ calm =>
           \A a \in Open : client[peer[a]] = "on" =>
              Cardinality({i \in DOMAIN inbox[peer[a]] : inbox[peer[a]][i].n = bcText.n})
              + Cardinality({l \in late : l.to = peer[a] /\ l.text.n = bcText.n}) = 1]_cvars
  BY <1>1
<1>3. Spec => []AnswersOK
  BY AnswersInit, AnswersNext, PipelineCorrect, SessionsCorrect, PTL DEF Spec
<1> QED
  BY <1>2, <1>3, SessionsCorrect, PTL DEF Spec, CalmBroadcastReachesAll
=============================================================================
