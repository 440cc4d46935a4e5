----------------------------- MODULE MutexQueue ------------------------------
(***************************************************************************)
(* data/MutexQueue.hpp: a std::deque behind a boost::mutex.  No operation  *)
(* ever blocks: each one tries the lock once and returns false when some   *)
(* other thread holds it, and the caller decides what a false return means *)
(* (CommandSession ignores it, TableServer polls again on its next frame). *)
(*                                                                         *)
(* pc[t] is where thread t stands inside an operation.  What a thread does *)
(* to its own vector inside the lock is one step; the two writes of popAll *)
(* (copy the deque, then clear it) are two, since only the mutex keeps a   *)
(* push from falling between them.                                         *)
(***************************************************************************)
EXTENDS Naturals, Sequences

CONSTANTS Threads,   (* the threads that share the queue *)
          Elems,     (* the elements                     *)
          Batches,   (* the vectors callers push         *)
          NoThread   (* the value of an unlocked mutex   *)

ASSUME NoThreadAssumption == NoThread \notin Threads
ASSUME BatchesAssumption == Batches \subseteq Seq(Elems)

VARIABLES data,      (* the deque                                            *)
          mutex,     (* the thread that holds the mutex, or NoThread         *)
          pc,        (* pc[t]: t's position in an operation, "idle" outside  *)
          arg,       (* arg[t]: what t is pushing                            *)
          dest       (* dest[t]: the vector t hands to popAll                *)

qvars == <<data, mutex, pc, arg, dest>>

QInit == /\ data = <<>>
         /\ mutex = NoThread
         /\ pc = [t \in Threads |-> "idle"]
         /\ arg = [t \in Threads |-> <<>>]
         /\ dest = [t \in Threads |-> <<>>]

Goto(t, label) == pc' = [pc EXCEPT ![t] = label]

(* mutex.try_lock() succeeds, and t goes on at label. *)
TryLock(t, label) == /\ pc[t] = "idle"
                     /\ mutex = NoThread
                     /\ mutex' = t
                     /\ Goto(t, label)

(* mutex.try_lock() fails: the operation returns false, nothing is written. *)
Contended(t) == /\ pc[t] = "idle"
                /\ mutex # NoThread
                /\ UNCHANGED qvars

(* push(element) is PushAllLock(t, <<element>>); pushAll passes a vector. *)
PushAllLock(t, xs) == /\ TryLock(t, "push")
                      /\ arg' = [arg EXCEPT ![t] = xs]
                      /\ UNCHANGED <<data, dest>>

(* A push_back lost to a push_front. *)
PushFrontMutant(t) == /\ pc[t] = "push"
                      /\ data' = arg[t] \o data
                      /\ Goto(t, "unlock")
                      /\ UNCHANGED <<mutex, arg, dest>>

PushBack(t) == /\ pc[t] = "push"
               /\ data' = data \o arg[t]
               /\ Goto(t, "unlock")
               /\ UNCHANGED <<mutex, arg, dest>>

PopAllLock(t) == /\ TryLock(t, "copy")
                 /\ UNCHANGED <<data, arg, dest>>

(* popAll appends to the caller's vector, it does not replace it. *)
PopAllCopy(t) == /\ pc[t] = "copy"
                 /\ dest' = [dest EXCEPT ![t] = @ \o data]
                 /\ Goto(t, "clear")
                 /\ UNCHANGED <<data, mutex, arg>>

PopAllClear(t) == /\ pc[t] = "clear"
                  /\ data' = <<>>
                  /\ Goto(t, "unlock")
                  /\ UNCHANGED <<mutex, arg, dest>>

(* A path that returns with the mutex locked. *)
StillLockedMutant(t) == /\ pc[t] = "unlock"
                        /\ Goto(t, "idle")
                        /\ UNCHANGED <<data, mutex, arg, dest>>

Unlock(t) == /\ pc[t] = "unlock"
             /\ mutex' = NoThread
             /\ Goto(t, "idle")
             /\ UNCHANGED <<data, arg, dest>>

(* The owner of a vector clears it between two popAll, outside the lock. *)
ClearDest(t) == /\ pc[t] = "idle"
                /\ dest' = [dest EXCEPT ![t] = <<>>]
                /\ UNCHANGED <<data, mutex, pc, arg>>
-----------------------------------------------------------------------------
(* Any thread may call any operation at any time with any vector. *)
QNext == \E t \in Threads :
            \/ \E xs \in Batches : PushAllLock(t, xs)
            \/ PushBack(t)
            \/ PopAllLock(t)
            \/ PopAllCopy(t)
            \/ PopAllClear(t)
            \/ Unlock(t)
            \/ Contended(t)
            \/ ClearDest(t)

QSpec == QInit /\ [][QNext]_qvars
-----------------------------------------------------------------------------
Labels == {"idle", "push", "copy", "clear", "unlock"}

(* Every variable has the type of the field it models. *)
QTypeOK == /\ data \in Seq(Elems)
           /\ mutex \in Threads \cup {NoThread}
           /\ pc \in [Threads -> Labels]
           /\ arg \in [Threads -> Seq(Elems)]
           /\ dest \in [Threads -> Seq(Elems)]

(* The mutex is held exactly by the thread that is between a successful    *)
(* try_lock and the matching unlock: no early return leaves it locked and  *)
(* no operation touches the deque without it.                              *)
HolderIsInside == \A t \in Threads : pc[t] # "idle" <=> mutex = t

(* What a thread inside push is about to append is what its caller passed. *)
PushesItsArgument == \A t \in Threads : pc[t] = "push" => arg[t] \in Batches

QInv == QTypeOK /\ HolderIsInside /\ PushesItsArgument

(* popAll takes effect when the deque is copied: from then on, and until   *)
(* the deque is cleared, its elements belong to the taker alone.           *)
Visible == IF \E t \in Threads : pc[t] = "clear" THEN <<>> ELSE data

AQ == INSTANCE AtomicQueue WITH box <- Visible, out <- dest

(* MutexQueue implements the atomic queue: although every operation is     *)
(* several steps long, nobody can see an element twice, miss one that was  *)
(* pushed, or see two batches interleaved.                                 *)
QueueIsAtomic == AQ!ASpec
=============================================================================
