----------------------------- MODULE AtomicQueue -----------------------------
(***************************************************************************)
(* What the users of data/MutexQueue.hpp rely on: a queue whose operations *)
(* take effect in one instant.  A batch of elements is deposited whole, a  *)
(* taker receives everything deposited so far, each element once and in    *)
(* the order of the deposits.  MutexQueue implements this specification.   *)
(***************************************************************************)
EXTENDS Sequences

CONSTANTS Threads,   (* the threads that share the queue          *)
          Batches    (* the batches they put into it              *)

VARIABLES box,       (* the elements deposited and not yet taken  *)
          out        (* out[t]: what thread t took, in order      *)

avars == <<box, out>>

AInit == /\ box = <<>>
         /\ out = [t \in Threads |-> <<>>]

Deposit(xs) == /\ box' = box \o xs
               /\ UNCHANGED out

TakeAll(t) == /\ out' = [out EXCEPT ![t] = @ \o box]
              /\ box' = <<>>

(* The taker empties its own vector before it takes again. *)
Discard(t) == /\ out' = [out EXCEPT ![t] = <<>>]
              /\ UNCHANGED box

ANext == \/ \E xs \in Batches : Deposit(xs)
         \/ \E t \in Threads : TakeAll(t) \/ Discard(t)

ASpec == AInit /\ [][ANext]_avars
=============================================================================
