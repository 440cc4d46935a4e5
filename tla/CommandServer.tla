---------------------------- MODULE CommandServer ----------------------------
(***************************************************************************)
(* server/CommandServer.cpp and server/CommandSession.cpp: the command     *)
(* port of the table.  One thread runs the io_service (Asio): it accepts   *)
(* connections, reads commands and pushes them into msgQueue.  The table   *)
(* thread (Table) pops that queue and, through MessageBroker::respond,     *)
(* calls broadcast() in its own thread, with no lock around `sockets'.     *)
(*                                                                         *)
(* Sessions are heap objects.  `sockets' holds pointers into them, so the  *)
(* model keeps addresses: an address that was freed may be handed out      *)
(* again for a later session.                                              *)
(*                                                                         *)
(* Undefined behaviour is a choice among what a build does: a dangling     *)
(* pointer or iterator crashes the process, is harmless, or reaches the    *)
(* object that now has the address.                                        *)
(***************************************************************************)
EXTENDS MutexQueue, FiniteSets, SequencesExt

CONSTANTS Clients,     (* programs that connect to the command port          *)
          Addrs,       (* heap addresses of CommandSession objects           *)
          Nil,         (* the null pointer                                   *)
          Asio, Table, (* the two threads                                    *)
          Codes,       (* the command codes clients send                     *)
          Faults,      (* which of FaultKinds may happen                     *)
          MaxSends,    (* bound: commands sent in a run                      *)
          MaxDials     (* bound: connections made in a run                   *)

(* read_error: a read fails otherwise than by eof or connection_reset;     *)
(* accept_error: an accept fails; heap_garbage: a new session's buffer is  *)
(* not zero; slow_send: a socket cannot take a response at once.           *)
FaultKinds == {"read_error", "accept_error", "heap_garbage", "slow_send"}

ASSUME ThreadsAssumption == Threads = {Asio, Table} /\ Asio # Table
ASSUME NilAssumption == Nil \notin Addrs /\ Nil \notin Clients
ASSUME FaultsAssumption == Faults \subseteq FaultKinds
(* One session per client, and the one that waits for the next client.     *)
ASSUME AddrsAssumption == IsFiniteSet(Addrs) /\ Cardinality(Addrs) > Cardinality(Clients)

VARIABLES
  client,    (* client[c]: away, dialing, on, or how it left: closed, reset, broken *)
  wire,      (* wire[c]: commands sent on c's connection and not yet read           *)
  inbox,     (* inbox[c]: the responses c received                                  *)
  sends,     (* number of commands sent so far; numbers them                        *)
  dials,     (* number of connections made so far                                   *)
  heap,      (* heap[a]: free, accepting or open                                    *)
  peer,      (* peer[a]: the client at the other end of the session at a            *)
  dirty,     (* dirty[a]: data_ was never written or cleared                        *)
  fresh,     (* the session async_accept will fill, Nil when no accept is armed     *)
  sockets,   (* CommandServer::sockets                                              *)
  bcText,    (* broadcast(): its argument, Nil when no broadcast is running         *)
  bcIdx,     (* the iterator, as an index into the storage it points into           *)
  bcPtr,     (* the pointer just read through the iterator                          *)
  bcOld,     (* that storage, when a push_back has reallocated the vector since     *)
  calm,      (* no session came or went since this broadcast began                  *)
  late,      (* responses handed to async_write that the socket has not taken       *)
  crashed    (* the process died                                                    *)

clientVars == <<client, wire, inbox, sends, dials>>
sessionVars == <<heap, peer, dirty, fresh, sockets>>
castVars == <<bcText, bcIdx, bcPtr, bcOld, calm, late>>
cvars == <<clientVars, sessionVars, castVars, crashed>>

CInit == /\ client = [c \in Clients |-> "away"]
         /\ wire = [c \in Clients |-> <<>>]
         /\ inbox = [c \in Clients |-> <<>>]
         /\ sends = 0
         /\ dials = 0
         \* the constructor allocates the first session and arms the accept
         /\ fresh \in Addrs
         /\ heap = [a \in Addrs |-> IF a = fresh THEN "accepting" ELSE "free"]
         /\ peer = [a \in Addrs |-> Nil]
         /\ dirty = [a \in Addrs |-> TRUE]
         /\ sockets = <<>>
         /\ bcText = Nil
         /\ bcIdx = 1
         /\ bcPtr = Nil
         /\ bcOld = Nil
         /\ calm = TRUE
         /\ late = {}
         /\ crashed = FALSE

(* A handler runs while the process lives, one at a time. *)
AsioIdle == ~crashed /\ pc[Asio] = "idle"
-----------------------------------------------------------------------------
(* The clients. *)

Dial(c) == /\ ~crashed
           /\ client[c] = "away"
           /\ dials < MaxDials
           /\ client' = [client EXCEPT ![c] = "dialing"]
           /\ dials' = dials + 1
           /\ UNCHANGED <<wire, inbox, sends, sessionVars, castVars, crashed, qvars>>

(* One command line, numbered so that it can be told from every other. *)
Send(c, code) ==
  /\ ~crashed
  /\ client[c] = "on"
  /\ sends < MaxSends
  /\ sends' = sends + 1
  /\ wire' = [wire EXCEPT ![c] = Append(@, [n |-> sends + 1, from |-> c, code |-> code])]
  /\ UNCHANGED <<client, inbox, dials, sessionVars, castVars, crashed, qvars>>

Ways == {"closed", "reset"} \cup (IF "read_error" \in Faults THEN {"broken"} ELSE {})

(* A reset or a broken connection takes along what was not read yet. *)
Leave(c, how) ==
  /\ ~crashed
  /\ client[c] = "on"
  /\ client' = [client EXCEPT ![c] = how]
  /\ wire' = [wire EXCEPT ![c] = IF how = "closed" THEN @ ELSE <<>>]
  /\ UNCHANGED <<inbox, sends, dials, sessionVars, castVars, crashed, qvars>>
-----------------------------------------------------------------------------
(* The io_service thread. *)

(* handle_accept without an error.  push_back may move the vector to new   *)
(* storage under the iterator of a running broadcast.                      *)
HandleAccept(c) ==
  /\ AsioIdle
  /\ fresh # Nil
  /\ client[c] = "dialing"
  /\ client' = [client EXCEPT ![c] = "on"]
  /\ sockets' = Append(sockets, fresh)
  /\ calm' = FALSE
  /\ bcOld' \in IF bcText # Nil /\ bcOld = Nil THEN {Nil, sockets} ELSE {bcOld}
  /\ peer' = [peer EXCEPT ![fresh] = c]
  /\ \E a \in Addrs :
        /\ heap[a] = "free"
        /\ heap' = [heap EXCEPT ![fresh] = "open", ![a] = "accepting"]
        /\ dirty' = [dirty EXCEPT ![a] = TRUE]
        /\ fresh' = a
  /\ UNCHANGED <<wire, inbox, sends, dials, bcText, bcIdx, bcPtr, late, crashed, qvars>>

(* handle_accept with an error deletes the session and arms no new accept. *)
HandleAcceptError ==
  /\ "accept_error" \in Faults
  /\ AsioIdle
  /\ fresh # Nil
  /\ heap' = [heap EXCEPT ![fresh] = "free"]
  /\ fresh' = Nil
  /\ UNCHANGED <<clientVars, peer, dirty, sockets, castVars, crashed, qvars>>

(* The string ends at the first zero byte of data_, so that a session's    *)
(* first read may drag garbage along.                                      *)
Garblings(a) == {g \in BOOLEAN : g => dirty[a] /\ "heap_garbage" \in Faults}

(* What one async_read_some returns: whatever has arrived, so that several *)
(* commands may share a read.                                              *)
Reads(a) ==
  { [cmds |-> SubSeq(wire[peer[a]], 1, k), garbled |-> g] :
      k \in 1 .. Len(wire[peer[a]]), g \in Garblings(a) }

(* handle_read without an error.  push() either takes the lock or returns  *)
(* false, and then the string is gone: nobody looks at the result.  data_  *)
(* is cleared, and the next read armed, in both cases.                     *)
HandleRead(a) ==
  /\ AsioIdle
  /\ heap[a] = "open"
  /\ \E s \in Reads(a) :
        /\ wire' = [wire EXCEPT ![peer[a]] = SubSeq(@, Len(s.cmds) + 1, Len(@))]
        /\ PushAllLock(Asio, <<s>>) \/ Contended(Asio)
  /\ dirty' = [dirty EXCEPT ![a] = FALSE]
  /\ UNCHANGED <<client, inbox, sends, dials, heap, peer, fresh, sockets, castVars, crashed>>

(* erase(it, end()) for erase(it). *)
EraseRestMutant(s, p) == SelectSeq(s, LAMBDA a : \A i \in DOMAIN s : s[i] = a =>
                                                   \A j \in 1 .. i : s[j] # p)

(* One round of the loop in disconnect(), its iterator at position i.      *)
Round(s, i, p) == IF i <= Len(s) /\ s[i] = p THEN RemoveAt(s, i) ELSE s

(* disconnect() steps its iterator past the element that slides into the   *)
(* place of the one it erased.  Once it is past the end nothing happens.   *)
Erase(s, p) ==
  LET after[i \in 0 .. Len(s)] == IF i = 0 THEN s ELSE Round(after[i - 1], i, p)
  IN  after[Len(s)]

(* `delete this': the socket closes, its pending writes are cancelled.     *)
Delete(a) == /\ heap' = [heap EXCEPT ![a] = "free"]
             /\ peer' = [peer EXCEPT ![a] = Nil]
             /\ client' = [client EXCEPT ![peer[a]] = "away"]
             /\ late' = {w \in late : w.to # peer[a]}
             /\ calm' = FALSE
             /\ UNCHANGED <<wire, inbox, sends, dials, dirty, fresh, bcText,
                            bcIdx, bcPtr, bcOld, crashed, qvars>>

(* A session that is deleted without being disconnected. *)
NoDisconnectMutant(a) ==
  /\ AsioIdle
  /\ heap[a] = "open"
  /\ client[peer[a]] \in {"closed", "reset"}
  /\ wire[peer[a]] = <<>>
  /\ Delete(a)
  /\ UNCHANGED sockets

(* handle_read with eof or connection_reset. *)
HandleEof(a) ==
  /\ AsioIdle
  /\ heap[a] = "open"
  /\ client[peer[a]] \in {"closed", "reset"}
  /\ wire[peer[a]] = <<>>
  /\ sockets' = Erase(sockets, a)
  /\ Delete(a)

(* handle_read with any other error: no disconnect. *)
HandleError(a) ==
  /\ AsioIdle
  /\ heap[a] = "open"
  /\ client[peer[a]] = "broken"
  /\ Delete(a)
  /\ UNCHANGED sockets

(* The rest of push(), inside handle_read. *)
AsioQueueStep == /\ ~crashed
                 /\ PushBack(Asio) \/ Unlock(Asio)
                 /\ UNCHANGED cvars

(* A socket takes a response that had to wait.  Once broadcast() returned  *)
(* the buffer belongs to a string that no longer exists.                   *)
LateSend(w) ==
  /\ AsioIdle
  /\ w \in late
  /\ late' = late \ {w}
  /\ \E spoiled \in {FALSE, bcText # w.text} :
        inbox' = [inbox EXCEPT ![w.to] =
                    Append(@, [w.text EXCEPT !.intact = @ /\ ~spoiled])]
  /\ UNCHANGED <<client, wire, sends, dials, sessionVars, bcText, bcIdx, bcPtr,
                 bcOld, calm, crashed, qvars>>
-----------------------------------------------------------------------------
(* broadcast(message), in the thread that calls it. *)

(* The iteration starts behind the first socket. *)
SkipFirstMutant(text) ==
  /\ bcText = Nil
  /\ bcText' = text
  /\ bcIdx' = 2
  /\ bcPtr' = Nil
  /\ bcOld' = Nil
  /\ calm' = TRUE
  /\ UNCHANGED <<clientVars, sessionVars, late, crashed>>

BroadcastStart(text) ==
  /\ bcText = Nil
  /\ bcText' = text
  /\ bcIdx' = 1
  /\ bcPtr' = Nil
  /\ bcOld' = Nil
  /\ calm' = TRUE
  /\ UNCHANGED <<clientVars, sessionVars, late, crashed>>

(* The storage the iterator points into, and what follows if it is freed.  *)
Storage == IF bcOld = Nil THEN sockets ELSE bcOld

(* Read the pointer under the iterator, and step.  `socket < end()' says   *)
(* nothing once the iterator points into freed storage.                    *)
BroadcastFetch ==
  /\ bcText # Nil
  /\ bcPtr = Nil
  /\ bcIdx <= Len(Storage)
  /\ bcPtr' = Storage[bcIdx]
  /\ bcIdx' = bcIdx + 1
  /\ UNCHANGED <<clientVars, sessionVars, bcText, bcOld, calm, late, crashed>>

Deliver(c) ==
  \/ /\ inbox' = [inbox EXCEPT ![c] = Append(@, bcText)]
     /\ UNCHANGED late
  \/ /\ "slow_send" \in Faults
     /\ late' = late \cup {[to |-> c, text |-> bcText]}
     /\ UNCHANGED inbox

(* async_write on the socket at bcPtr: it is delivered when the session is *)
(* open and its client still there; a deleted session may bring the        *)
(* process down.                                                           *)
BroadcastWrite ==
  /\ bcPtr # Nil
  /\ bcPtr' = Nil
  /\ IF heap[bcPtr] = "open" /\ client[peer[bcPtr]] = "on"
     THEN Deliver(peer[bcPtr]) /\ UNCHANGED crashed
     ELSE /\ crashed' \in {FALSE, heap[bcPtr] = "free"}
          /\ UNCHANGED <<inbox, late>>
  /\ UNCHANGED <<client, wire, sends, dials, sessionVars, bcText, bcIdx, bcOld, calm>>

BroadcastEnd ==
  /\ bcText # Nil
  /\ bcPtr = Nil
  /\ bcIdx > Len(Storage) \/ bcOld # Nil
  /\ bcText' = Nil
  /\ bcOld' = Nil
  /\ UNCHANGED <<clientVars, sessionVars, bcIdx, bcPtr, calm, late, crashed>>

(* Freed storage may be unmapped or overwritten by the time it is read. *)
BroadcastCrash ==
  /\ bcText # Nil
  /\ bcOld # Nil
  /\ crashed' = TRUE
  /\ UNCHANGED <<clientVars, sessionVars, castVars>>

BroadcastStep == BroadcastFetch \/ BroadcastWrite \/ BroadcastEnd \/ BroadcastCrash
-----------------------------------------------------------------------------
Open == {a \in Addrs : heap[a] = "open"}

(* Every client that is connected is reached by broadcast(): no accept or  *)
(* disconnect drops the session of somebody else from `sockets'.           *)
OpenIsRegistered == Open \subseteq ToSet(sockets)

(* CommandServer.cpp:51 prints sockets.size() as the number of sockets     *)
(* `currently connected': every entry is a live session, listed once.      *)
SocketsAreConnected == Len(sockets) = Cardinality(Open)

(* While no error but eof and reset occurs, the process can only die in a  *)
(* broadcast that overlaps an accept or a disconnect of the other thread:  *)
(* its iterator or the pointer it has just read went stale under it.       *)
CrashNeedsRace ==
  [][crashed' # crashed /\ bcText # Nil => bcOld # Nil \/ bcPtr \notin ToSet(sockets)]_cvars

(* A broadcast during which no session comes or goes reaches each client   *)
(* that is still connected when it ends, exactly once; a slow socket may   *)
(* still hold its copy (in `late') when the loop has ended.                *)
CalmBroadcastReachesAll ==
  [][bcText # Nil /\ bcText' = Nil /\ calm =>
       \A a \in Open : client[peer[a]] = "on" =>
          Cardinality({i \in DOMAIN inbox[peer[a]] : inbox[peer[a]][i].n = bcText.n})
          + Cardinality({l \in late : l.to = peer[a] /\ l.text.n = bcText.n}) = 1]_cvars
=============================================================================
