---------------------------- MODULE TcpEndpoint -----------------------------
(***************************************************************************)
(* The three TCP transports of lib/tuio: TcpSender and WebSockSender,      *)
(* which write TUIO packets to every client, and TcpReceiver, which reads  *)
(* them.  All keep a list of sockets, have a thread that accepts (or a     *)
(* connection made by the constructor) and one thread per connection.      *)
(* Nothing locks the list.                                                 *)
(*                                                                         *)
(*   kind     "sender", "web" or "receiver"                                *)
(*   made     what the constructor has come to                             *)
(*   derived  the constructor of the derived class has run: newClient is   *)
(*            the WebSocket's own                                          *)
(*   up       connected                                                    *)
(*   list     tcp_client_list                                              *)
(*   peer     the other end of every connection: "away", "backlog", "open",*)
(*            "left" (it closed), "reset" (it answered data with a reset), *)
(*            "shut" (closed on this side)                                 *)
(*   hello    browsers that have sent their handshake                      *)
(*   server   where the accepting thread is, and the connection it holds   *)
(*   thread   per connection, where the thread started for it is and the   *)
(*            socket it reads                                              *)
(*   unread   per connection, packets that wait in the socket              *)
(*   sending  where sendOscPacket is in the list                           *)
(*   inbox    what every peer was sent                                     *)
(*   crossed  history: a connection was added while the thread of another  *)
(*            was on its way into or out of its loop                       *)
(*   calm     history: the list has not changed since the packet that is   *)
(*            being sent was begun                                         *)
(***************************************************************************)
EXTENDS Integers, Sequences, FiniteSets, SequencesExt, Lists

CONSTANTS
    Peers,          \* the connections that may be made
    NoPeer,
    TcpKinds,       \* which of "sender", "web", "receiver" are looked at
    MaxFrames       \* bound: packets sent, or received per connection

ASSUME TcpAssumption == NoPeer \notin Peers /\ MaxFrames \in Nat

VARIABLES kind, made, derived, up, list, peer, hello, server, thread, unread,
          sending, frames, inbox, processed, crossed, calm, crashed

setup  == <<kind, made, derived>>
links  == <<peer, hello, unread>>
output == <<sending, frames, inbox, calm>>
tvars  == <<setup, links, output, up, list, server, thread, processed, crossed,
            crashed>>

Idle  == "idle"         \* nothing is being sent
End   == "end"          \* list.end()
Reply == 0              \* the answer to a handshake
Resting == [pc |-> "none", at |-> NoPeer]

ASSUME PositionsAssumption == Idle \notin Peers /\ End \notin Peers

Sends == kind \in {"sender", "web"}

-----------------------------------------------------------------------------
(* Construction.  Every system call may fail.                              *)

TcpInit ==
    /\ kind \in TcpKinds
    /\ made = "new" /\ derived = FALSE /\ up = FALSE /\ list = <<>>
    /\ peer = [p \in Peers |-> "away"]
    /\ hello = {}
    /\ server = Resting
    /\ thread = [p \in Peers |-> Resting]
    /\ unread = [p \in Peers |-> 0]
    /\ sending = Idle /\ frames = 0 /\ inbox = [p \in Peers |-> <<>>]
    /\ processed = 0
    /\ crossed = FALSE /\ calm = TRUE /\ crashed = FALSE

(* A client thread is created for the connection p.                        *)
Born(p) == [thread EXCEPT ![p] = [pc |-> "born", at |-> NoPeer]]

(* The connection to the other end that a constructor has made: a sender   *)
(* starts to watch it at once, a receiver when it is told to connect.      *)
Opened(p) ==
    /\ made' = "connected"
    /\ list' = <<p>>
    /\ peer' = [peer EXCEPT ![p] = "open"]
    /\ up' = Sends
    /\ thread' = IF Sends THEN Born(p) ELSE thread

(* TcpSender(): a connection that fails leaves a sender that sends nothing.*)
ConnectDefault ==
    /\ made = "new" /\ kind = "sender"
    /\ \/ \E p \in Peers : Opened(p)
       \/ made' = "failed" /\ UNCHANGED <<list, peer, up, thread>>
    /\ UNCHANGED <<kind, derived, hello, unread, output, server, processed,
                   crossed, crashed>>

(* TcpSender( host, port ): throws instead, unless there was no socket.    *)
ConnectHost ==
    /\ made = "new" /\ kind = "sender"
    /\ \/ \E p \in Peers : Opened(p)
       \/ made' \in {"failed", "thrown"} /\ UNCHANGED <<list, peer, up, thread>>
    /\ UNCHANGED <<kind, derived, hello, unread, output, server, processed,
                   crossed, crashed>>

(* TcpReceiver( host, port ).  A host that is not known is reported, and    *)
(* its address is then read all the same.                                  *)
ReceiveFromHost ==
    /\ made = "new" /\ kind = "receiver"
    /\ \/ (\E p \in Peers : Opened(p)) /\ UNCHANGED crashed
       \/ /\ made' = "failed" /\ crashed' \in BOOLEAN
          /\ UNCHANGED <<list, peer, up, thread>>
    /\ UNCHANGED <<kind, derived, hello, unread, output, server, processed,
                   crossed>>

(* TcpSender( port ), which is also the base of a WebSockSender: listens,  *)
(* and starts the accepting thread before the derived constructor runs.    *)
Listen ==
    /\ made = "new" /\ Sends
    /\ \/ made' = "listening" /\ server' = [pc |-> "accept", at |-> NoPeer]
       \/ made' = "thrown" /\ UNCHANGED server
    /\ UNCHANGED <<kind, derived, links, output, up, list, thread, processed,
                   crossed, crashed>>

(* WebSockSender( port ): the rest of the constructor.                     *)
WebSockDerived ==
    /\ made = "listening" /\ kind = "web" /\ ~derived
    /\ derived' = TRUE
    /\ UNCHANGED <<kind, made, links, output, up, list, server, thread,
                   processed, crossed, crashed>>

(* TcpReceiver( port ): listens; connect() will accept.  A socket that     *)
(* could not be bound is kept, and accept() will fail on it.               *)
ReceiveOnPort ==
    /\ made = "new" /\ kind = "receiver"
    /\ made' \in {"listening", "failed", "unbound"}
    /\ UNCHANGED <<kind, derived, links, output, up, list, server, thread,
                   processed, crossed, crashed>>

(* TcpReceiver::connect(), in the background: the socket the constructor   *)
(* made is watched, or the accepting thread starts.                        *)
Connect ==
    /\ kind = "receiver" /\ made \in {"listening", "connected", "unbound"} /\ ~up
    /\ up' = TRUE
    /\ IF list # <<>>
       THEN thread' = Born(Head(list)) /\ UNCHANGED server
       ELSE server' = [pc |-> "accept", at |-> NoPeer] /\ UNCHANGED thread
    /\ UNCHANGED <<setup, links, output, list, processed, crossed, crashed>>

(* TcpReceiver::disconnect(): closes every socket.  No thread is waited    *)
(* for, and an accept() that is under way keeps the listening socket.      *)
Disconnect ==
    /\ kind = "receiver" /\ up
    /\ peer' = [p \in Peers |-> IF p \in ToSet(list) THEN "shut" ELSE peer[p]]
    /\ list' = <<>>
    /\ up' = FALSE
    /\ made' = "closed"
    /\ UNCHANGED <<kind, derived, hello, unread, output, server, thread,
                   processed, crossed, crashed>>

-----------------------------------------------------------------------------
(* The peers                                                               *)

Dial(p) ==
    /\ made = "listening" /\ (Sends \/ up) /\ peer[p] = "away"
    /\ peer' = [peer EXCEPT ![p] = "backlog"]
    /\ UNCHANGED <<setup, hello, unread, output, up, list, server, thread,
                   processed, crossed, crashed>>

SayHello(p) ==
    /\ kind = "web" /\ peer[p] \in {"backlog", "open"} /\ p \notin hello
    /\ hello' = hello \cup {p}
    /\ UNCHANGED <<setup, peer, unread, output, up, list, server, thread,
                   processed, crossed, crashed>>

PeerSends(p) ==
    /\ kind = "receiver" /\ peer[p] \in {"backlog", "open"}
    /\ unread[p] + processed < MaxFrames
    /\ unread' = [unread EXCEPT ![p] = @ + 1]
    /\ UNCHANGED <<setup, peer, hello, output, up, list, server, thread,
                   processed, crossed, crashed>>

Leave(p) ==
    /\ peer[p] \in {"backlog", "open"}
    /\ peer' = [peer EXCEPT ![p] = "left"]
    /\ UNCHANGED <<setup, hello, unread, output, up, list, server, thread,
                   processed, crossed, crashed>>

-----------------------------------------------------------------------------
(* The accepting thread                                                    *)

(* Threads that have not read tcp_client_list.back() yet, or have taken    *)
(* their socket off the list but not yet said whether it is empty.         *)
Passing == {p \in Peers : thread[p].pc \in {"born", "count", "unmark"}}

Waiting(p) == peer[p] = "backlog"

(* accept() and push_back().                                               *)
Accept ==
    /\ server.pc = "accept" /\ made \in {"listening", "closed"}
    /\ \E p \in Peers :
          /\ Waiting(p)
          /\ peer' = [peer EXCEPT ![p] = "open"]
          /\ list' = Append(list, p)
          /\ server' = [pc |-> "mark", at |-> p]
    /\ crossed' = (crossed \/ Passing # {})
    /\ calm' = FALSE
    /\ UNCHANGED <<setup, hello, unread, sending, frames, inbox, up, thread,
                   processed, crashed>>

(* accept() fails: on a socket that was closed or never bound, but also on *)
(* one that listens, of a signal or of too many open files (the sockets of *)
(* clients that left are never closed).  The thread ends.                  *)
AcceptFails ==
    /\ server.pc = "accept"
    /\ server' = [pc |-> "ended", at |-> NoPeer]
    /\ UNCHANGED <<setup, peer, hello, unread, output, up, list, thread, processed,
                   crossed, crashed>>

(* connected = true; a receiver leaves it alone.                           *)
Mark ==
    /\ server.pc = "mark"
    /\ up' = IF Sends THEN TRUE ELSE up
    /\ server' = [server EXCEPT !.pc = "greet"]
    /\ UNCHANGED <<setup, links, output, list, thread, processed, crossed,
                   crashed>>

(* newClient( tcp_client ): nothing, except that a WebSockSender reads the *)
(* handshake line by line and answers it.  Until its own constructor has   *)
(* run, the empty function of TcpSender is called.                         *)
Greet ==
    /\ server.pc = "greet"
    /\ IF kind = "web" /\ derived
       THEN /\ server.at \in hello
            /\ inbox' = [inbox EXCEPT ![server.at] = Append(@, Reply)]
       ELSE UNCHANGED inbox
    /\ server' = [server EXCEPT !.pc = "spawn"]
    /\ UNCHANGED <<setup, links, sending, frames, calm, up, list, thread,
                   processed, crossed, crashed>>

(* Mutant: the accepting thread watches its client itself.                 *)
SpawnMutant ==
    /\ server.pc = "spawn"
    /\ thread' = Born(server.at)
    /\ server' = [server EXCEPT !.pc = "watch"]
    /\ UNCHANGED <<setup, links, output, up, list, processed, crossed, crashed>>

SpawnClientThread ==
    /\ server.pc = "spawn"
    /\ thread' = Born(server.at)
    /\ server' = [pc |-> "accept", at |-> NoPeer]
    /\ UNCHANGED <<setup, links, output, up, list, processed, crossed, crashed>>

ServerStep == Accept \/ Mark \/ Greet \/ SpawnClientThread

-----------------------------------------------------------------------------
(* A client thread                                                         *)

(* Mutant: the oldest client is taken.                                     *)
TakeBackMutant(p) ==
    /\ thread[p].pc = "born"
    /\ thread' = [thread EXCEPT ![p] =
                    [pc |-> "recv", at |-> IF list = <<>> THEN NoPeer ELSE Head(list)]]
    /\ UNCHANGED <<setup, links, output, up, list, server, processed, crossed,
                   crashed>>

(* client = tcp_client_list.back(): of an empty list, no socket at all.    *)
TakeBack(p) ==
    /\ thread[p].pc = "born"
    /\ thread' = [thread EXCEPT ![p] =
                    [pc |-> "recv", at |-> IF list = <<>> THEN NoPeer ELSE Last(list)]]
    /\ UNCHANGED <<setup, links, output, up, list, server, processed, crossed,
                   crashed>>

Reads(p, q) == thread[p].pc = "recv" /\ thread[p].at = q

(* A packet's length is sent most significant byte first.  All of the      *)
(* header that is used is its first byte, and of that the part a shift by  *)
(* 24 bits leaves.                                                         *)
FirstByte(length) == length \div 2 ^ 24
SizeFromHeader(length) == FirstByte(length) \div 2 ^ 24

PacketLength == 40      \* the bytes of a packet, below 2 ^ 24

(* A receiver reads: one packet, several that arrived together, or only    *)
(* the bytes of the header.  It processes exactly a read of size + 4 bytes.*)
(* With the header alone size is 0 and fits: the empty message is malformed*)
(* and nothing catches the exception.                                      *)
ReceivePackets(p, q, n, bytes) ==
    /\ kind = "receiver" /\ Reads(p, q) /\ q # NoPeer
    /\ n <= unread[q] /\ peer[q] # "shut"
    /\ unread' = [unread EXCEPT ![q] = @ - n]
    /\ LET fits == SizeFromHeader(PacketLength) + 4 = bytes
       IN  /\ processed' = IF fits /\ bytes > 4 THEN processed + n ELSE processed
           /\ crashed' = (crashed \/ (fits /\ bytes = 4))
    /\ UNCHANGED <<setup, peer, hello, output, up, list, server, thread, crossed>>

Receive(p, q) ==
    \/ \E n \in 1 .. MaxFrames : ReceivePackets(p, q, n, n * (PacketLength + 4))
    \/ ReceivePackets(p, q, 1, 4)

(* recv() returns 0: the connection has ended.  remove( client )           *)
RemoveClient(p, q) ==
    /\ Reads(p, q) /\ q # NoPeer
    /\ peer[q] \in {"left", "reset"} /\ unread[q] = 0
    /\ list' = Chosen(list, ToSet(list) \ {q})
    /\ calm' = FALSE
    /\ thread' = [thread EXCEPT ![p].pc = IF Sends THEN "count" ELSE "ended"]
    /\ UNCHANGED <<setup, links, sending, frames, inbox, up, server, processed,
                   crossed, crashed>>

(* recv() fails, now and for ever: the loop has no end.                    *)
Spin(p, q) ==
    /\ Reads(p, q)
    /\ q # NoPeer => peer[q] = "shut"
    /\ thread' = [thread EXCEPT ![p].pc = "spin"]
    /\ UNCHANGED <<setup, links, output, up, list, server, processed, crossed,
                   crashed>>

(* if (tcp_client_list.size()==0) ...                                      *)
CountClients(p) ==
    /\ thread[p].pc = "count"
    /\ thread' = [thread EXCEPT ![p].pc = IF list = <<>> THEN "unmark" ELSE "ended"]
    /\ UNCHANGED <<setup, links, output, up, list, server, processed, crossed,
                   crashed>>

(* ... connected = false                                                   *)
Unmark(p) ==
    /\ thread[p].pc = "unmark"
    /\ up' = FALSE
    /\ thread' = [thread EXCEPT ![p].pc = "ended"]
    /\ UNCHANGED <<setup, links, output, list, server, processed, crossed,
                   crashed>>

ClientStep(p) ==
    \/ TakeBack(p)
    \/ \E q \in Peers : Receive(p, q) \/ RemoveClient(p, q)
    \/ \E q \in Peers \cup {NoPeer} : Spin(p, q)
    \/ CountClients(p)
    \/ Unmark(p)

-----------------------------------------------------------------------------
(* sendOscPacket, in the thread that calls it                              *)

(* Mutant: the last client is left out.                                    *)
NextClientMutant(p) == LET i == CHOOSE j \in DOMAIN list : list[j] = p
                 IN  IF i + 1 >= Len(list) THEN End ELSE list[i + 1]

(* The position after p, in the list as it is now.                         *)
NextClient(p) == LET i == CHOOSE j \in DOMAIN list : list[j] = p
            IN  IF i = Len(list) THEN End ELSE list[i + 1]

SendStart ==
    /\ Sends /\ up /\ sending = Idle /\ frames < MaxFrames
    /\ frames' = frames + 1
    /\ sending' = IF list = <<>> THEN End ELSE Head(list)
    /\ calm' = TRUE
    /\ UNCHANGED <<setup, links, inbox, up, list, server, thread, processed,
                   crossed, crashed>>

(* send() to the client under the iterator, whose node may have been freed.*)
(* A peer that has left answers the first packet with a reset; the next    *)
(* one raises SIGPIPE, which nothing handles.                              *)
SendOne(p) ==
    /\ sending = p
    /\ IF p \notin ToSet(list)
       THEN /\ crashed' \in BOOLEAN
            /\ sending' = End
            /\ UNCHANGED <<inbox, peer>>
       ELSE /\ sending' = NextClient(p)
            /\ inbox' = IF peer[p] = "open"
                        THEN [inbox EXCEPT ![p] = Append(@, frames)] ELSE inbox
            /\ peer' = IF peer[p] = "left" THEN [peer EXCEPT ![p] = "reset"] ELSE peer
            /\ crashed' = (crashed \/ peer[p] = "reset")
    /\ UNCHANGED <<setup, hello, unread, up, list, server, thread, frames, calm,
                   processed, crossed>>

SendEnd ==
    /\ sending = End
    /\ sending' = Idle
    /\ UNCHANGED <<setup, links, up, list, server, thread, frames, inbox, calm,
                   processed, crossed, crashed>>

-----------------------------------------------------------------------------

TcpNext ==
    /\ ~crashed
    /\ \/ ConnectDefault
       \/ ConnectHost
       \/ ReceiveFromHost
       \/ Listen
       \/ WebSockDerived
       \/ ReceiveOnPort
       \/ Connect
       \/ Disconnect
       \/ \E p \in Peers : Dial(p) \/ SayHello(p) \/ PeerSends(p) \/ Leave(p)
       \/ ServerStep
       \/ AcceptFails
       \/ \E p \in Peers : ClientStep(p)
       \/ SendStart
       \/ \E p \in Peers : SendOne(p)
       \/ SendEnd

TcpSpec == TcpInit /\ [][TcpNext]_tvars

(* The accepting thread runs whenever it can; nothing makes accept() fail. *)
TcpFairSpec == TcpSpec /\ WF_tvars(~crashed /\ ServerStep)

-----------------------------------------------------------------------------
(* Properties                                                              *)

TcpTypeOK ==
    /\ made \in {"new", "listening", "connected", "failed", "thrown",
                "unbound", "closed"}
    /\ ToSet(list) \subseteq Peers
    /\ peer \in [Peers -> {"away", "backlog", "open", "left", "reset", "shut"}]
    /\ server.pc \in {"none", "accept", "mark", "greet", "spawn", "ended"}
    /\ \A p \in Peers : thread[p].pc \in {"none", "born", "recv", "count",
                                          "unmark", "spin", "ended"}

(* Unless a connection came while the thread of another was on its way     *)
(* into or out of its loop, `connected' says whether there is a client:    *)
(* the tests of sendOscPacket and isConnected can be relied on.            *)
ConnectedIffClients ==
    Sends /\ ~crossed /\ Passing = {} /\ server.pc # "mark" =>
        (up <=> list # <<>>)

(* With the same exception, every client that is listed is watched by the  *)
(* thread started for it, and by no other: a client that leaves is found   *)
(* out and taken off the list.                                             *)
WatchedByItsThread ==
    Sends /\ ~crossed =>
        \A q \in ToSet(list) :
            q # server.at => /\ thread[q].pc = "born" \/ Reads(q, q)
                             /\ \A p \in Peers \ {q} : ~Reads(p, q)

(* TcpSender.cpp:27-92: the list of clients is what the rest relies on.    *)
ClientListOK ==
    /\ ConnectedIffClients
    /\ WatchedByItsThread

(* A packet reaches every client that is listed and still there when the   *)
(* loop over the list ends, exactly once, as long as the list stays as it  *)
(* is.                                                                     *)
CalmFrameReachesAll ==
    [][sending = End /\ sending' = Idle /\ calm =>
         \A p \in ToSet(list) : peer[p] = "open" =>
            Cardinality({i \in DOMAIN inbox[p] : inbox[p][i] = frames}) = 1]_tvars

(* Whoever connects is accepted, unless the receiver is closed, an accept()*)
(* has failed, after which nobody is accepted any more (TcpSender.cpp:88,  *)
(* TcpReceiver.cpp:109), or the accepting thread waits for the handshake of*)
(* a browser that says nothing.                                            *)
EveryoneIsAccepted ==
    \A p \in Peers :
        Waiting(p) ~> \/ ~Waiting(p) \/ crashed \/ made = "closed" \/ server.pc = "ended"
                      \/ server.pc = "greet" /\ server.at \notin hello

(* TcpReceiver.h:40: `provides the OscReceiver functionality for the TCP   *)
(* transport method'.  A packet that was read whole is processed.          *)
ReadIsProcessed ==
    [][\A p, q \in Peers : ReceivePackets(p, q, 1, PacketLength + 4) =>
            processed' = processed + 1]_tvars
=============================================================================
