------------------------------- MODULE Protocol -------------------------------
(***************************************************************************)
(* Servers (tuio/TuioServer.cpp), the network and a client                 *)
(* (tuio/TuioClient.cpp).  Of a server this module keeps the table and     *)
(* those on it that are not announced yet, and one kind changes per frame: *)
(* AliveInSync and DataInSync in module TuioServer say that the bundles of *)
(* a frame carry the whole list of those announced and at least the data   *)
(* that changed.                                                           *)
(* UDP loses, doubles and reorders packets; a packet older than MaxDelay   *)
(* frames, or older than a restart of its server, arrives no more.         *)
(***************************************************************************)
EXTENDS TuioClient

CONSTANTS
  Sources,     (* names of the servers: setSourceName                     *)
  Symbols,     (* numbers of markers                                      *)
  Modes,       (* of a server: records with fields full, periodic and     *)
               (* profiles, those that are enabled                        *)
  Capacity,    (* how many set messages fit into a packet                 *)
  MaxDelay,    (* how many frames a packet may be late                    *)
  MaxSessions, (* bound: session numbers a server gives out               *)
  MaxFrame,    (* bound: the table is at rest after this many frames      *)
  MaxChanges,  (* bound: frames in which a table changes                  *)
  MaxEvents    (* bound: ends of a server, its full messages, reconnects  *)

ASSUME DelayAssumption == MaxDelay \in 0 .. Window
ASSUME CapacityAssumption == Capacity \in Nat \ {0}
ASSUME ModesAssumption ==
  \A mode \in Modes : /\ mode.profiles \subseteq Kinds
                     /\ mode.full \in BOOLEAN /\ mode.periodic \in BOOLEAN
(* A frame that is committed has a number above 0. *)
ASSUME BoundsAssumption == MaxSessions \in Int /\ MaxFrame \in Nat \ {0}

VARIABLES
  server,   (* server[s]: mode, table, hidden, whole, session and         *)
            (* currentFrame: hidden are the cursors and blobs in state    *)
            (* TUIO_ADDED, whole the kinds whose last bundle was one of   *)
            (* sendFullMessages                                           *)
  net,      (* the packets that may arrive, once or several times         *)
  client,
  clock,    (* frames of all servers: the place a thing was put in it     *)
  events,
  sent,     (* packets sent, as long as they arrive in order              *)
  read      (* packets read, Disorder after one that was lost, doubled or *)
            (* overtaken                                                  *)

vars == <<server, net, client, clock, events, sent, read>>

Disorder == -1

Down == [down |-> TRUE]

(* A server that was started: the constructor. *)
Booted(mode) == [mode |-> mode, table |-> [kind \in mode.profiles |-> <<>>],
                 hidden |-> [kind \in mode.profiles |-> {}], whole |-> {},
                 session |-> -1, currentFrame |-> 0]

Init == /\ server = [s \in Sources |-> Down]
        /\ net = {}
        /\ client = NewClient
        /\ clock = 0
        /\ events = 0
        /\ sent = 0
        /\ read = 0
-----------------------------------------------------------------------------
Sids(table) == {table[n].sid : n \in DOMAIN table}

(* What the bundles of a frame list: startCursorBundle, startBlobBundle,   *)
(* startObjectBundle.                                                      *)
Listed(table, hidden) == Chosen(table, {e \in ToSet(table) : e.sid \notin hidden})

(* Each part lists those it has data of. *)
OwnAliveMutant(s, kind, table, sets, fseq, frame) ==
  [n \in 1 .. (IF sets = <<>> THEN 1 ELSE (Len(sets) + Capacity - 1) \div Capacity) |->
     [source |-> s, kind |-> kind,
      alive |-> Sids(SubSeq(sets, (n - 1) * Capacity + 1, Min({n * Capacity, Len(sets)}))),
      sets |-> SubSeq(sets, (n - 1) * Capacity + 1, Min({n * Capacity, Len(sets)})),
      fseq |-> fseq, frame |-> frame, part |-> n]]

(* A bundle is split when the packet has no room for another set message,  *)
(* each part with the whole alive list and the frame's number.             *)
Parts(s, kind, table, sets, fseq, frame) ==
  [n \in 1 .. (IF sets = <<>> THEN 1 ELSE (Len(sets) + Capacity - 1) \div Capacity) |->
     [source |-> s, kind |-> kind, alive |-> Sids(table),
      sets |-> SubSeq(sets, (n - 1) * Capacity + 1, Min({n * Capacity, Len(sets)})),
      fseq |-> fseq, frame |-> frame, part |-> n]]

(* The packets S are on their way, without those that arrive no more. *)
InOrder(S, stays) == stays # Disorder /\ \A q \in net \ S : q.number <= stays

Network(S, added, stays) ==
  IF InOrder(S, stays)
  THEN /\ net' = S \cup {[packet |-> added[n], number |-> sent + n] : n \in DOMAIN added}
       /\ sent' = sent + Len(added)
       /\ read' = stays
  ELSE /\ net' = {[packet |-> q.packet, number |-> 0] : q \in S}
                   \cup {[packet |-> added[n], number |-> 0] : n \in DOMAIN added}
       /\ sent' = 0
       /\ read' = Disorder

(* deliverOscPacket, for one packet after the other. *)
Deliver(s, packets, frame) ==
  Network({q \in net : q.packet.source = s => frame - q.packet.frame <= MaxDelay}, packets, read)

(* sendEmptyCursorBundle, sendEmptyObjectBundle and sendEmptyBlobBundle. *)
EmptyBundles(s, mode, frame) ==
  LET Empty(kind) == IF kind \in mode.profiles THEN Parts(s, kind, <<>>, <<>>, -1, frame) ELSE <<>>
  IN  Empty("cursor") \o Empty("object") \o Empty("blob")
-----------------------------------------------------------------------------
Up(s, kind) == server[s] # Down /\ kind \in server[s].mode.profiles

(* initialize.  A restart takes longer than a packet. *)
Start(s) ==
  /\ server[s] = Down
  /\ \E mode \in Modes :
        /\ server' = [server EXCEPT ![s] = Booted(mode)]
        /\ Network({q \in net : q.packet.source # s}, EmptyBundles(s, mode, 0), read)
  /\ UNCHANGED <<client, clock, events>>

(* The program ends without a word, or with the destructor.                *)
Crash(s) == /\ server[s] # Down
            /\ events < MaxEvents
            /\ events' = events + 1
            /\ server' = [server EXCEPT ![s] = Down]
            /\ UNCHANGED <<net, client, clock, sent, read>>

Shutdown(s) == /\ server[s] # Down
               /\ events < MaxEvents
               /\ events' = events + 1
               /\ server' = [server EXCEPT ![s] = Down]
               /\ LET frame == server[s].currentFrame + 2
                  IN  Deliver(s, EmptyBundles(s, server[s].mode, frame), frame)
               /\ UNCHANGED <<client, clock>>

(* commitFrame after one kind changed: one leaves, moves or comes to rest, *)
(* or is seen again where it is, and one or two may be put on the table.   *)
Fates(table, hidden) ==
  LET Stay == [n \in DOMAIN table |-> "stays"]
  IN  {Stay} \cup {[Stay EXCEPT ![n] = change] : n \in DOMAIN table, change \in {"goes", "moves"}}
             \cup {[Stay EXCEPT ![n] = "stops"]
                     : n \in {n \in DOMAIN table : table[n].motion # AtRest \/ table[n].sid \in hidden}}

(* They are at rest; a cursor or a blob that was updated in the frame, too, *)
(* is not.                                                                 *)
Fresh(s, kind) ==
  UNION {{[k \in 1 .. n |-> [sid |-> server[s].session + k, id |-> sign[k][1], place |-> clock + 1,
                             motion |-> sign[k][2]]]
            : sign \in [1 .. n -> IF kind = "object" THEN Symbols \X {AtRest} ELSE {-1} \X {AtRest, 1}]}
           : n \in 0 .. Min({2, MaxSessions - server[s].session})}

(* A cursor or a blob is announced when it was updated. *)
Hidden(kind, hidden, old, fate, fresh) ==
  IF kind = "object" THEN {}
  ELSE {fresh[k].sid : k \in {k \in DOMAIN fresh : fresh[k].motion = AtRest}}
         \cup (hidden \ {old[n].sid : n \in {n \in DOMAIN old : fate[n] # "stays"}})

Fated(table, fate) ==
  [n \in DOMAIN table |-> CASE fate[n] = "moves" -> [sid |-> table[n].sid, id |-> table[n].id,
                                                      place |-> clock + 1, motion |-> 1]
                            [] fate[n] = "stops" -> [table[n] EXCEPT !.motion = AtRest]
                            [] OTHER -> table[n]]

Frame(s, kind) ==
  /\ Up(s, kind)
  /\ server[s].currentFrame < MaxFrame
  /\ clock < MaxChanges
  /\ LET old == server[s].table[kind]
         hidden == server[s].hidden[kind]
         frame == server[s].currentFrame + 1
     IN  \E fate \in Fates(old, hidden), fresh \in Fresh(s, kind) :
           LET gone  == {old[n].sid : n \in {n \in DOMAIN old : fate[n] = "goes"}}
               kept  == Fated(old, fate)
               table == Chosen(kept, {e \in ToSet(kept) : e.sid \notin gone}) \o fresh
               veiled == Hidden(kind, hidden, old, fate, fresh)
               list  == Listed(table, veiled)
               news  == Chosen(list, ToSet(list) \ ToSet(Listed(old, hidden)))
           IN  /\ fresh # <<>> \/ \E n \in DOMAIN old : fate[n] # "stays"
               /\ server' = [server EXCEPT ![s] =
                    [mode |-> @.mode, table |-> [@.table EXCEPT ![kind] = table],
                     hidden |-> [@.hidden EXCEPT ![kind] = veiled], whole |-> @.whole \ {kind},
                     session |-> @.session + Len(fresh), currentFrame |-> frame]]
               /\ Deliver(s, Parts(s, kind, list, IF server[s].mode.full THEN list ELSE news,
                                   frame, frame), frame)
  /\ clock' = clock + 1
  /\ UNCHANGED <<client, events>>

(* A frame without a change, when the last bundle of kind is old enough.   *)
(* Those after MaxFrame have its number here, and each stands for so many  *)
(* that nothing older arrives after it.                                    *)
Periodic(s, kind) ==
  /\ UNCHANGED <<client, clock, events>>
  /\ Up(s, kind)
  /\ server[s].mode.periodic
  /\ LET list == Listed(server[s].table[kind], server[s].hidden[kind])
         frame == Min({server[s].currentFrame + 1, MaxFrame})
         parts == Parts(s, kind, list, IF server[s].mode.full THEN list ELSE <<>>, frame, frame)
     IN  /\ server' = [server EXCEPT ![s].currentFrame = frame, ![s].whole = server[s].whole \ {kind}]
         /\ IF server[s].currentFrame < MaxFrame THEN Deliver(s, parts, frame)
            ELSE Network({q \in net : q.packet.fseq = MaxFrame}
                           \cup {[packet |-> parts[n], number |-> 0] : n \in DOMAIN parts},
                         <<>>, Disorder)

(* startCursorBundle and startBlobBundle of all, startObjectBundle. *)
Everything(v, kind) == IF kind \in v.mode.profiles THEN v.table[kind] ELSE <<>>

(* sendFullMessages: all there is of all kinds, without a number. *)
SendFullMessages(s) ==
  /\ server[s] # Down
  /\ events < MaxEvents
  /\ events' = events + 1
  /\ LET All(kind) == Parts(s, kind, Everything(server[s], kind), Everything(server[s], kind), -1,
                            server[s].currentFrame)
     IN  Deliver(s, All("cursor") \o All("object") \o All("blob"), server[s].currentFrame)
  /\ server' = [server EXCEPT ![s].whole = Kinds]
  /\ UNCHANGED <<client, clock>>
-----------------------------------------------------------------------------
Receive(q) ==
  /\ UNCHANGED <<server, clock, events>>
  /\ q \in net
  /\ client' \in ProcessOSC(client, q.packet)
  /\ Network(net, <<>>, IF read # Disorder /\ q.number = read + 1 /\ ~Late(client, q.packet.fseq)
                        THEN q.number ELSE Disorder)

(* The receiving program disconnects and connects again. *)
Reconnect == /\ client # Disconnected(client)
             /\ events < MaxEvents
             /\ events' = events + 1
             /\ client' = Disconnected(client)
             /\ Network(net, <<>>, Disorder)
             /\ UNCHANGED <<server, clock>>

Next == \/ \E s \in Sources : \/ Start(s) \/ Crash(s) \/ Shutdown(s) \/ SendFullMessages(s)
                              \/ \E kind \in Kinds : Frame(s, kind) \/ Periodic(s, kind)
        \/ \E q \in net : Receive(q)
        \/ Reconnect

(* Something new for the client arrives from a table at rest. *)
News(s) ==
  /\ UNCHANGED <<server, clock, events>>
  /\ server[s] # Down /\ server[s].currentFrame = MaxFrame
  /\ \E q \in net : /\ q.packet.source = s /\ q.packet.fseq = MaxFrame
                    /\ Receive(q)
                    /\ client' # client

(* Frames go on, and what is sent over and over is not lost for ever. *)
Fairness == \A s \in Sources : /\ WF_vars(\E kind \in Kinds : Periodic(s, kind))
                               /\ WF_vars(News(s))

Spec == Init /\ [][Next]_vars /\ Fairness
-----------------------------------------------------------------------------
SourceOf(s) == NumberOf(client, s)

(* What the client shows of a server's things, and what the server         *)
(* announces, in one form.  After sendFullMessages this is all of a kind,  *)
(* and with the next bundle of the kind those that were not announced are  *)
(* gone again.                                                             *)
Shows(s, kind) ==
  IF Known(client, s)
  THEN {[sid |-> e.sid, place |-> e.place] : e \in Range(Own(List(client, kind), SourceOf(s)))}
  ELSE {}

Told(v, kind) == IF kind \in v.whole THEN v.table[kind] ELSE Listed(v.table[kind], v.hidden[kind])

Announces(s, kind) == {[sid |-> e.sid, place |-> e.place] : e \in Range(Told(server[s], kind))}

InSync(s) == \A kind \in server[s].mode.profiles : Shows(s, kind) = Announces(s, kind)

(* A client that got every packet of one server once and in order shows    *)
(* the announced table when it has read them all: splitting loses nothing, *)
(* whichever kinds and modes are mixed.                                    *)
LosslessIsExact ==
  sent > 0 /\ read = sent => \A s \in Sources : server[s] # Down => InSync(s)

(* TuioClient.cpp:139-146: with one server, what is lost, doubled or late  *)
(* never takes a thing back to a place it has left, unless                 *)
(* sendFullMessages sent it without a number.                              *)
NeverGoesBack ==
  [][\A kind \in Kinds :
       \A n \in DOMAIN List(client, kind), k \in DOMAIN List(client', kind) :
          LET old == List(client, kind)[n]
              new == List(client', kind)[k]
          IN  old.src = new.src /\ old.sid = new.sid /\ new.place < old.place
                => \E q \in net : q.packet.fseq = -1 /\ q.packet.sets # <<>>]_vars

(* In full and periodic mode the client shows the table at last, whatever  *)
(* was lost and however often either of them was restarted, provided there *)
(* is one server: another one's numbers would count for it too.            *)
Repeated(s) == server[s] # Down /\ server[s].mode.full /\ server[s].mode.periodic

Converges == <>[](\A s \in Sources : Repeated(s) => InSync(s))

(* TuioClient.cpp:117-119: an object that is known keeps its symbol, which *)
(* is wrong only when a server was started anew, gave its session to       *)
(* another marker, and a bundle that took the old one away was not read.    *)
SymbolsAgree ==
  \A s \in Sources :
    Up(s, "object") /\ Known(client, s) /\ (events = 0 \/ read = sent) =>
      \A e \in Range(Own(List(client, "object"), SourceOf(s))), f \in Range(server[s].table["object"]) :
         e.sid = f.sid => e.id = f.id

(* TuioClient.cpp:335-424, 564-652: the numbers the client gives to the    *)
(* cursors of one server are those TuioManager would: distinct and without *)
(* gaps, together with those kept for their numbers.                       *)
NumbersFill(list, free, top) ==
  LET all == list \o free
  IN  /\ \A n, k \in DOMAIN all : all[n].id = all[k].id => n = k
      /\ {all[n].id : n \in DOMAIN all} = 0 .. (IF all = <<>> THEN -1 ELSE top)

ClientNumbersOK ==
  Cardinality(Sources) = 1 =>
    \A kind \in {"cursor", "blob"} :
       NumbersFill(client.held[kind].list, client.held[kind].free, client.held[kind].max[0])

(* TuioClient.cpp:61-684: whatever the network did, the client's lists can *)
(* be used: they are the table's if nothing was lost.                      *)
ClientIsRight ==
  /\ LosslessIsExact
  /\ SymbolsAgree
  /\ ClientNumbersOK
=============================================================================
