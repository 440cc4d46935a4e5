--------------------------- MODULE MotionCamProofs ---------------------------
(***************************************************************************)
(* For any number of buffers, failures, pictures and regions: no port of   *)
(* the motion camera is left without buffers but by calls that failed, the *)
(* camera is built, run and taken apart whole, and the regions it finds    *)
(* reach the consumer in order.                                            *)
(***************************************************************************)
EXTENDS MotionCam, SequenceTheorems, ListLemmas

Places == {"idle", "look", "cut", "release", "send", "post", "draw"}
Stages == {"create", "connect", "callbacks", "running", "unwind", "destroy", "gone"}

(* The buffers that the callbacks have in their hands: one of the port     *)
(* while it is looked at, one of the overlay while it is drawn on.         *)
Held(p) == IF p = "overlay" THEN IF cb["vectors"] = "draw" THEN 1 ELSE 0
           ELSE IF cb[p] \in {"look", "cut", "release"} THEN 1 ELSE 0

CountsOK ==
  /\ free \in [Ports -> Nat] /\ sent \in [Ports -> Nat]
  /\ lent \in [Ports -> Nat] /\ lost \in [Ports -> Nat]
  /\ cb \in [CallbackPorts -> Places]
  /\ enabled \subseteq Ports /\ pools \subseteq Ports

(* A port without a pool has no buffers; with one it has all of them.  One *)
(* that is enabled keeps none in its pool, except between the return of a  *)
(* buffer and the sending of another.                                      *)
PortOK(p) ==
  /\ p \notin pools => free[p] = 0 /\ sent[p] = 0 /\ lent[p] = 0 /\ lost[p] = 0
  /\ p \in pools => free[p] + sent[p] + lent[p] + lost[p] = PoolSize
  /\ lent[p] = Held(p)
  /\ p \in CallbackPorts => /\ cb[p] = "send" => free[p] > 0
                            /\ p \in enabled => free[p] = IF cb[p] = "send" THEN 1 ELSE 0

(* What is still to be added to the camera has no pool.                    *)
AddingOK ==
  /\ main \in {"create", "connect"} => pools = {}
  /\ main = "callbacks" =>
       \/ todo = <<"raw", "overlay", "vectors">> /\ pools = {}
       \/ todo = <<"overlay", "vectors">> /\ pools \subseteq {"raw"}
       \/ todo = <<"vectors">> /\ pools \subseteq {"raw", "overlay"}
       \/ todo = <<>>

SupplyOK == CountsOK /\ AddingOK /\ \A p \in Ports : PortOK(p)

-----------------------------------------------------------------------------
LEMMA PortFacts ==
  /\ CallbackPorts = {"vectors", "raw"} /\ Ports = {"vectors", "raw", "overlay"}
  /\ PoolSize \in Nat /\ PoolSize > 0
  /\ MaxTime \in Nat /\ MaxFailures \in Nat
BY MotionCamAssumption DEF CallbackPorts, Ports

LEMMA AdditionFacts ==
  /\ Head(<<"raw", "overlay", "vectors">>) = "raw"
  /\ Tail(<<"raw", "overlay", "vectors">>) = <<"overlay", "vectors">>
  /\ Head(<<"overlay", "vectors">>) = "overlay"
  /\ Tail(<<"overlay", "vectors">>) = <<"vectors">>
  /\ Head(<<"vectors">>) = "vectors"
  /\ Tail(<<"vectors">>) = <<>>
OBVIOUS

LEMMA SupplyStarts == Init => SupplyOK
<1> SUFFICES ASSUME Init PROVE SupplyOK
  OBVIOUS
<1>1. CountsOK
  BY PortFacts DEF Init, CountsOK, Places
<1>2. AddingOK
  BY DEF Init, AddingOK
<1>3. ASSUME NEW p \in Ports PROVE PortOK(p)
  BY <1>3, PortFacts DEF Init, PortOK, Held
<1> QED
  BY <1>1, <1>2, <1>3 DEF SupplyOK

(* Steps that move no buffer.                                              *)
SameSupply == UNCHANGED <<free, sent, lent, lost, cb, enabled, pools>>

LEMMA SameSupplyKeeps ==
  ASSUME SupplyOK, SameSupply
  PROVE  CountsOK' /\ \A p \in Ports : PortOK(p)'
BY DEF SupplyOK, SameSupply, CountsOK, PortOK, Held

LEMMA AdditionsKeepSupply ==
  ASSUME SupplyOK, CreateOverlay \/ AddCallback
  PROVE  SupplyOK'
<1>0. CountsOK /\ AddingOK /\ \A p \in Ports : PortOK(p)
  BY DEF SupplyOK
<1>1. CASE CreateOverlay
  <2>1. /\ main = "callbacks" /\ main' = main /\ todo' = Tail(todo)
        /\ todo # <<>> /\ Head(todo) = "overlay"
        /\ UNCHANGED <<sent, lent, lost, cb>>
    BY <1>1 DEF CreateOverlay, At
  <2>2. "overlay" \notin pools /\ todo' = <<"vectors">> /\ pools \subseteq {"raw"}
    BY <1>0, <2>1, AdditionFacts DEF AddingOK
  <2>3. \/ UNCHANGED <<enabled, pools, free>>
        \/ /\ enabled' = enabled \cup {"overlay"} /\ pools' = pools \cup {"overlay"}
           /\ free' = [free EXCEPT !["overlay"] = PoolSize]
    BY <1>1 DEF CreateOverlay, port
  <2>4. AddingOK'
    BY <2>1, <2>2, <2>3 DEF AddingOK
  <2>5. CountsOK'
    BY <1>0, <2>1, <2>3, PortFacts DEF CountsOK
  <2>6. ASSUME NEW p \in Ports PROVE PortOK(p)'
    BY <1>0, <2>1, <2>2, <2>3, <2>6, PortFacts DEF PortOK, Held, CountsOK
  <2> QED
    BY <2>4, <2>5, <2>6 DEF SupplyOK
<1>2. CASE AddCallback
  <2>1. /\ main = "callbacks" /\ main' = main /\ todo' = Tail(todo)
        /\ todo # <<>> /\ Head(todo) \in CallbackPorts /\ UNCHANGED cb
    BY <1>2 DEF AddCallback, At
  <2> DEFINE h == Head(todo)
  <2>2. /\ h \notin pools
        /\ \/ h = "raw" /\ pools = {} /\ todo' = <<"overlay", "vectors">>
           \/ h = "vectors" /\ pools \subseteq {"raw", "overlay"} /\ todo' = <<>>
    BY <1>0, <2>1, PortFacts, AdditionFacts DEF AddingOK
  <2>3. \/ UNCHANGED <<enabled, pools, free, sent, lent, lost>>
        \/ enabled' = enabled \cup {h} /\ UNCHANGED <<pools, free, sent, lent, lost>>
        \/ /\ enabled' = enabled \cup {h} /\ pools' = pools \cup {h}
           /\ \/ sent' = [sent EXCEPT ![h] = PoolSize] /\ UNCHANGED lost
              \/ /\ sent' = [sent EXCEPT ![h] = PoolSize - 1]
                 /\ lost' = [lost EXCEPT ![h] = 1]
           /\ UNCHANGED <<free, lent>>
    BY <1>2 DEF AddCallback, port, buffers
  <2> HIDE DEF h
  <2>4. AddingOK'
    BY <2>1, <2>2, <2>3 DEF AddingOK
  <2>5. h \in CallbackPorts
    BY <2>1 DEF h
  <2>6. CountsOK'
    <3>1. /\ PoolSize \in Nat /\ PoolSize - 1 \in Nat /\ 1 \in Nat
          /\ h \in Ports
      BY <2>5, PortFacts
    <3> QED
      BY <1>0, <2>1, <2>3, <3>1 DEF CountsOK
  <2>7. ASSUME NEW p \in Ports PROVE PortOK(p)'
    <3>0. PortOK(p) /\ Held(p)' = Held(p)
      BY <1>0, <2>1 DEF Held
    <3>1. CASE p # h
      <4>1. /\ free'[p] = free[p] /\ sent'[p] = sent[p]
            /\ lent'[p] = lent[p] /\ lost'[p] = lost[p]
            /\ (p \in pools' <=> p \in pools) /\ (p \in enabled' <=> p \in enabled)
        BY <1>0, <2>3, <3>1 DEF CountsOK
      <4> QED
        BY <2>1, <3>0, <4>1 DEF PortOK
    <3>2. CASE p = h
      <4>1. /\ free[p] = 0 /\ sent[p] = 0 /\ lent[p] = 0 /\ lost[p] = 0
            /\ Held(p) = 0 /\ cb[p] # "send"
        BY <2>2, <2>5, <3>0, <3>2 DEF PortOK
      <4>2. \/ UNCHANGED <<pools, free, sent, lent, lost>>
            \/ /\ p \in pools' /\ free'[p] = 0 /\ lent'[p] = 0
               /\ \/ sent'[p] = PoolSize /\ lost'[p] = 0
                  \/ sent'[p] = PoolSize - 1 /\ lost'[p] = 1
        BY <1>0, <2>3, <2>7, <3>2, <4>1 DEF CountsOK
      <4> QED
        BY <2>1, <2>2, <3>0, <3>2, <4>1, <4>2, PortFacts DEF PortOK
    <3> QED
      BY <3>1, <3>2
  <2> QED
    BY <2>4, <2>6, <2>7 DEF SupplyOK
<1> QED
  BY <1>1, <1>2

(* The callbacks of the camera's ports.                                    *)
Unmoved == UNCHANGED <<main, todo, enabled, pools>>

LEMMA DeliveriesKeepSupply ==
  ASSUME SupplyOK, NEW p \in CallbackPorts, Deliver(p),
         cb' = [cb EXCEPT ![p] = IF p = "raw" THEN "look" ELSE "release"]
  PROVE  SupplyOK'
<1>0. CountsOK /\ AddingOK /\ \A q \in Ports : PortOK(q)
  BY DEF SupplyOK
<1>1. /\ Unmoved /\ UNCHANGED <<free, lost>> /\ cb[p] = "idle" /\ sent[p] > 0
      /\ sent' = [sent EXCEPT ![p] = @ - 1] /\ lent' = [lent EXCEPT ![p] = @ + 1]
  BY DEF Deliver, Doing, Unmoved, port
<1>2. AddingOK'
  BY <1>0, <1>1 DEF AddingOK, Unmoved
<1>3. CountsOK'
  BY <1>0, <1>1, PortFacts DEF CountsOK, Places, Unmoved
<1>4. ASSUME NEW q \in Ports PROVE PortOK(q)'
  BY <1>0, <1>1, <1>4, PortFacts DEF PortOK, Held, CountsOK, Places, Unmoved
<1> QED
  BY <1>2, <1>3, <1>4 DEF SupplyOK

LEMMA ReturnsKeepSupply ==
  ASSUME SupplyOK, NEW p \in CallbackPorts, Release(p) \/ Send(p)
  PROVE  SupplyOK'
<1>0. CountsOK /\ AddingOK /\ \A q \in Ports : PortOK(q)
  BY DEF SupplyOK
<1>1. Unmoved
  BY DEF Release, Send, Unmoved, port
<1>2. AddingOK'
  BY <1>0, <1>1 DEF AddingOK, Unmoved
<1>3. CASE Release(p)
  <2>1. /\ UNCHANGED <<sent, lost>> /\ cb[p] = "release"
        /\ lent' = [lent EXCEPT ![p] = @ - 1] /\ free' = [free EXCEPT ![p] = @ + 1]
        /\ cb' = [cb EXCEPT ![p] = IF p \in enabled THEN "send" ELSE "post"]
    BY <1>3 DEF Release, Doing, Goes
  <2>2. lent[p] = 1 /\ (p \in enabled => free[p] = 0)
    BY <1>0, <2>1, PortFacts DEF PortOK, Held
  <2>3. CountsOK'
    BY <1>0, <1>1, <2>1, <2>2, PortFacts DEF CountsOK, Places, Unmoved
  <2>4. ASSUME NEW q \in Ports PROVE PortOK(q)'
    BY <1>0, <1>1, <2>1, <2>2, <2>4, PortFacts DEF PortOK, Held, CountsOK, Places, Unmoved
  <2> QED
    BY <1>2, <2>3, <2>4 DEF SupplyOK
<1>4. CASE Send(p)
  <2>1. /\ UNCHANGED lent /\ cb[p] = "send"
        /\ free' = [free EXCEPT ![p] = @ - 1]
        /\ \/ sent' = [sent EXCEPT ![p] = @ + 1] /\ UNCHANGED lost
           \/ lost' = [lost EXCEPT ![p] = @ + 1] /\ UNCHANGED sent
        /\ cb' = [cb EXCEPT ![p] = "post"]
    BY <1>4 DEF Send, Doing, Goes
  <2>2. free[p] > 0 /\ (p \in enabled => free[p] = 1) /\ p \in pools
    BY <1>0, <2>1, PortFacts DEF PortOK
  <2>3. CountsOK'
    BY <1>0, <1>1, <2>1, <2>2, PortFacts DEF CountsOK, Places, Unmoved
  <2>4. ASSUME NEW q \in Ports PROVE PortOK(q)'
    BY <1>0, <1>1, <2>1, <2>2, <2>4, PortFacts DEF PortOK, Held, CountsOK, Places, Unmoved
  <2> QED
    BY <1>2, <2>3, <2>4 DEF SupplyOK
<1> QED
  BY <1>3, <1>4

(* Steps in which a callback only moves on.                                *)
LEMMA MovesKeepSupply ==
  ASSUME SupplyOK, Look \/ Cut \/ PostProcess("raw") \/ PostProcess("vectors")
  PROVE  SupplyOK'
<1>0. CountsOK /\ AddingOK /\ \A q \in Ports : PortOK(q)
  BY DEF SupplyOK
<1>1. Unmoved /\ UNCHANGED <<free, sent, lent, lost>>
  BY DEF Look, Cut, PostProcess, Unmoved, port, buffers
<1>2. AddingOK'
  BY <1>0, <1>1 DEF AddingOK, Unmoved
<1>3. \/ UNCHANGED cb
      \/ cb["raw"] = "look" /\ cb' = [cb EXCEPT !["raw"] = "release"]
      \/ cb["raw"] = "look" /\ cb' = [cb EXCEPT !["raw"] = "cut"]
      \/ cb["raw"] = "cut" /\ cb' = [cb EXCEPT !["raw"] = "release"]
      \/ cb["raw"] = "post" /\ cb' = [cb EXCEPT !["raw"] = "idle"]
      \/ cb["vectors"] = "post" /\ cb' = [cb EXCEPT !["vectors"] = "idle"]
  BY DEF Look, Cut, PostProcess, Doing, Goes
<1>4. CountsOK'
  BY <1>0, <1>1, <1>3, PortFacts DEF CountsOK, Places, Unmoved
<1>5. ASSUME NEW q \in Ports PROVE PortOK(q)'
  BY <1>0, <1>1, <1>3, <1>5, PortFacts DEF PortOK, Held, CountsOK, Places, Unmoved
<1> QED
  BY <1>2, <1>4, <1>5 DEF SupplyOK

LEMMA DrawingKeepsSupply ==
  ASSUME SupplyOK, GetOverlayBuffer \/ SendOverlayBuffer \/ OverlayShown
  PROVE  SupplyOK'
<1> DEFINE o == "overlay"
<1>0. CountsOK /\ AddingOK /\ \A q \in Ports : PortOK(q)
  BY DEF SupplyOK
<1>1. Unmoved
  BY DEF GetOverlayBuffer, SendOverlayBuffer, OverlayShown, Unmoved, port
<1>2. AddingOK'
  BY <1>0, <1>1 DEF AddingOK, Unmoved
<1>3. \/ UNCHANGED <<free, sent, lent, lost, cb>>
      \/ /\ cb["vectors"] = "post" /\ free[o] > 0 /\ UNCHANGED <<sent, lost>>
         /\ free' = [free EXCEPT ![o] = @ - 1] /\ lent' = [lent EXCEPT ![o] = @ + 1]
         /\ cb' = [cb EXCEPT !["vectors"] = "draw"]
      \/ /\ cb["vectors"] = "draw" /\ UNCHANGED free
         /\ lent' = [lent EXCEPT ![o] = @ - 1]
         /\ \/ sent' = [sent EXCEPT ![o] = @ + 1] /\ UNCHANGED lost
            \/ lost' = [lost EXCEPT ![o] = @ + 1] /\ UNCHANGED sent
         /\ cb' = [cb EXCEPT !["vectors"] = "idle"]
      \/ /\ sent[o] > 0 /\ UNCHANGED <<lent, lost, cb>>
         /\ sent' = [sent EXCEPT ![o] = @ - 1] /\ free' = [free EXCEPT ![o] = @ + 1]
  BY DEF GetOverlayBuffer, SendOverlayBuffer, OverlayShown, Doing, Goes, OverlayFree
<1>4. lent[o] = IF cb["vectors"] = "draw" THEN 1 ELSE 0
  BY <1>0, PortFacts DEF PortOK, Held
<1>5. CountsOK'
  BY <1>0, <1>1, <1>3, <1>4, PortFacts DEF CountsOK, Places, Unmoved
<1>6. ASSUME NEW q \in Ports PROVE PortOK(q)'
  BY <1>0, <1>1, <1>3, <1>4, <1>6, PortFacts DEF PortOK, Held, CountsOK, Places, Unmoved
<1> QED
  BY <1>2, <1>5, <1>6 DEF SupplyOK

LEMMA DestructionKeepsSupply ==
  ASSUME SupplyOK, DisablePort \/ DestroyComponent
  PROVE  SupplyOK'
<1>0. CountsOK /\ AddingOK /\ \A q \in Ports : PortOK(q)
  BY DEF SupplyOK
<1>1. AddingOK'
  BY DEF DisablePort, DestroyComponent, Destroying, AddingOK
<1>2. CASE DisablePort
  <2>1. PICK p \in CallbackPort(Head(todo)) \cap enabled :
          /\ enabled' = enabled \ {p}
          /\ free' = [free EXCEPT ![p] = @ + sent[p]] /\ sent' = [sent EXCEPT ![p] = 0]
    BY <1>2 DEF DisablePort
  <2>2. p \in CallbackPorts /\ UNCHANGED <<pools, lent, lost, cb>>
    BY <1>2, PortFacts DEF CallbackPort, DisablePort
  <2>3. CountsOK'
    BY <1>0, <2>1, <2>2, PortFacts DEF CountsOK
  <2>4. ASSUME NEW q \in Ports PROVE PortOK(q)'
    BY <1>0, <2>1, <2>2, <2>4, PortFacts DEF PortOK, Held, CountsOK
  <2> QED
    BY <1>1, <2>3, <2>4 DEF SupplyOK
<1>3. CASE DestroyComponent
  <2> DEFINE c == Head(todo)
  <2>1. CASE c \notin made
    <3>1. SameSupply
      BY <1>3, <2>1 DEF DestroyComponent, SameSupply, port, buffers
    <3> QED
      BY <1>1, <3>1, SameSupplyKeeps DEF SupplyOK
  <2>2. CASE c \in made
    <3>1. /\ Disabled(c)
          /\ enabled' = enabled \ PortsOf(c) /\ pools' = pools \ PortsOf(c)
          /\ free' = [p \in Ports |-> IF p \in PortsOf(c) THEN 0 ELSE free[p]]
          /\ sent' = [p \in Ports |-> IF p \in PortsOf(c) THEN 0 ELSE sent[p]]
          /\ lost' = [p \in Ports |-> IF p \in PortsOf(c) THEN 0 ELSE lost[p]]
          /\ UNCHANGED <<lent, cb>>
      BY <1>3, <2>2 DEF DestroyComponent
    <3>2. /\ \A p \in PortsOf(c) \cap CallbackPorts : cb[p] = "idle"
          /\ "overlay" \in PortsOf(c) => cb["vectors"] = "idle"
      BY <3>1, PortFacts DEF Disabled, PortsOf, CallbackPort
    <3> HIDE DEF c
    <3>3. CountsOK'
      BY <1>0, <3>1, PortFacts DEF CountsOK
    <3>4. ASSUME NEW q \in Ports PROVE PortOK(q)'
      BY <1>0, <3>1, <3>2, <3>4, PortFacts DEF PortOK, Held, CountsOK
    <3> QED
      BY <1>1, <3>3, <3>4 DEF SupplyOK
  <2> QED
    BY <2>1, <2>2
<1> QED
  BY <1>2, <1>3

LEMMA OthersKeepSupply ==
  ASSUME SupplyOK,
         \/ CreateComponent \/ CreateDone \/ ConnectComponent \/ ConnectDone
         \/ Start \/ Stop \/ Destroyed \/ GetFrame \/ Tick \/ UNCHANGED vars
  PROVE  SupplyOK'
<1>1. SameSupply
  BY DEF CreateComponent, CreateDone, ConnectComponent, ConnectDone, Start, Stop,
         Destroyed, GetFrame, Tick, vars, port, buffers, SameSupply
<1>2. AddingOK'
  <2>0. AddingOK /\ pools' = pools
    BY <1>1 DEF SupplyOK, SameSupply
  <2>1. CASE CreateComponent
    BY <2>0, <2>1 DEF CreateComponent, At, GiveUp, AddingOK
  <2>2. CASE CreateDone
    BY <2>0, <2>2 DEF CreateDone, At, AddingOK
  <2>3. CASE ConnectComponent
    BY <2>0, <2>3 DEF ConnectComponent, At, GiveUp, AddingOK
  <2>4. CASE ConnectDone
    BY <2>0, <2>4 DEF ConnectDone, At, AddingOK, Additions
  <2>5. CASE Start \/ Stop \/ Destroyed
    BY <2>0, <2>5 DEF Start, Stop, Destroyed, Destroying, At, GiveUp, AddingOK
  <2>6. CASE GetFrame \/ Tick \/ UNCHANGED vars
    BY <2>0, <2>6 DEF GetFrame, Tick, vars, AddingOK
  <2> QED
    BY <2>1, <2>2, <2>3, <2>4, <2>5, <2>6
<1> QED
  BY <1>1, <1>2, SameSupplyKeeps DEF SupplyOK

LEMMA SupplyStays == SupplyOK /\ [Next]_vars => SupplyOK'
<1> SUFFICES ASSUME SupplyOK, [Next]_vars PROVE SupplyOK'
  OBVIOUS
<1>1. CASE CreateOverlay \/ AddCallback
  BY <1>1, AdditionsKeepSupply
<1>2. CASE PictureArrives
  BY <1>2, PortFacts, DeliveriesKeepSupply DEF PictureArrives, Goes
<1>3. CASE VectorsArrive
  BY <1>3, PortFacts, DeliveriesKeepSupply DEF VectorsArrive, Goes
<1>4. CASE RawNext
  BY <1>4, PortFacts, ReturnsKeepSupply, MovesKeepSupply DEF RawNext
<1>5. CASE VectorsNext
  BY <1>5, PortFacts, ReturnsKeepSupply, MovesKeepSupply, DrawingKeepsSupply DEF VectorsNext
<1>6. CASE OverlayShown
  BY <1>6, DrawingKeepsSupply
<1>7. CASE DisablePort \/ DestroyComponent
  BY <1>7, DestructionKeepsSupply
<1>8. CASE \/ CreateComponent \/ CreateDone \/ ConnectComponent \/ ConnectDone
           \/ Start \/ Stop \/ Destroyed \/ GetFrame \/ Tick \/ UNCHANGED vars
  BY <1>8, OthersKeepSupply
<1> QED
  BY <1>1, <1>2, <1>3, <1>4, <1>5, <1>6, <1>7, <1>8 DEF Next, MainNext

LEMMA SupplyInvariant == Spec => []SupplyOK
BY SupplyStarts, SupplyStays, PTL DEF Spec

(* RaspiPort.cpp:123-140, for any number of buffers, failures and pictures:*)
(* a port that is enabled has all its buffers but those a failed call kept *)
(* back, whenever its callback has nothing in its hands.                   *)
THEOREM PortsKeepTheirBuffers == Spec => []PortsStaySupplied
<1>1. SupplyOK => PortsStaySupplied
  <2> SUFFICES ASSUME SupplyOK PROVE PortsStaySupplied
    OBVIOUS
  <2>0. CountsOK /\ \A p \in Ports : PortOK(p)
    BY DEF SupplyOK
  <2>1. \A p \in pools : free[p] + sent[p] + lent[p] + lost[p] = PoolSize
    BY <2>0 DEF PortOK, CountsOK
  <2>2. ASSUME NEW p \in pools \cap enabled \cap CallbackPorts, cb[p] \in {"idle", "post", "draw"}
        PROVE  sent[p] = PoolSize - lost[p]
    BY <2>0, <2>2, PortFacts DEF PortOK, CountsOK, Held
  <2> QED
    BY <2>1, <2>2 DEF PortsStaySupplied
<1> QED
  BY <1>1, SupplyInvariant, PTL

-----------------------------------------------------------------------------
(* The life of the camera.                                                 *)

Core == {"camera", "resizer", "encoder", "splitter"}
Needed == Core \cup (IF preview THEN {"renderer"} ELSE {})
Linked == {IF preview THEN "renderer" ELSE "nullsink", "splitter", "resizer", "encoder"}
Names == {"camera", "renderer", "resizer", "encoder", "splitter", "nullsink", "overlay",
          "duplicate_input", "set_output", "raw", "vectors"}
Owner(p) == IF p = "raw" THEN "splitter" ELSE "encoder"

NamesOK ==
  /\ main \in Stages /\ todo \in Seq(Names)
  /\ made \subseteq Components
  /\ link \in [Inputs -> {"unset", "live", "dangling"}]
  /\ frame = <<>> \/ Len(frame) = 1
  /\ now \in Nat /\ now <= MaxTime
  /\ failures \in Nat /\ failures <= MaxFailures

(* What is linked, enabled or supplied belongs to a component that exists. *)
OwnersOK ==
  /\ "overlay" \in made => "encoder" \in made
  /\ \A p \in enabled \cup pools : Owner(p) \in made
  /\ \A c \in Inputs : link[c] = "live" => c \in made

(* Whatever is needed exists or is still to be created; so does the sink,  *)
(* as long as nothing failed.                                              *)
CreatingOK ==
  main = "create" => /\ ToSet(todo) \subseteq Components \ {"overlay"}
                     /\ Needed \subseteq made \cup ToSet(todo)
                     /\ failures = 0 => "nullsink" \in made \cup ToSet(todo)

ConnectingOK ==
  /\ main \in {"connect", "callbacks", "running"} =>
       Needed \subseteq made /\ (failures = 0 => "nullsink" \in made)
  /\ main = "connect" => /\ \A c \in Linked : link[c] = "live" \/ c \in ToSet(todo)
                         /\ ToSet(todo) \cap Inputs \subseteq Linked
  /\ main \in {"callbacks", "running"} => \A c \in Linked : link[c] = "live"

(* As long as nothing failed, what has been added is there.                *)
AddedOK ==
  /\ main = "callbacks" /\ failures = 0 =>
       \/ todo = <<"raw", "overlay", "vectors">>
       \/ todo = <<"overlay", "vectors">> /\ "raw" \in enabled \cap pools
       \/ /\ todo = <<"vectors">> /\ "raw" \in enabled \cap pools
          /\ preview => "overlay" \in made
       \/ /\ todo = <<>> /\ CallbackPorts \subseteq enabled \cap pools
          /\ preview => "overlay" \in made
  /\ main = "running" /\ failures = 0 => /\ CallbackPorts \subseteq enabled \cap pools
                                         /\ preview => "overlay" \in made

(* What still exists is still to be destroyed, the overlay with the        *)
(* encoder's callback.                                                     *)
EndingOK ==
  /\ main \in {"unwind", "destroy"} => made \subseteq ToSet(todo) \cup {"overlay"}
  /\ main = "unwind" => failures > 0
  /\ main = "gone" => made = {}
  /\ crashed => failures > 0 \/ main = "destroy"

LifeOK == NamesOK /\ OwnersOK /\ CreatingOK /\ ConnectingOK /\ AddedOK /\ EndingOK

LEMMA HeadAndTail ==
  ASSUME NEW S, NEW s \in Seq(S), s # <<>>
  PROVE  /\ Head(s) \in ToSet(s) /\ Tail(s) \in Seq(S)
         /\ ToSet(s) = {Head(s)} \cup ToSet(Tail(s))
<1>1. Len(s) \in Nat /\ Len(s) > 0 /\ Tail(s) \in Seq(S) /\ Len(Tail(s)) = Len(s) - 1
  OBVIOUS
<1>2. \A i \in 1 .. Len(Tail(s)) : Tail(s)[i] = s[i + 1]
  OBVIOUS
<1>3. Head(s) = s[1]
  OBVIOUS
<1>4. \A x : x \in ToSet(s) <=> \E i \in 1 .. Len(s) : x = s[i]
  BY DEF ToSet
<1>5. \A x : x \in ToSet(Tail(s)) <=> \E i \in 1 .. Len(s) - 1 : x = s[i + 1]
  <2>1. DOMAIN Tail(s) = 1 .. Len(s) - 1
    BY <1>1
  <2>2. \A i \in 1 .. Len(s) - 1 : Tail(s)[i] = s[i + 1]
    BY <1>1, <1>2
  <2> QED
    BY <2>1, <2>2 DEF ToSet
<1>6. ASSUME NEW x \in ToSet(s) PROVE x = s[1] \/ x \in ToSet(Tail(s))
  <2>1. PICK i \in 1 .. Len(s) : x = s[i]
    BY <1>4
  <2>2. CASE i # 1
    <3>1. i - 1 \in 1 .. Len(s) - 1 /\ x = s[(i - 1) + 1]
      BY <1>1, <2>1, <2>2
    <3> QED
      BY <1>5, <3>1
  <2> QED
    BY <2>1, <2>2
<1>7. ASSUME NEW x \in ToSet(Tail(s)) PROVE x \in ToSet(s)
  <2>1. PICK i \in 1 .. Len(s) - 1 : x = s[i + 1]
    BY <1>5
  <2>2. i + 1 \in 1 .. Len(s)
    BY <1>1
  <2> QED
    BY <1>4, <2>1, <2>2
<1>8. s[1] \in ToSet(s)
  BY <1>1, <1>4
<1> QED
  BY <1>1, <1>3, <1>6, <1>7, <1>8

LEMMA EmptyToSet == ToSet(<<>>) = {}
BY DEF ToSet

LEMMA ListFacts ==
  /\ Creation \in Seq(Names) /\ Connection \in Seq(Names)
  /\ Additions \in Seq(Names) /\ Destruction \in Seq(Names)
  /\ ToSet(Creation) = Needed \cup {"nullsink"}
  /\ Linked \subseteq ToSet(Connection) /\ ToSet(Connection) \cap Inputs = Linked
  /\ ToSet(Destruction) = Components \ {"overlay"}
<1>1. /\ Creation \in Seq(Names) /\ Connection \in Seq(Names)
      /\ Additions \in Seq(Names) /\ Destruction \in Seq(Names)
  <2>1. Creation \in Seq(Names)
    <3>1. /\ <<"camera", "renderer", "resizer", "encoder", "splitter", "nullsink">> \in Seq(Names)
          /\ <<"camera", "resizer", "encoder", "splitter", "nullsink">> \in Seq(Names)
      BY DEF Names
    <3> QED
      BY <3>1 DEF Creation
  <2>2. Connection \in Seq(Names)
    BY DEF Connection, Names
  <2>3. Additions \in Seq(Names)
    BY DEF Additions, Names
  <2>4. Destruction \in Seq(Names)
    BY DEF Destruction, Names
  <2> QED
    BY <2>1, <2>2, <2>3, <2>4
<1>2. ToSet(Creation) = Needed \cup {"nullsink"}
  <2>1. CASE preview
    <3>1. Creation = <<"camera", "renderer", "resizer", "encoder", "splitter", "nullsink">>
      BY <2>1 DEF Creation
    <3>2. DOMAIN Creation = {1, 2, 3, 4, 5, 6}
      BY <3>1
    <3>3. ToSet(Creation) = {"camera", "renderer", "resizer", "encoder", "splitter", "nullsink"}
      BY <3>1, <3>2 DEF ToSet
    <3> QED
      BY <2>1, <3>3 DEF Needed, Core
  <2>2. CASE ~preview
    <3>1. Creation = <<"camera", "resizer", "encoder", "splitter", "nullsink">>
      BY <2>2 DEF Creation
    <3>2. DOMAIN Creation = {1, 2, 3, 4, 5}
      BY <3>1
    <3>3. ToSet(Creation) = {"camera", "resizer", "encoder", "splitter", "nullsink"}
      BY <3>1, <3>2 DEF ToSet
    <3> QED
      BY <2>2, <3>3 DEF Needed, Core
  <2> QED
    BY <2>1, <2>2
<1>3. Linked \subseteq ToSet(Connection) /\ ToSet(Connection) \cap Inputs = Linked
  <2> DEFINE sink == IF preview THEN "renderer" ELSE "nullsink"
  <2>1. Connection = <<sink, "splitter", "duplicate_input", "resizer", "set_output", "encoder">>
    BY DEF Connection
  <2>2. Linked = {sink, "splitter", "resizer", "encoder"}
    BY DEF Linked
  <2>3. sink \in Inputs
    BY DEF Inputs
  <2> HIDE DEF sink
  <2>4. DOMAIN Connection = {1, 2, 3, 4, 5, 6}
    BY <2>1
  <2>5. ToSet(Connection) = {sink, "splitter", "duplicate_input", "resizer", "set_output", "encoder"}
    BY <2>1, <2>4 DEF ToSet
  <2> QED
    BY <2>2, <2>3, <2>5 DEF Inputs
<1>4. ToSet(Destruction) = Components \ {"overlay"}
  <2>1. Destruction = <<"nullsink", "resizer", "splitter", "encoder", "renderer", "camera">>
    BY DEF Destruction
  <2>2. DOMAIN Destruction = {1, 2, 3, 4, 5, 6}
    BY <2>1
  <2>3. ToSet(Destruction) = {"nullsink", "resizer", "splitter", "encoder", "renderer", "camera"}
    BY <2>1, <2>2 DEF ToSet
  <2> QED
    BY <2>3 DEF Components
<1> QED
  BY <1>1, <1>2, <1>3, <1>4

LEMMA LifeStarts == Init => LifeOK
<1> SUFFICES ASSUME Init PROVE LifeOK
  OBVIOUS
<1>1. NamesOK
  BY ListFacts, PortFacts DEF Init, NamesOK, Stages
<1>2. OwnersOK
  BY DEF Init, OwnersOK
<1>3. CreatingOK
  BY ListFacts DEF Init, CreatingOK, Needed, Core, Components
<1>4. ConnectingOK /\ AddedOK /\ EndingOK
  BY DEF Init, ConnectingOK, AddedOK, EndingOK
<1> QED
  BY <1>1, <1>2, <1>3, <1>4 DEF LifeOK

(* Giving up, or stopping: everything that exists is to be destroyed.      *)
LEMMA EndingBegins ==
  ASSUME NamesOK, OwnersOK, UNCHANGED made, todo' = Destruction,
         main' \in {"unwind", "destroy"},
         main' = "unwind" => failures' > 0,
         crashed' => failures' > 0
  PROVE  EndingOK'
BY ListFacts DEF NamesOK, EndingOK

LEMMA CreatingKeepsLife ==
  ASSUME LifeOK, CreateComponent
  PROVE  LifeOK'
<1>0. NamesOK /\ OwnersOK /\ CreatingOK /\ EndingOK
  BY DEF LifeOK
<1> DEFINE c == Head(todo)
<1>1. /\ main = "create" /\ todo # <<>> /\ ~crashed
      /\ UNCHANGED <<preview, link, enabled, pools, frame, now>>
  BY DEF CreateComponent, At, options, port, motion, bounds
<1>2. /\ c \in ToSet(todo) /\ Tail(todo) \in Seq(Names)
      /\ ToSet(todo) = {c} \cup ToSet(Tail(todo))
  BY <1>0, <1>1, HeadAndTail DEF NamesOK
<1>3. c \in Components /\ c # "overlay"
  BY <1>0, <1>1, <1>2 DEF CreatingOK
<1>4. \/ /\ Fails /\ UNCHANGED made
         /\ IF c = "nullsink" THEN todo' = Tail(todo) /\ UNCHANGED main ELSE GiveUp
      \/ /\ Works \/ Fails
         /\ made' = made \cup {c} /\ todo' = Tail(todo)
         /\ UNCHANGED <<main, crashed>>
  BY DEF CreateComponent, Fault
<1> HIDE DEF c
<1>5. CASE Fails /\ UNCHANGED made /\ GiveUp
  <2>1. /\ main' = "unwind" /\ todo' = Destruction
        /\ failures' \in Nat /\ failures' > 0 /\ failures' <= MaxFailures
    BY <1>0, <1>5, PortFacts DEF GiveUp, Fails, NamesOK
  <2>2. NamesOK'
    BY <1>0, <1>1, <1>5, <2>1, ListFacts DEF NamesOK, Stages
  <2>3. OwnersOK'
    BY <1>0, <1>1, <1>5 DEF OwnersOK, Owner
  <2>4. EndingOK'
    BY <1>0, <1>5, <2>1, EndingBegins
  <2> QED
    BY <2>1, <2>2, <2>3, <2>4 DEF LifeOK, CreatingOK, ConnectingOK, AddedOK
<1>6. CASE Fails /\ UNCHANGED <<made, main>> /\ c = "nullsink" /\ todo' = Tail(todo)
  <2>1. failures' \in Nat /\ failures' > 0 /\ failures' <= MaxFailures
    BY <1>0, <1>6, PortFacts DEF Fails, NamesOK
  <2>2. NamesOK'
    BY <1>0, <1>1, <1>2, <1>6, <2>1 DEF NamesOK
  <2>3. OwnersOK'
    BY <1>0, <1>1, <1>6 DEF OwnersOK, Owner
  <2>4. CreatingOK'
    BY <1>0, <1>1, <1>2, <1>6, <2>1 DEF CreatingOK, Needed, Core
  <2> QED
    BY <1>1, <1>6, <2>1, <2>2, <2>3, <2>4 DEF LifeOK, ConnectingOK, AddedOK, EndingOK
<1>7. CASE /\ Works \/ Fails
           /\ made' = made \cup {c} /\ todo' = Tail(todo)
           /\ UNCHANGED <<main, crashed>>
  <2>1. /\ failures' \in Nat /\ failures' <= MaxFailures /\ failures' >= failures
    BY <1>0, <1>7, PortFacts DEF Works, Fails, NamesOK
  <2>2. NamesOK'
    BY <1>0, <1>1, <1>2, <1>3, <1>7, <2>1 DEF NamesOK
  <2>3. OwnersOK'
    BY <1>0, <1>1, <1>3, <1>7 DEF OwnersOK, Owner
  <2>4. CreatingOK'
    BY <1>0, <1>1, <1>2, <1>7, <2>1 DEF CreatingOK, Needed, Core, NamesOK
  <2> QED
    BY <1>1, <1>7, <2>1, <2>2, <2>3, <2>4 DEF LifeOK, ConnectingOK, AddedOK, EndingOK
<1> QED
  BY <1>4, <1>5, <1>6, <1>7

LEMMA ConnectingKeepsLife ==
  ASSUME LifeOK, CreateDone \/ ConnectComponent \/ ConnectDone
  PROVE  LifeOK'
<1>0. NamesOK /\ OwnersOK /\ CreatingOK /\ ConnectingOK /\ AddedOK /\ EndingOK
  BY DEF LifeOK
<1>1. /\ ~crashed /\ UNCHANGED <<preview, made, enabled, pools, frame, now>>
  BY DEF CreateDone, ConnectComponent, ConnectDone, At, options, pipeline, port, motion, bounds
<1>2. CASE CreateDone
  <2>1. /\ main = "create" /\ todo = <<>> /\ main' = "connect" /\ todo' = Connection
        /\ UNCHANGED <<link, failures, crashed>>
    BY <1>2 DEF CreateDone, At, pipeline
  <2>2. NamesOK'
    BY <1>0, <1>1, <2>1, ListFacts DEF NamesOK, Stages
  <2>3. OwnersOK'
    BY <1>0, <1>1, <2>1 DEF OwnersOK, Owner
  <2>4. ConnectingOK'
    BY <1>0, <1>1, <2>1, ListFacts, EmptyToSet DEF ConnectingOK, CreatingOK, Needed, Linked
  <2> QED
    BY <1>1, <2>1, <2>2, <2>3, <2>4 DEF LifeOK, CreatingOK, AddedOK, EndingOK
<1>3. CASE ConnectDone
  <2>1. /\ main = "connect" /\ todo = <<>> /\ main' = "callbacks" /\ todo' = Additions
        /\ UNCHANGED <<link, failures, crashed>>
    BY <1>3 DEF ConnectDone, At, pipeline
  <2>2. NamesOK'
    BY <1>0, <1>1, <2>1, ListFacts DEF NamesOK, Stages
  <2>3. OwnersOK'
    BY <1>0, <1>1, <2>1 DEF OwnersOK, Owner
  <2>4. ConnectingOK'
    BY <1>0, <1>1, <2>1, EmptyToSet DEF ConnectingOK, Needed, Linked
  <2>5. AddedOK'
    BY <1>0, <1>1, <2>1 DEF AddedOK, Additions
  <2> QED
    BY <1>1, <2>1, <2>2, <2>3, <2>4, <2>5 DEF LifeOK, CreatingOK, EndingOK
<1>4. CASE ConnectComponent
  <2> DEFINE c == Head(todo)
  <2>1. main = "connect" /\ todo # <<>>
    BY <1>4 DEF ConnectComponent, At
  <2>2. /\ c \in ToSet(todo) /\ Tail(todo) \in Seq(Names)
        /\ ToSet(todo) = {c} \cup ToSet(Tail(todo))
    BY <1>0, <2>1, HeadAndTail DEF NamesOK
  <2>3. \/ /\ Fails /\ GiveUp /\ UNCHANGED crashed
           /\ (link' = link \/ (c \in Inputs /\ link' = [link EXCEPT ![c] = "dangling"]))
        \/ c \notin Inputs /\ Works /\ todo' = Tail(todo) /\ UNCHANGED <<main, link, crashed>>
        \/ /\ c \in Inputs /\ c \notin made
           /\ crashed' = TRUE /\ UNCHANGED <<main, todo, link, failures>>
        \/ /\ c \in Inputs /\ c \in made /\ (Works \/ Fails)
           /\ link' = [link EXCEPT ![c] = "live"]
           /\ todo' = Tail(todo) /\ UNCHANGED <<main, crashed>>
    <3>0. IF c \notin Inputs
          THEN /\ UNCHANGED <<link, crashed>>
               /\ \/ Works /\ todo' = Tail(todo) /\ UNCHANGED main
                  \/ Fails /\ GiveUp
          ELSE IF c \notin made
          THEN crashed' = TRUE /\ UNCHANGED <<main, todo, link, failures>>
          ELSE /\ UNCHANGED crashed
               /\ \/ (Works \/ Fails) /\ Connected(c, "live") /\ todo' = Tail(todo) /\ UNCHANGED main
                  \/ /\ Fails /\ link' \in {link, [link EXCEPT ![c] = "dangling"]}
                     /\ GiveUp
      BY <1>4, Zenon DEF ConnectComponent
    <3> HIDE DEF c
    <3>1. CASE c \notin Inputs
      <4>1. CASE Works /\ todo' = Tail(todo) /\ UNCHANGED main
        BY <3>0, <3>1, <4>1
      <4>2. CASE Fails /\ GiveUp
        <5>1. link' = link /\ UNCHANGED crashed
          BY <3>0, <3>1
        <5> QED
          BY <4>2, <5>1, Zenon
      <4> QED
        BY <3>0, <3>1, <4>1, <4>2
    <3>2. CASE c \in Inputs /\ c \notin made
      BY <3>0, <3>2
    <3>3. CASE c \in Inputs /\ c \in made
      <4>1. CASE (Works \/ Fails) /\ Connected(c, "live") /\ todo' = Tail(todo) /\ UNCHANGED main
        BY <3>0, <3>3, <4>1 DEF Connected
      <4>2. CASE Fails /\ link' \in {link, [link EXCEPT ![c] = "dangling"]} /\ GiveUp
        <5>1. link' = link \/ (c \in Inputs /\ link' = [link EXCEPT ![c] = "dangling"])
          BY <3>3, <4>2
        <5>2. UNCHANGED crashed
          BY <3>0, <3>3
        <5> QED
          BY <4>2, <5>1, <5>2, Zenon
      <4> QED
        BY <3>0, <3>3, <4>1, <4>2
    <3> QED
      BY <3>1, <3>2, <3>3
  <2> HIDE DEF c
  <2>4. CASE Fails /\ GiveUp /\ UNCHANGED crashed
             /\ (link' = link \/ (c \in Inputs /\ link' = [link EXCEPT ![c] = "dangling"]))
    <3>1. /\ main' = "unwind" /\ todo' = Destruction
          /\ failures' \in Nat /\ failures' > 0 /\ failures' <= MaxFailures
      BY <1>0, <2>4, PortFacts DEF GiveUp, Fails, NamesOK
    <3>2. NamesOK'
      BY <1>0, <1>1, <2>4, <3>1, ListFacts DEF NamesOK, Stages
    <3>3. OwnersOK'
      BY <1>0, <1>1, <2>4 DEF OwnersOK, Owner, NamesOK
    <3>4. EndingOK'
      BY <1>0, <1>1, <3>1, EndingBegins
    <3> QED
      BY <3>1, <3>2, <3>3, <3>4 DEF LifeOK, CreatingOK, ConnectingOK, AddedOK
  <2>5. CASE c \notin Inputs /\ Works /\ todo' = Tail(todo) /\ UNCHANGED <<main, link, crashed>>
    <3>1. UNCHANGED failures
      BY <2>5 DEF Works
    <3>2. NamesOK'
      BY <1>0, <1>1, <2>2, <2>5, <3>1 DEF NamesOK
    <3>3. OwnersOK'
      BY <1>0, <1>1, <2>5 DEF OwnersOK, Owner
    <3>4. Linked \subseteq Inputs
      BY DEF Linked, Inputs
    <3>5. ConnectingOK'
      BY <1>0, <1>1, <2>1, <2>2, <2>5, <3>1, <3>4 DEF ConnectingOK, Needed, Linked
    <3> QED
      BY <1>0, <1>1, <2>1, <2>5, <3>1, <3>2, <3>3, <3>5
      DEF LifeOK, CreatingOK, AddedOK, EndingOK
  <2>6. CASE /\ c \in Inputs /\ c \notin made
             /\ crashed' = TRUE /\ UNCHANGED <<main, todo, link, failures>>
    <3>1. failures # 0
      <4>1. CASE c \in Needed \cup {"nullsink"}
        BY <1>0, <2>1, <2>6, <4>1 DEF ConnectingOK
      <4>2. CASE c \notin Needed \cup {"nullsink"}
        <5>1. c = "renderer" /\ ~preview
          BY <2>6, <4>2 DEF Inputs, Needed, Core
        <5>2. "renderer" \notin ToSet(todo)
          BY <1>0, <2>1, <5>1 DEF ConnectingOK, Linked, Inputs
        <5> QED
          BY <2>2, <5>1, <5>2
      <4> QED
        BY <4>1, <4>2
    <3>2. NamesOK' /\ OwnersOK' /\ ConnectingOK'
      BY <1>0, <1>1, <2>6 DEF NamesOK, OwnersOK, Owner, ConnectingOK, Needed, Linked
    <3>3. EndingOK'
      BY <1>0, <2>1, <2>6, <3>1 DEF EndingOK, NamesOK
    <3> QED
      BY <2>1, <2>6, <3>2, <3>3 DEF LifeOK, CreatingOK, AddedOK
  <2>7. CASE /\ c \in Inputs /\ c \in made /\ (Works \/ Fails)
             /\ link' = [link EXCEPT ![c] = "live"]
             /\ todo' = Tail(todo) /\ UNCHANGED <<main, crashed>>
    <3>1. failures' \in Nat /\ failures' <= MaxFailures /\ failures' >= failures
      BY <1>0, <2>7, PortFacts DEF Works, Fails, NamesOK
    <3>2. NamesOK'
      BY <1>0, <1>1, <2>2, <2>7, <3>1 DEF NamesOK
    <3>3. OwnersOK'
      BY <1>0, <1>1, <2>7 DEF OwnersOK, Owner, NamesOK
    <3>4. /\ \A d \in Linked : link'[d] = "live" \/ d \in ToSet(todo')
          /\ ToSet(todo') \cap Inputs \subseteq Linked
      BY <1>0, <2>1, <2>2, <2>7 DEF ConnectingOK, NamesOK, Linked, Inputs
    <3>5. ConnectingOK'
      BY <1>0, <1>1, <2>1, <2>7, <3>1, <3>4 DEF ConnectingOK, Needed, Linked, NamesOK
    <3> QED
      BY <1>1, <2>1, <2>7, <3>2, <3>3, <3>5 DEF LifeOK, CreatingOK, AddedOK, EndingOK
  <2> QED
    BY <2>3, <2>4, <2>5, <2>6, <2>7
<1> QED
  BY <1>2, <1>3, <1>4

LEMMA AddingKeepsLife ==
  ASSUME LifeOK, SupplyOK, CreateOverlay \/ AddCallback \/ Start
  PROVE  LifeOK'
<1>0. NamesOK /\ OwnersOK /\ ConnectingOK /\ AddedOK /\ EndingOK /\ AddingOK
  BY DEF LifeOK, SupplyOK
<1>1. /\ main = "callbacks" /\ ~crashed
      /\ UNCHANGED <<preview, link, frame, now>>
  BY DEF CreateOverlay, AddCallback, Start, At, options, pipeline, motion, bounds
<1>2. Core \subseteq made
  BY <1>0, <1>1 DEF ConnectingOK, Needed
<1>3. \/ todo = <<"raw", "overlay", "vectors">> \/ todo = <<"overlay", "vectors">>
      \/ todo = <<"vectors">> \/ todo = <<>>
  BY <1>0, <1>1 DEF AddingOK
<1>4. /\ <<"overlay", "vectors">> \in Seq(Names) /\ <<"vectors">> \in Seq(Names)
      /\ <<>> \in Seq(Names)
  BY DEF Names
<1>5. CASE CreateOverlay
  <2>1. /\ todo = <<"overlay", "vectors">> /\ todo' = <<"vectors">> /\ main' = main
    BY <1>3, <1>5, AdditionFacts DEF CreateOverlay
  <2>2. \/ Fails /\ UNCHANGED <<made, enabled, pools>>
        \/ /\ Works /\ made' = made \cup {"overlay"} /\ UNCHANGED crashed
           /\ enabled' = enabled \cup {"overlay"} /\ pools' = pools \cup {"overlay"}
        \/ ~preview /\ UNCHANGED <<made, enabled, pools, failures, crashed>>
    BY <1>5 DEF CreateOverlay, Fault, port
  <2>3. /\ failures' \in Nat /\ failures' <= MaxFailures /\ failures' >= failures
    BY <1>0, <2>2, PortFacts DEF Works, Fails, NamesOK
  <2>4. NamesOK'
    BY <1>0, <1>1, <1>4, <2>1, <2>2, <2>3 DEF NamesOK, Components
  <2>5. OwnersOK'
    BY <1>0, <1>1, <1>2, <2>2 DEF OwnersOK, Owner, Core
  <2>6. ConnectingOK'
    BY <1>0, <1>1, <2>1, <2>2, <2>3 DEF ConnectingOK, Needed, Linked, NamesOK
  <2>7. AddedOK'
    <3>1. CASE failures' = 0
      <4>1. "raw" \in enabled \cap pools
        BY <1>0, <1>1, <2>1, <2>3, <3>1, AdditionFacts DEF AddedOK, NamesOK
      <4>2. preview => "overlay" \in made'
        BY <1>0, <2>2, <3>1 DEF Fails, NamesOK
      <4> QED
        BY <1>1, <2>1, <2>2, <4>1, <4>2 DEF AddedOK
    <3> QED
      BY <1>1, <2>1, <3>1 DEF AddedOK
  <2>8. EndingOK'
    BY <1>0, <1>1, <2>1, <2>2 DEF EndingOK, Fails, NamesOK
  <2> QED
    BY <1>1, <2>1, <2>4, <2>5, <2>6, <2>7, <2>8 DEF LifeOK, CreatingOK
<1>6. CASE AddCallback
  <2> DEFINE h == Head(todo)
  <2>1. /\ main' = main /\ UNCHANGED <<made, crashed>>
        /\ \/ h = "raw" /\ todo = <<"raw", "overlay", "vectors">> /\ todo' = <<"overlay", "vectors">>
           \/ h = "vectors" /\ todo = <<"vectors">> /\ todo' = <<>>
    BY <1>3, <1>6, AdditionFacts, PortFacts DEF AddCallback, pipeline
  <2>2. \/ Fails /\ UNCHANGED <<enabled, pools>>
        \/ Fails /\ enabled' = enabled \cup {h} /\ UNCHANGED pools
        \/ (Works \/ Fails) /\ enabled' = enabled \cup {h} /\ pools' = pools \cup {h}
    BY <1>6 DEF AddCallback, port
  <2> HIDE DEF h
  <2>3. /\ failures' \in Nat /\ failures' <= MaxFailures /\ failures' >= failures
    BY <1>0, <2>2, PortFacts DEF Works, Fails, NamesOK
  <2>4. NamesOK'
    BY <1>0, <1>1, <1>4, <2>1, <2>3 DEF NamesOK
  <2>5. OwnersOK'
    BY <1>0, <1>1, <1>2, <2>1, <2>2 DEF OwnersOK, Owner, Core
  <2>6. ConnectingOK'
    BY <1>0, <1>1, <2>1, <2>3 DEF ConnectingOK, Needed, Linked, NamesOK
  <2>7. AddedOK'
    <3>1. CASE failures' = 0
      <4>1. /\ failures = 0 /\ enabled' = enabled \cup {h} /\ pools' = pools \cup {h}
        BY <1>0, <2>2, <2>3, <3>1 DEF Fails, NamesOK
      <4>2. CASE todo = <<"vectors">>
        <5>1. "raw" \in enabled \cap pools /\ (preview => "overlay" \in made)
          BY <1>0, <1>1, <4>1, <4>2, AdditionFacts DEF AddedOK
        <5> QED
          BY <1>1, <2>1, <4>1, <4>2, <5>1, AdditionFacts, PortFacts DEF AddedOK
      <4>3. CASE todo # <<"vectors">>
        BY <1>1, <2>1, <4>1, <4>3 DEF AddedOK
      <4> QED
        BY <4>2, <4>3
    <3> QED
      BY <1>1, <2>1, <3>1 DEF AddedOK
  <2>8. EndingOK'
    BY <1>1, <2>1 DEF EndingOK
  <2> QED
    BY <1>1, <2>1, <2>4, <2>5, <2>6, <2>7, <2>8 DEF LifeOK, CreatingOK
<1>7. CASE Start
  <2>1. /\ todo = <<>> /\ UNCHANGED <<made, enabled, pools, crashed>>
        /\ \/ Works /\ main' = "running" /\ UNCHANGED todo
           \/ Fails /\ GiveUp
    BY <1>7 DEF Start, pipeline, port
  <2>2. OwnersOK'
    BY <1>0, <1>1, <2>1 DEF OwnersOK, Owner
  <2>3. CASE Works /\ main' = "running" /\ UNCHANGED todo
    <3>1. UNCHANGED failures
      BY <2>3 DEF Works
    <3>2. NamesOK' /\ ConnectingOK'
      BY <1>0, <1>1, <2>1, <2>3, <3>1 DEF NamesOK, Stages, ConnectingOK, Needed, Linked
    <3>3. AddedOK'
      BY <1>0, <1>1, <2>1, <2>3, <3>1 DEF AddedOK
    <3> QED
      BY <1>1, <2>1, <2>2, <2>3, <3>2, <3>3 DEF LifeOK, CreatingOK, EndingOK
  <2>4. CASE Fails /\ GiveUp
    <3>1. /\ main' = "unwind" /\ todo' = Destruction
          /\ failures' \in Nat /\ failures' > 0 /\ failures' <= MaxFailures
      BY <1>0, <2>4, PortFacts DEF GiveUp, Fails, NamesOK
    <3>2. NamesOK'
      BY <1>0, <1>1, <2>1, <3>1, ListFacts DEF NamesOK, Stages
    <3>3. EndingOK'
      BY <1>0, <1>1, <2>1, <3>1, EndingBegins
    <3> QED
      BY <2>2, <3>1, <3>2, <3>3 DEF LifeOK, CreatingOK, ConnectingOK, AddedOK
  <2> QED
    BY <2>1, <2>3, <2>4
<1> QED
  BY <1>5, <1>6, <1>7

(* Steps that neither build nor destroy anything.                          *)
SameLife == UNCHANGED <<preview, main, todo, made, link, enabled, pools>>

LEMMA SameLifeKeeps ==
  ASSUME LifeOK, SameLife,
         frame' = <<>> \/ Len(frame') = 1,
         now' \in Nat, now' <= MaxTime,
         failures' \in Nat, failures' <= MaxFailures, failures' >= failures,
         crashed' => crashed \/ failures' > 0 \/ main = "destroy"
  PROVE  LifeOK'
<1>0. NamesOK /\ OwnersOK /\ CreatingOK /\ ConnectingOK /\ AddedOK /\ EndingOK
  BY DEF LifeOK
<1>1. failures' = 0 => failures = 0
  BY <1>0 DEF NamesOK
<1>2. NamesOK'
  BY <1>0 DEF NamesOK, SameLife
<1>3. OwnersOK'
  BY <1>0 DEF OwnersOK, Owner, SameLife
<1>4. CreatingOK' /\ ConnectingOK'
  BY <1>0, <1>1 DEF CreatingOK, ConnectingOK, Needed, Linked, SameLife
<1>5. AddedOK'
  BY <1>0, <1>1 DEF AddedOK, SameLife
<1>6. EndingOK'
  BY <1>0 DEF EndingOK, NamesOK, SameLife
<1> QED
  BY <1>2, <1>3, <1>4, <1>5, <1>6 DEF LifeOK

LEMMA RunningKeepsLife ==
  ASSUME LifeOK,
         \/ PictureArrives \/ RawNext \/ VectorsArrive \/ VectorsNext
         \/ OverlayShown \/ GetFrame \/ Tick \/ UNCHANGED vars
  PROVE  LifeOK'
<1>0. NamesOK /\ AddedOK
  BY DEF LifeOK
<1> DEFINE ToRelease == Release("raw") \/ Release("vectors")
           ToSend == Send("raw") \/ Send("vectors") \/ SendOverlayBuffer
           Others == \/ PictureArrives \/ VectorsArrive \/ Cut
                     \/ PostProcess("raw") \/ PostProcess("vectors")
                     \/ OverlayShown \/ GetFrame \/ UNCHANGED vars
<1>1. CASE Others \/ ToRelease
  <2>1. SameLife /\ UNCHANGED <<now, failures, crashed>>
    BY <1>1 DEF PictureArrives, VectorsArrive, Deliver, Cut, PostProcess, OverlayShown, GetFrame,
                Release, vars, options, pipeline, port, bounds, SameLife
  <2>2. UNCHANGED frame \/ frame' = <<>>
    BY <1>1 DEF PictureArrives, VectorsArrive, Deliver, Cut, PostProcess, OverlayShown, GetFrame,
                Release, vars, motion
  <2> QED
    BY <1>0, <2>1, <2>2, SameLifeKeeps DEF NamesOK
<1>2. CASE ToSend
  <2>1. SameLife /\ UNCHANGED <<now, frame, crashed>> /\ (Works \/ Fails)
    BY <1>2 DEF Send, SendOverlayBuffer, options, pipeline, port, bounds, motion, SameLife
  <2>2. failures' \in Nat /\ failures' <= MaxFailures /\ failures' >= failures
    BY <1>0, <2>1, PortFacts DEF Works, Fails, NamesOK
  <2> QED
    BY <1>0, <2>1, <2>2, SameLifeKeeps DEF NamesOK
<1>3. CASE Look
  <2>1. SameLife /\ UNCHANGED <<now, failures, crashed>>
    BY <1>3 DEF Look, options, pipeline, port, bounds, SameLife
  <2>2. UNCHANGED frame \/ frame' = <<Head(staged)>>
    BY <1>3 DEF Look
  <2>3. Len(<<Head(staged)>>) = 1
    OBVIOUS
  <2> QED
    BY <1>0, <2>1, <2>2, <2>3, SameLifeKeeps DEF NamesOK
<1>4. CASE Tick
  <2>1. SameLife /\ UNCHANGED <<frame, failures, crashed>> /\ now < MaxTime /\ now' = now + 1
    BY <1>4 DEF Tick, options, pipeline, port, motion, SameLife
  <2> QED
    BY <1>0, <2>1, PortFacts, SameLifeKeeps DEF NamesOK
<1>5. CASE GetOverlayBuffer
  <2>1. SameLife /\ UNCHANGED <<frame, now, failures>>
    BY <1>5 DEF GetOverlayBuffer, options, pipeline, port, motion, bounds, SameLife
  <2>2. /\ main \in {"running", "destroy"} /\ preview
        /\ UNCHANGED crashed \/ "overlay" \notin made
    BY <1>5 DEF GetOverlayBuffer, Doing, Alive, NothingToDraw
  <2>3. crashed' => crashed \/ failures' > 0 \/ main = "destroy"
    <3>1. CASE main = "running" /\ "overlay" \notin made
      <4>1. failures # 0
        BY <1>0, <2>2, <3>1 DEF AddedOK
      <4> QED
        BY <1>0, <2>1, <4>1 DEF NamesOK
    <3> QED
      BY <2>2, <3>1
  <2> QED
    BY <1>0, <2>1, <2>3, SameLifeKeeps DEF NamesOK
<1> QED
  BY <1>1, <1>2, <1>3, <1>4, <1>5 DEF RawNext, VectorsNext

LEMMA DestructionKeepsLife ==
  ASSUME LifeOK, SupplyOK, Stop \/ DisablePort \/ DestroyComponent \/ Destroyed
  PROVE  LifeOK'
<1>0. /\ NamesOK /\ OwnersOK /\ EndingOK
      /\ enabled \subseteq Ports /\ pools \subseteq Ports
  BY DEF LifeOK, SupplyOK, CountsOK
<1>1. /\ ~crashed /\ UNCHANGED <<preview, frame, now, failures>>
      /\ main' \in {"unwind", "destroy", "gone"}
  BY DEF Stop, DisablePort, DestroyComponent, Destroyed, Destroying, At, options, motion, bounds
<1>2. CreatingOK' /\ ConnectingOK' /\ AddedOK'
  BY <1>1 DEF CreatingOK, ConnectingOK, AddedOK
<1>3. CASE Stop
  <2>1. /\ main' = "destroy" /\ todo' = Destruction
        /\ UNCHANGED <<made, link, enabled, pools, crashed>>
    BY <1>3 DEF Stop, pipeline, port
  <2>2. NamesOK'
    BY <1>0, <1>1, <2>1, ListFacts DEF NamesOK, Stages
  <2>3. OwnersOK'
    BY <1>0, <2>1 DEF OwnersOK, Owner
  <2>4. EndingOK'
    BY <1>0, <1>1, <2>1, EndingBegins
  <2> QED
    BY <1>2, <2>2, <2>3, <2>4 DEF LifeOK
<1>4. CASE DisablePort
  <2>1. /\ UNCHANGED <<main, todo, made, link, pools, crashed>>
        /\ enabled' \subseteq enabled
    BY <1>4 DEF DisablePort, pipeline
  <2>2. NamesOK'
    BY <1>0, <1>1, <2>1 DEF NamesOK
  <2>3. OwnersOK'
    BY <1>0, <2>1 DEF OwnersOK, Owner
  <2>4. EndingOK'
    BY <1>0, <1>1, <2>1 DEF EndingOK
  <2> QED
    BY <1>2, <2>2, <2>3, <2>4 DEF LifeOK
<1>5. CASE DestroyComponent
  <2> DEFINE c == Head(todo)
  <2>1. /\ main \in {"unwind", "destroy"} /\ main' = main
        /\ todo # <<>> /\ todo' = Tail(todo)
    BY <1>5 DEF DestroyComponent, Destroying
  <2>2. Tail(todo) \in Seq(Names) /\ ToSet(todo) = {c} \cup ToSet(Tail(todo))
    BY <1>0, <2>1, HeadAndTail DEF NamesOK
  <2>3. \/ c \notin made /\ UNCHANGED <<made, link, enabled, pools>>
        \/ /\ made' = made \ Gone(c)
           /\ link' = [k \in Inputs |-> IF k = c THEN "unset" ELSE link[k]]
           /\ enabled' = enabled \ PortsOf(c) /\ pools' = pools \ PortsOf(c)
    BY <1>5 DEF DestroyComponent, pipeline, port
  <2> HIDE DEF c
  <2>4. NamesOK'
    BY <1>0, <1>1, <2>1, <2>2, <2>3 DEF NamesOK
  <2>5. OwnersOK'
    <3>1. CASE UNCHANGED <<made, link, enabled, pools>>
      BY <1>0, <3>1 DEF OwnersOK, Owner
    <3>2. CASE /\ made' = made \ Gone(c)
               /\ link' = [k \in Inputs |-> IF k = c THEN "unset" ELSE link[k]]
               /\ enabled' = enabled \ PortsOf(c) /\ pools' = pools \ PortsOf(c)
      <4>1. "overlay" \in made' => "encoder" \in made'
        BY <1>0, <3>2 DEF OwnersOK, Gone
      <4>2. ASSUME NEW p \in (enabled \cup pools)' PROVE Owner(p) \in made'
        <5>1. p \in enabled \cup pools /\ p \notin PortsOf(c)
          BY <3>2, <4>2
        <5>2. Owner(p) \in made
          BY <1>0, <5>1 DEF OwnersOK
        <5>3. p \in {"vectors", "raw", "overlay"}
          BY <1>0, <5>1, PortFacts
        <5>4. Owner(p) \notin Gone(c)
          BY <5>1, <5>3 DEF Owner, Gone, PortsOf, CallbackPort
        <5> QED
          BY <3>2, <5>2, <5>4
      <4>3. ASSUME NEW k \in Inputs, link'[k] = "live" PROVE k \in made'
        <5>1. k # c /\ link[k] = "live"
          BY <3>2, <4>3
        <5>2. k \in made /\ k # "overlay"
          BY <1>0, <5>1 DEF OwnersOK, Inputs
        <5> QED
          BY <3>2, <5>1, <5>2 DEF Gone
      <4> QED
        BY <4>1, <4>2, <4>3 DEF OwnersOK, Owner
    <3> QED
      BY <2>3, <3>1, <3>2
  <2>6. EndingOK'
    <3>1. made' \subseteq ToSet(todo') \cup {"overlay"}
      BY <1>0, <2>1, <2>2, <2>3 DEF EndingOK, Gone
    <3> QED
      BY <1>0, <1>1, <2>1, <3>1 DEF EndingOK, NamesOK
  <2> QED
    BY <1>2, <2>4, <2>5, <2>6 DEF LifeOK
<1>6. CASE Destroyed
  <2>1. /\ main \in {"unwind", "destroy"} /\ main' = "gone" /\ todo = <<>>
        /\ UNCHANGED <<todo, made, link, enabled, pools, crashed>>
    BY <1>6 DEF Destroyed, Destroying, pipeline, port
  <2>2. NamesOK'
    BY <1>0, <1>1, <2>1 DEF NamesOK, Stages
  <2>3. OwnersOK'
    BY <1>0, <2>1 DEF OwnersOK, Owner
  <2>4. made = {}
    BY <1>0, <2>1, EmptyToSet DEF EndingOK, OwnersOK
  <2>5. EndingOK'
    BY <1>1, <2>1, <2>4 DEF EndingOK
  <2> QED
    BY <1>2, <2>2, <2>3, <2>5 DEF LifeOK
<1> QED
  BY <1>3, <1>4, <1>5, <1>6

LEMMA LifeStays == LifeOK /\ SupplyOK /\ [Next]_vars => LifeOK'
<1> SUFFICES ASSUME LifeOK, SupplyOK, [Next]_vars PROVE LifeOK'
  OBVIOUS
<1>1. CASE CreateComponent
  BY <1>1, CreatingKeepsLife
<1>2. CASE CreateDone \/ ConnectComponent \/ ConnectDone
  BY <1>2, ConnectingKeepsLife
<1>3. CASE CreateOverlay \/ AddCallback \/ Start
  BY <1>3, AddingKeepsLife
<1>4. CASE Stop \/ DisablePort \/ DestroyComponent \/ Destroyed
  BY <1>4, DestructionKeepsLife
<1>5. CASE \/ PictureArrives \/ RawNext \/ VectorsArrive \/ VectorsNext
           \/ OverlayShown \/ GetFrame \/ Tick \/ UNCHANGED vars
  BY <1>5, RunningKeepsLife
<1> QED
  BY <1>1, <1>2, <1>3, <1>4, <1>5 DEF Next, MainNext

LEMMA LifeInvariant == Spec => []LifeOK
BY LifeStarts, LifeStays, SupplyInvariant, PTL DEF Spec

(* The camera has crashed or has not: each step says so plainly.           *)
LEMMA CrashedIsBoolean == Spec => [](crashed \in BOOLEAN)
<1>1. Init => crashed \in BOOLEAN
  BY DEF Init
<1>2. crashed \in BOOLEAN /\ [Next]_vars => (crashed \in BOOLEAN)'
  <2> SUFFICES ASSUME crashed \in BOOLEAN, [Next]_vars PROVE crashed' \in BOOLEAN
    OBVIOUS
  <2>1. \/ UNCHANGED crashed \/ crashed' = TRUE
        \/ \E c, n : crashed' \in {FALSE, Calls(c)[n].name = "create"}
        \/ \E n : crashed' \in {FALSE, OverlayInit[n].name = "create"}
        \/ \E c : crashed' \in {FALSE, HasBadPointer(c)}
    BY Zenon DEF Next, MainNext, RawNext, VectorsNext, CreateComponent, CreateDone, ConnectComponent,
           ConnectDone, CreateOverlay, AddCallback, Start, Stop, DisablePort, DestroyComponent,
           Destroyed, PictureArrives, VectorsArrive, Deliver, Look, Cut, Release, Send,
           PostProcess, GetOverlayBuffer, SendOverlayBuffer, OverlayShown, GetFrame, Tick,
           Fault, vars
  <2>2. \A c, n : (Calls(c)[n].name = "create") \in BOOLEAN
    OBVIOUS
  <2>3. \A n : (OverlayInit[n].name = "create") \in BOOLEAN
    OBVIOUS
  <2>4. \A c : HasBadPointer(c) \in BOOLEAN
    BY DEF HasBadPointer
  <2>5. CASE UNCHANGED crashed \/ crashed' = TRUE
    BY <2>5, Zenon
  <2>6. CASE \E c, n : crashed' \in {FALSE, Calls(c)[n].name = "create"}
    BY <2>2, <2>6, Zenon
  <2>7. CASE \E n : crashed' \in {FALSE, OverlayInit[n].name = "create"}
    BY <2>3, <2>7, Zenon
  <2>8. CASE \E c : crashed' \in {FALSE, HasBadPointer(c)}
    BY <2>4, <2>8, Zenon
  <2> QED
    BY <2>1, <2>5, <2>6, <2>7, <2>8
<1> QED
  BY <1>1, <1>2, PTL DEF Spec

(* RPiMotionCam.cpp:33-177, RaspiPort.cpp, RaspiComponent.cpp, for any     *)
(* number of buffers, failures and pictures: a camera that runs is whole,  *)
(* does not crash unless a call failed or it is being destroyed, and leaves*)
(* nothing behind.                                                         *)
THEOREM CameraIsBuiltAndTakenApart == Spec => []LifeCycleOK
<1>1. LifeOK /\ SupplyOK /\ crashed \in BOOLEAN => LifeCycleOK
  <2> SUFFICES ASSUME LifeOK, SupplyOK, crashed \in BOOLEAN PROVE LifeCycleOK
    OBVIOUS
  <2>0. /\ NamesOK /\ OwnersOK /\ ConnectingOK /\ AddedOK /\ EndingOK
        /\ CountsOK /\ \A p \in Ports : PortOK(p)
    BY DEF LifeOK, SupplyOK
  <2>1. TypeOK
    <3>1. \A p \in Ports : /\ free[p] \in 0 .. PoolSize /\ sent[p] \in 0 .. PoolSize
                           /\ lent[p] \in 0 .. PoolSize /\ lost[p] \in 0 .. PoolSize
      BY <2>0, PortFacts DEF CountsOK, PortOK
    <3>2. {free, sent, lent, lost} \subseteq [Ports -> 0 .. PoolSize]
      BY <2>0, <3>1 DEF CountsOK
    <3> QED
      BY <2>0, <3>2 DEF TypeOK, NamesOK, CountsOK, Stages, Places
  <2>2. NothingLeft
    BY <2>0 DEF EndingOK, OwnersOK, NothingLeft
  <2>3. CrashesNeedAFailure
    BY <2>0 DEF EndingOK, CrashesNeedAFailure
  <2>4. RunsComplete
    <3> SUFFICES ASSUME main = "running"
                 PROVE  /\ \A i \in DOMAIN Connection :
                             Connection[i] \in Inputs => link[Connection[i]] = "live"
                        /\ {"camera", "resizer", "encoder", "splitter"} \subseteq made
                        /\ failures = 0 => /\ CallbackPorts \subseteq enabled \cap pools
                                          /\ (preview => "overlay" \in made)
      BY DEF RunsComplete
    <3>1. ASSUME NEW i \in DOMAIN Connection, Connection[i] \in Inputs
          PROVE  link[Connection[i]] = "live"
      <4>1. Connection[i] \in Linked
        BY <3>1, ListFacts DEF ToSet
      <4> QED
        BY <2>0, <4>1 DEF ConnectingOK
    <3>2. {"camera", "resizer", "encoder", "splitter"} \subseteq made
      BY <2>0 DEF ConnectingOK, Needed, Core
    <3>3. failures = 0 => /\ CallbackPorts \subseteq enabled \cap pools
                          /\ (preview => "overlay" \in made)
      BY <2>0 DEF AddedOK
    <3> QED
      BY <3>1, <3>2, <3>3
  <2> QED
    BY <2>1, <2>2, <2>3, <2>4 DEF LifeCycleOK
<1> QED
  BY <1>1, LifeInvariant, SupplyInvariant, CrashedIsBoolean, PTL

-----------------------------------------------------------------------------
(* The way of the regions, from the motion thread to the consumer: what the*)
(* consumer took comes before what is ready, that before what is being cut,*)
(* that before what is staged, and all of it has been shown.               *)

IsSeq(s) == \E S : s \in Seq(S)
Rising(s) == \A i, j \in DOMAIN s : i < j => s[i] < s[j]
Before(s, t) == \A i \in DOMAIN s, j \in DOMAIN t : s[i] < t[j]
UpTo(s, n) == \A i \in DOMAIN s : s[i] <= n

Ordered(c, r, f, s, n) ==
  /\ Rising(c) /\ Rising(r) /\ Rising(f) /\ Rising(s)
  /\ Before(c, r) /\ Before(c, f) /\ Before(c, s)
  /\ Before(r, f) /\ Before(r, s) /\ Before(f, s)
  /\ UpTo(c, n) /\ UpTo(r, n) /\ UpTo(f, n) /\ UpTo(s, n)

LEMMA ConcatRises ==
  ASSUME NEW s \in Seq(Nat), NEW t \in Seq(Nat)
  PROVE  /\ s \o t \in Seq(Nat)
         /\ Rising(s \o t) <=> Rising(s) /\ Rising(t) /\ Before(s, t)
<1>1. /\ s \o t \in Seq(Nat) /\ Len(s \o t) = Len(s) + Len(t)
      /\ \A i \in 1 .. Len(s) : (s \o t)[i] = s[i]
      /\ \A i \in 1 .. Len(t) : (s \o t)[Len(s) + i] = t[i]
      /\ Len(s) \in Nat /\ Len(t) \in Nat
  OBVIOUS
<1>2. /\ DOMAIN s = 1 .. Len(s) /\ DOMAIN t = 1 .. Len(t)
      /\ DOMAIN (s \o t) = 1 .. Len(s) + Len(t)
  BY <1>1
<1> DEFINE u == s \o t
<1>3. /\ DOMAIN u = 1 .. Len(s) + Len(t)
      /\ \A i \in 1 .. Len(s) : u[i] = s[i]
      /\ \A i \in 1 .. Len(t) : u[Len(s) + i] = t[i]
  BY <1>1, <1>2
<1> HIDE DEF u
<1>4. ASSUME Rising(u) PROVE Rising(s) /\ Rising(t) /\ Before(s, t)
  <2>1. Rising(s)
    BY <1>1, <1>2, <1>3, <1>4 DEF Rising
  <2>2. ASSUME NEW i \in DOMAIN t, NEW j \in DOMAIN t, i < j PROVE t[i] < t[j]
    <3>1. Len(s) + i \in DOMAIN u /\ Len(s) + j \in DOMAIN u /\ Len(s) + i < Len(s) + j
      BY <1>1, <1>2, <1>3, <2>2
    <3>2. u[Len(s) + i] < u[Len(s) + j]
      BY <1>4, <3>1 DEF Rising
    <3> QED
      BY <1>2, <1>3, <3>2
  <2>3. ASSUME NEW i \in DOMAIN s, NEW j \in DOMAIN t PROVE s[i] < t[j]
    <3>1. i \in DOMAIN u /\ Len(s) + j \in DOMAIN u /\ i < Len(s) + j
      BY <1>1, <1>2, <1>3
    <3>2. u[i] < u[Len(s) + j]
      BY <1>4, <3>1 DEF Rising
    <3> QED
      BY <1>2, <1>3, <3>2
  <2> QED
    BY <2>1, <2>2, <2>3 DEF Rising, Before
<1>5. ASSUME Rising(s), Rising(t), Before(s, t) PROVE Rising(u)
  <2>1. ASSUME NEW i \in DOMAIN u, NEW j \in DOMAIN u, i < j PROVE u[i] < u[j]
    <3>1. CASE j <= Len(s)
      <4>1. i \in DOMAIN s /\ j \in DOMAIN s
        BY <1>1, <1>2, <1>3, <2>1, <3>1
      <4> QED
        BY <1>2, <1>3, <1>5, <2>1, <4>1 DEF Rising
    <3>2. CASE i > Len(s)
      <4>1. PICK k \in DOMAIN t, l \in DOMAIN t : i = Len(s) + k /\ j = Len(s) + l
        <5>1. /\ i - Len(s) \in DOMAIN t /\ i = Len(s) + (i - Len(s))
              /\ j - Len(s) \in DOMAIN t /\ j = Len(s) + (j - Len(s))
          BY <1>1, <1>2, <1>3, <2>1, <3>2
        <5> QED
          BY <5>1
      <4>2. u[i] = t[k] /\ u[j] = t[l] /\ k < l
        BY <1>1, <1>2, <1>3, <2>1, <4>1
      <4> QED
        BY <1>5, <4>2 DEF Rising
    <3>3. CASE i <= Len(s) /\ j > Len(s)
      <4>1. PICK l \in DOMAIN t : j = Len(s) + l
        <5>1. j - Len(s) \in DOMAIN t /\ j = Len(s) + (j - Len(s))
          BY <1>1, <1>2, <1>3, <3>3
        <5> QED
          BY <5>1
      <4>2. i \in DOMAIN s /\ u[i] = s[i] /\ u[j] = t[l]
        BY <1>1, <1>2, <1>3, <3>3, <4>1
      <4> QED
        BY <1>5, <4>2 DEF Before
    <3> QED
      BY <1>1, <1>3, <2>1, <3>1, <3>2, <3>3
  <2> QED
    BY <2>1 DEF Rising
<1> QED
  BY <1>1, <1>4, <1>5 DEF u

(* What is in a concatenation is in one of its parts.                      *)
LEMMA ConcatElements ==
  ASSUME NEW s \in Seq(Nat), NEW t \in Seq(Nat), NEW i \in DOMAIN (s \o t)
  PROVE  \/ \E j \in DOMAIN s : (s \o t)[i] = s[j]
         \/ \E j \in DOMAIN t : (s \o t)[i] = t[j]
<1>1. /\ DOMAIN s = 1 .. Len(s) /\ DOMAIN t = 1 .. Len(t)
      /\ i \in 1 .. Len(s) + Len(t) /\ Len(s) \in Nat /\ Len(t) \in Nat
  OBVIOUS
<1>2. CASE i <= Len(s)
  <2>1. i \in DOMAIN s /\ (s \o t)[i] = s[i]
    BY <1>1, <1>2
  <2> QED
    BY <2>1
<1>3. CASE i > Len(s)
  <2>1. i - Len(s) \in DOMAIN t /\ (s \o t)[i] = t[i - Len(s)]
    BY <1>1, <1>3
  <2> QED
    BY <2>1
<1> QED
  BY <1>1, <1>2, <1>3

LEMMA ConcatStaysBetween ==
  ASSUME NEW s \in Seq(Nat), NEW t \in Seq(Nat), NEW u \in Seq(Nat), NEW n \in Nat
  PROVE  /\ Before(s, u) /\ Before(t, u) => Before(s \o t, u)
         /\ Before(u, s) /\ Before(u, t) => Before(u, s \o t)
         /\ UpTo(s, n) /\ UpTo(t, n) => UpTo(s \o t, n)
<1>1. ASSUME Before(s, u), Before(t, u), NEW i \in DOMAIN (s \o t), NEW j \in DOMAIN u
      PROVE  (s \o t)[i] < u[j]
  <2>1. CASE \E k \in DOMAIN s : (s \o t)[i] = s[k]
    BY <1>1, <2>1 DEF Before
  <2>2. CASE \E k \in DOMAIN t : (s \o t)[i] = t[k]
    BY <1>1, <2>2 DEF Before
  <2> QED
    BY <2>1, <2>2, ConcatElements
<1>2. ASSUME Before(u, s), Before(u, t), NEW i \in DOMAIN u, NEW j \in DOMAIN (s \o t)
      PROVE  u[i] < (s \o t)[j]
  <2>1. CASE \E k \in DOMAIN s : (s \o t)[j] = s[k]
    BY <1>2, <2>1 DEF Before
  <2>2. CASE \E k \in DOMAIN t : (s \o t)[j] = t[k]
    BY <1>2, <2>2 DEF Before
  <2> QED
    BY <2>1, <2>2, ConcatElements
<1>3. ASSUME UpTo(s, n), UpTo(t, n), NEW i \in DOMAIN (s \o t)
      PROVE  (s \o t)[i] <= n
  <2>1. CASE \E k \in DOMAIN s : (s \o t)[i] = s[k]
    BY <1>3, <2>1 DEF UpTo
  <2>2. CASE \E k \in DOMAIN t : (s \o t)[i] = t[k]
    BY <1>3, <2>2 DEF UpTo
  <2> QED
    BY <2>1, <2>2, ConcatElements
<1>4. Before(s, u) /\ Before(t, u) => Before(s \o t, u)
  BY <1>1 DEF Before
<1>5. Before(u, s) /\ Before(u, t) => Before(u, s \o t)
  BY <1>2 DEF Before
<1>6. UpTo(s, n) /\ UpTo(t, n) => UpTo(s \o t, n)
  BY <1>3 DEF UpTo
<1> QED
  BY <1>4, <1>5, <1>6

LEMMA OrderedRises ==
  ASSUME NEW c \in Seq(Nat), NEW r \in Seq(Nat), NEW f \in Seq(Nat), NEW s \in Seq(Nat),
         NEW n \in Nat, Ordered(c, r, f, s, n)
  PROVE  Rising(c \o r \o f \o s)
<1>1. c \o r \in Seq(Nat) /\ Rising(c \o r)
  BY ConcatRises DEF Ordered
<1>2. Before(c \o r, f) /\ Before(c \o r, s)
  BY ConcatStaysBetween DEF Ordered
<1>3. (c \o r) \o f \in Seq(Nat) /\ Rising((c \o r) \o f)
  BY <1>1, <1>2, ConcatRises DEF Ordered
<1>4. Before((c \o r) \o f, s)
  BY <1>1, <1>2, ConcatStaysBetween DEF Ordered
<1> QED
  BY <1>3, <1>4, ConcatRises DEF Ordered

(* The head of a rising sequence comes before its tail.                    *)
LEMMA HeadIsFirst ==
  ASSUME NEW s \in Seq(Nat), s # <<>>, Rising(s)
  PROVE  /\ Tail(s) \in Seq(Nat) /\ Rising(Tail(s))
         /\ Head(s) \in Nat /\ <<Head(s)>> \in Seq(Nat) /\ Rising(<<Head(s)>>)
         /\ Before(<<Head(s)>>, Tail(s))
         /\ s = <<Head(s)>> \o Tail(s)
<1>1. /\ Len(s) \in Nat /\ Len(s) > 0 /\ DOMAIN s = 1 .. Len(s)
      /\ Tail(s) \in Seq(Nat) /\ DOMAIN Tail(s) = 1 .. Len(s) - 1
      /\ \A i \in 1 .. Len(s) - 1 : Tail(s)[i] = s[i + 1]
      /\ Head(s) = s[1] /\ Head(s) \in Nat /\ <<Head(s)>> \in Seq(Nat)
  OBVIOUS
<1>2. s = <<Head(s)>> \o Tail(s)
  <2>1. /\ <<Head(s)>> \o Tail(s) \in Seq(Nat) /\ Len(<<Head(s)>> \o Tail(s)) = Len(s)
        /\ \A i \in 1 .. Len(s) : (<<Head(s)>> \o Tail(s))[i] = s[i]
    BY <1>1
  <2> QED
    BY <2>1
<1> QED
  BY <1>1, <1>2, ConcatRises

(* How the pictures move on.                                               *)
LEMMA OrderMoves ==
  ASSUME NEW c \in Seq(Nat), NEW r \in Seq(Nat), NEW f \in Seq(Nat), NEW s \in Seq(Nat),
         NEW n \in Nat, Ordered(c, r, f, s, n)
  PROVE  /\ Ordered(c, r, f, s, n + 1)
         /\ Ordered(c, r, f, s \o <<n + 1>>, n + 1)
         /\ s # <<>> => Ordered(c, r, f, Tail(s), n)
         /\ s # <<>> => Ordered(c, r, <<Head(s)>>, Tail(s), n)
         /\ Ordered(c, r \o f, <<>>, s, n)
         /\ r # <<>> => Ordered(c \o <<Head(r)>>, Tail(r), f, s, n)
<1>1. ASSUME NEW u \in Seq(Nat), UpTo(u, n)
      PROVE  Before(u, <<n + 1>>) /\ UpTo(u, n + 1)
  BY <1>1 DEF Before, UpTo
<1>2. Ordered(c, r, f, s, n + 1)
  BY <1>1 DEF Ordered
<1>3. <<n + 1>> \in Seq(Nat) /\ Rising(<<n + 1>>) /\ UpTo(<<n + 1>>, n + 1)
  BY DEF Rising, UpTo
<1>4. Ordered(c, r, f, s \o <<n + 1>>, n + 1)
  <2> DEFINE e == <<n + 1>>
             m == n + 1
  <2>1. /\ e \in Seq(Nat) /\ Rising(e) /\ UpTo(e, m) /\ m \in Nat
        /\ Before(c, e) /\ Before(r, e) /\ Before(f, e) /\ Before(s, e)
        /\ Ordered(c, r, f, s, m)
    <3>1. UpTo(c, n) /\ UpTo(r, n) /\ UpTo(f, n) /\ UpTo(s, n)
      BY DEF Ordered
    <3>2. Before(c, e) /\ Before(r, e) /\ Before(f, e) /\ Before(s, e)
      BY <1>1, <3>1
    <3>3. e \in Seq(Nat) /\ Rising(e) /\ UpTo(e, m) /\ Ordered(c, r, f, s, m)
      BY <1>2, <1>3
    <3>4. m \in Nat
      OBVIOUS
    <3> QED
      BY <3>2, <3>3, <3>4
  <2> HIDE DEF e, m
  <2>2. /\ Rising(s \o e) /\ UpTo(s \o e, m)
        /\ Before(c, s \o e) /\ Before(r, s \o e) /\ Before(f, s \o e)
    BY <2>1, ConcatRises, ConcatStaysBetween DEF Ordered
  <2>3. Ordered(c, r, f, s \o e, m)
    BY <2>1, <2>2 DEF Ordered
  <2> QED
    BY <2>3 DEF e, m
<1>5. ASSUME NEW t \in Seq(Nat), t # <<>>, NEW u \in Seq(Nat)
      PROVE  /\ Before(u, t) => Before(u, <<Head(t)>>) /\ Before(u, Tail(t))
             /\ Before(t, u) => Before(<<Head(t)>>, u) /\ Before(Tail(t), u)
             /\ UpTo(t, n) => UpTo(<<Head(t)>>, n) /\ UpTo(Tail(t), n)
  <2>1. /\ DOMAIN t = 1 .. Len(t) /\ Len(t) \in Nat /\ Len(t) > 0
        /\ DOMAIN Tail(t) = 1 .. Len(t) - 1
        /\ \A i \in 1 .. Len(t) - 1 : Tail(t)[i] = t[i + 1]
        /\ DOMAIN <<Head(t)>> = {1} /\ <<Head(t)>>[1] = t[1]
    BY <1>5
  <2> DEFINE h == <<Head(t)>>
             l == Tail(t)
  <2>2. /\ \A i \in DOMAIN h : \E j \in DOMAIN t : h[i] = t[j]
        /\ \A i \in DOMAIN l : \E j \in DOMAIN t : l[i] = t[j]
    <3>1. 1 \in DOMAIN t /\ \A i \in DOMAIN h : h[i] = t[1]
      BY <2>1
    <3>2. \A i \in DOMAIN l : i + 1 \in DOMAIN t /\ l[i] = t[i + 1]
      BY <2>1
    <3> QED
      BY <3>1, <3>2
  <2> HIDE DEF h, l
  <2>3. /\ Before(u, t) => Before(u, h) /\ Before(u, l)
        /\ Before(t, u) => Before(h, u) /\ Before(l, u)
        /\ UpTo(t, n) => UpTo(h, n) /\ UpTo(l, n)
    BY <2>2 DEF Before, UpTo
  <2> QED
    BY <2>3 DEF h, l
<1>6. s # <<>> => Ordered(c, r, f, Tail(s), n)
  BY <1>5, HeadIsFirst DEF Ordered
<1>7. s # <<>> => Ordered(c, r, <<Head(s)>>, Tail(s), n)
  BY <1>5, HeadIsFirst DEF Ordered
<1>8. Ordered(c, r \o f, <<>>, s, n)
  <2>1. ASSUME NEW u PROVE Rising(<<>>) /\ Before(u, <<>>) /\ Before(<<>>, u) /\ UpTo(<<>>, n)
    BY DEF Rising, Before, UpTo
  <2> QED
    BY <2>1, ConcatRises, ConcatStaysBetween DEF Ordered
<1>9. r # <<>> => Ordered(c \o <<Head(r)>>, Tail(r), f, s, n)
  BY <1>5, HeadIsFirst, ConcatRises, ConcatStaysBetween DEF Ordered
<1> QED
  BY <1>2, <1>4, <1>6, <1>7, <1>8, <1>9

LEMMA SeqsMeet ==
  ASSUME NEW S, NEW T, NEW s \in Seq(S), NEW t \in Seq(T)
  PROVE  s \in Seq(S \cup T) /\ t \in Seq(S \cup T)
OBVIOUS

LEMMA SameSequence ==
  ASSUME NEW m \in Nat, NEW v \in Seq(Nat), DOMAIN v = 1 .. m,
         NEW w, w = [i \in 1 .. m |-> w[i]], \A i \in 1 .. m : v[i] = w[i]
  PROVE  v = w
<1>1. v = [i \in 1 .. m |-> v[i]]
  <2>1. v \in [1 .. m -> Nat]
    <3>1. Len(v) = m
      OBVIOUS
    <3> QED
      BY <3>1, LenProperties
  <2> QED
    BY <2>1
<1> QED
  BY <1>1

LEMMA NumbersTail ==
  ASSUME NEW s, IsSeq(s), s # <<>>, Numbers(s) \in Seq(Nat)
  PROVE  /\ Numbers(s) # <<>> /\ IsSeq(Tail(s)) /\ IsSeq(<<Head(s)>>)
         /\ Numbers(Tail(s)) = Tail(Numbers(s))
         /\ Head(s).n = Head(Numbers(s)) /\ Numbers(<<Head(s)>>) = <<Head(Numbers(s))>>
<1>1. PICK S : s \in Seq(S)
  BY DEF IsSeq
<1>2. /\ Len(s) \in Nat /\ Len(s) > 0 /\ DOMAIN s = 1 .. Len(s) /\ Head(s) = s[1]
      /\ Tail(s) \in Seq(S) /\ DOMAIN Tail(s) = 1 .. Len(s) - 1
      /\ \A i \in 1 .. Len(s) - 1 : Tail(s)[i] = s[i + 1]
      /\ <<Head(s)>> \in Seq(S)
  BY <1>1
<1> DEFINE u == Numbers(s)
<1>3. DOMAIN u = 1 .. Len(s) /\ \A i \in 1 .. Len(s) : u[i] = s[i].n
  BY <1>2 DEF Numbers
<1>4. /\ Len(u) = Len(s) /\ u # <<>> /\ Head(u) = u[1]
      /\ Tail(u) \in Seq(Nat) /\ DOMAIN Tail(u) = 1 .. Len(s) - 1
      /\ \A i \in 1 .. Len(s) - 1 : Tail(u)[i] = u[i + 1]
  <2> HIDE DEF u
  <2>1. u \in Seq(Nat)
    BY DEF u
  <2>2. Len(u) = Len(s) /\ u # <<>>
    BY <1>2, <1>3, <2>1
  <2> QED
    BY <1>2, <2>1, <2>2
<1>5. Numbers(Tail(s)) = Tail(u)
  <2>1. /\ DOMAIN Numbers(Tail(s)) = 1 .. Len(s) - 1
        /\ \A i \in 1 .. Len(s) - 1 : Numbers(Tail(s))[i] = Tail(s)[i].n
        /\ Numbers(Tail(s)) = [i \in 1 .. Len(s) - 1 |-> Tail(s)[i].n]
    BY <1>2 DEF Numbers
  <2>2. \A i \in 1 .. Len(s) - 1 : Tail(u)[i] = Tail(s)[i].n
    BY <1>2, <1>3, <1>4
  <2> DEFINE v == Tail(u)
             w == Numbers(Tail(s))
             m == Len(s) - 1
  <2>3. /\ v \in Seq(Nat) /\ DOMAIN v = 1 .. m /\ m \in Nat
        /\ \A i \in 1 .. m : v[i] = w[i]
        /\ w = [i \in 1 .. m |-> w[i]]
    BY <1>2, <1>4, <2>1, <2>2
  <2> HIDE DEF u, v, w, m
  <2>4. v = w
    BY <2>3, SameSequence
  <2> QED
    BY <2>4 DEF v, w
<1>6. Head(s).n = Head(u) /\ Numbers(<<Head(s)>>) = <<Head(u)>>
  BY <1>2, <1>3, <1>4 DEF Numbers
<1>7. IsSeq(Tail(s)) /\ IsSeq(<<Head(s)>>)
  BY <1>2 DEF IsSeq
<1> QED
  BY <1>4, <1>5, <1>6, <1>7

LEMMA NumbersConcat ==
  ASSUME NEW s, NEW t, IsSeq(s), IsSeq(t), Numbers(s) \in Seq(Nat), Numbers(t) \in Seq(Nat)
  PROVE  IsSeq(s \o t) /\ Numbers(s \o t) = Numbers(s) \o Numbers(t)
<1>1. PICK S : s \in Seq(S) /\ t \in Seq(S)
  BY SeqsMeet DEF IsSeq
<1>2. /\ Len(s) \in Nat /\ DOMAIN s = 1 .. Len(s)
      /\ Len(t) \in Nat /\ DOMAIN t = 1 .. Len(t)
      /\ s \o t \in Seq(S) /\ DOMAIN (s \o t) = 1 .. Len(s) + Len(t)
      /\ \A i \in 1 .. Len(s) + Len(t) : (s \o t)[i] = IF i <= Len(s) THEN s[i] ELSE t[i - Len(s)]
  BY <1>1
<1> DEFINE u == Numbers(s)
           v == Numbers(t)
<1>3. /\ DOMAIN u = 1 .. Len(s) /\ \A i \in 1 .. Len(s) : u[i] = s[i].n
      /\ DOMAIN v = 1 .. Len(t) /\ \A i \in 1 .. Len(t) : v[i] = t[i].n
      /\ u \in Seq(Nat) /\ v \in Seq(Nat)
  BY <1>2 DEF Numbers
<1> HIDE DEF u, v
<1>4. Len(u) = Len(s) /\ Len(v) = Len(t)
  BY <1>2, <1>3
<1>5. /\ u \o v \in Seq(Nat) /\ DOMAIN (u \o v) = 1 .. Len(s) + Len(t)
      /\ \A i \in 1 .. Len(s) + Len(t) : (u \o v)[i] = IF i <= Len(s) THEN u[i] ELSE v[i - Len(s)]
  <2>1. /\ u \o v \in Seq(Nat) /\ DOMAIN (u \o v) = 1 .. Len(u) + Len(v)
        /\ \A i \in 1 .. Len(u) + Len(v) : (u \o v)[i] = IF i <= Len(u) THEN u[i] ELSE v[i - Len(u)]
    BY <1>3
  <2> QED
    BY <1>4, <2>1
<1>6. ASSUME NEW i \in 1 .. Len(s) + Len(t) PROVE (u \o v)[i] = (s \o t)[i].n
  <2>1. CASE i <= Len(s)
    <3>1. i \in 1 .. Len(s)
      BY <1>2, <2>1
    <3> QED
      BY <1>2, <1>3, <1>5, <2>1, <3>1
  <2>2. CASE ~(i <= Len(s))
    <3>1. i - Len(s) \in 1 .. Len(t)
      BY <1>2, <2>2
    <3> QED
      BY <1>2, <1>3, <1>5, <2>2, <3>1
  <2> QED
    BY <2>1, <2>2
<1>7. Numbers(s \o t) = [i \in 1 .. Len(s) + Len(t) |-> (s \o t)[i].n]
  BY <1>2 DEF Numbers
<1>8. Numbers(s \o t) = u \o v
  <2> DEFINE w == Numbers(s \o t)
             m == Len(s) + Len(t)
             x == u \o v
  <2>1. /\ x \in Seq(Nat) /\ DOMAIN x = 1 .. m /\ m \in Nat
        /\ \A i \in 1 .. m : x[i] = w[i]
        /\ w = [i \in 1 .. m |-> w[i]]
    BY <1>2, <1>5, <1>6, <1>7
  <2> HIDE DEF w, m, x
  <2>2. x = w
    BY <2>1, SameSequence
  <2> QED
    BY <2>2 DEF w, x
<1> QED
  BY <1>2, <1>8 DEF IsSeq, u, v

QueuesOK ==
  /\ IsSeq(ready) /\ IsSeq(frame) /\ IsSeq(staged)
  /\ consumed \in Seq(Nat) /\ Numbers(ready) \in Seq(Nat)
  /\ Numbers(frame) \in Seq(Nat) /\ Numbers(staged) \in Seq(Nat)
  /\ shown \in Nat
  /\ Ordered(consumed, Numbers(ready), Numbers(frame), Numbers(staged), shown)

LEMMA EmptyNumbers == IsSeq(<<>>) /\ Numbers(<<>>) = <<>>
BY DEF IsSeq, Numbers

LEMMA QueuesStart == Init => QueuesOK
<1> SUFFICES ASSUME Init PROVE QueuesOK
  OBVIOUS
<1>1. /\ ready = <<>> /\ frame = <<>> /\ staged = <<>> /\ consumed = <<>> /\ shown = 0
  BY DEF Init
<1>2. Ordered(<<>>, <<>>, <<>>, <<>>, 0)
  BY DEF Ordered, Rising, Before, UpTo
<1>3. /\ IsSeq(ready) /\ IsSeq(frame) /\ IsSeq(staged) /\ <<>> \in Seq(Nat) /\ 0 \in Nat
      /\ Numbers(ready) = <<>> /\ Numbers(frame) = <<>> /\ Numbers(staged) = <<>>
  BY <1>1, EmptyNumbers
<1>4. Ordered(consumed, Numbers(ready), Numbers(frame), Numbers(staged), shown)
  BY <1>1, <1>2, <1>3
<1> QED
  BY <1>1, <1>3, <1>4 DEF QueuesOK

LEMMA StagingKeepsQueues ==
  ASSUME QueuesOK, VectorsArrive
  PROVE  QueuesOK'
<1>1. UNCHANGED <<frame, ready, consumed>>
  BY DEF VectorsArrive
<1>2. \/ UNCHANGED <<shown, staged>>
      \/ shown' = shown + 1 /\ UNCHANGED staged
      \/ /\ shown' = shown + 1
         /\ staged' = Append(staged, [n |-> shown', at |-> now, regions |-> last'])
  BY DEF VectorsArrive
<1> DEFINE c == consumed
           r == Numbers(ready)
           f == Numbers(frame)
           s == Numbers(staged)
<1>3. /\ c \in Seq(Nat) /\ r \in Seq(Nat) /\ f \in Seq(Nat) /\ s \in Seq(Nat)
      /\ shown \in Nat /\ Ordered(c, r, f, s, shown)
  BY DEF QueuesOK
<1>4. /\ Ordered(c, r, f, s, shown + 1)
      /\ Ordered(c, r, f, s \o <<shown + 1>>, shown + 1)
  BY <1>3, OrderMoves
<1>5. CASE UNCHANGED <<shown, staged>>
  BY <1>1, <1>5 DEF QueuesOK, Numbers
<1>6. CASE shown' = shown + 1 /\ UNCHANGED staged
  BY <1>1, <1>4, <1>6 DEF QueuesOK, Numbers
<1>7. CASE /\ shown' = shown + 1
           /\ staged' = Append(staged, [n |-> shown', at |-> now, regions |-> last'])
  <2> DEFINE e == [n |-> shown + 1, at |-> now, regions |-> last']
  <2>1. PICK S : staged \in Seq(S)
    BY DEF QueuesOK, IsSeq
  <2>2. e.n = shown + 1
    OBVIOUS
  <2>3. staged' = Append(staged, e)
    BY <1>7
  <2> HIDE DEF e
  <2>4. staged' = staged \o <<e>> /\ IsSeq(<<e>>) /\ Numbers(<<e>>) = <<shown + 1>>
    <3>1. Append(staged, e) = staged \o <<e>>
      BY <2>1, SeqsMeet
    <3>2. <<e>> \in Seq({e})
      OBVIOUS
    <3>3. Numbers(<<e>>) = <<shown + 1>>
      BY <2>2 DEF Numbers
    <3> QED
      BY <2>3, <3>1, <3>2, <3>3 DEF IsSeq
  <2>5. <<shown + 1>> \in Seq(Nat)
    BY <1>3
  <2>6. IsSeq(staged') /\ Numbers(staged') = s \o <<shown + 1>>
    BY <1>3, <2>4, <2>5, NumbersConcat DEF QueuesOK
  <2>7. s \o <<shown + 1>> \in Seq(Nat)
    BY <1>3, <2>5
  <2>8. /\ IsSeq(ready') /\ IsSeq(frame') /\ consumed' = c
        /\ Numbers(ready') = r /\ Numbers(frame') = f
    <3>1. ready' = ready /\ frame' = frame /\ consumed' = consumed
      BY <1>1
    <3>2. IsSeq(ready) /\ IsSeq(frame)
      BY DEF QueuesOK
    <3>3. IsSeq(ready') /\ IsSeq(frame')
      BY <3>1, <3>2 DEF IsSeq
    <3>4. Numbers(ready') = Numbers(ready) /\ Numbers(frame') = Numbers(frame)
      BY <3>1, Zenon DEF Numbers
    <3> QED
      BY <3>1, <3>3, <3>4
  <2>9. shown' \in Nat /\ Numbers(staged') \in Seq(Nat)
    <3>1. shown' = shown + 1
      BY <1>7
    <3>2. shown + 1 \in Nat
      BY <1>3
    <3> QED
      BY <2>6, <2>7, <3>1, <3>2
  <2>10. Ordered(consumed', Numbers(ready'), Numbers(frame'), Numbers(staged'), shown')
    BY <1>4, <1>7, <2>6, <2>8
  <2>11. consumed' \in Seq(Nat) /\ Numbers(ready') \in Seq(Nat) /\ Numbers(frame') \in Seq(Nat)
    BY <1>3, <2>8
  <2> HIDE DEF c, r, f, s
  <2> QED
    BY <2>6, <2>8, <2>9, <2>10, <2>11 DEF QueuesOK, Numbers
<1> QED
  BY <1>2, <1>5, <1>6, <1>7

LEMMA CuttingKeepsQueues ==
  ASSUME QueuesOK, Look \/ Cut \/ GetFrame
  PROVE  QueuesOK'
<1> DEFINE c == consumed
           r == Numbers(ready)
           f == Numbers(frame)
           s == Numbers(staged)
<1>1. /\ c \in Seq(Nat) /\ r \in Seq(Nat) /\ f \in Seq(Nat) /\ s \in Seq(Nat)
      /\ shown \in Nat /\ Ordered(c, r, f, s, shown)
      /\ IsSeq(ready) /\ IsSeq(frame) /\ IsSeq(staged)
  BY DEF QueuesOK
<1>2. CASE Look
  <2>1. /\ UNCHANGED <<shown, ready, consumed>>
        /\ \/ UNCHANGED <<staged, frame>>
           \/ staged # <<>> /\ staged' = Tail(staged) /\ UNCHANGED frame
           \/ staged # <<>> /\ staged' = Tail(staged) /\ frame' = <<Head(staged)>>
    BY <1>2 DEF Look
  <2>2. CASE UNCHANGED <<staged, frame>>
    BY <2>1, <2>2 DEF QueuesOK, Numbers
  <2>3. CASE staged # <<>> /\ staged' = Tail(staged)
    <3>1. /\ s # <<>> /\ IsSeq(staged') /\ Numbers(staged') = Tail(s)
          /\ IsSeq(<<Head(staged)>>) /\ Numbers(<<Head(staged)>>) = <<Head(s)>>
      BY <1>1, <2>3, NumbersTail
    <3>2. /\ Ordered(c, r, f, Tail(s), shown)
          /\ Ordered(c, r, <<Head(s)>>, Tail(s), shown)
      BY <1>1, <3>1, OrderMoves
    <3>3. Tail(s) \in Seq(Nat) /\ <<Head(s)>> \in Seq(Nat)
      BY <1>1, <3>1, HeadIsFirst DEF Ordered
    <3>4. CASE UNCHANGED frame
      BY <1>1, <2>1, <3>1, <3>2, <3>3, <3>4 DEF QueuesOK, Numbers
    <3>5. CASE frame' = <<Head(staged)>>
      BY <1>1, <2>1, <3>1, <3>2, <3>3, <3>5 DEF QueuesOK, Numbers
    <3> QED
      BY <2>1, <3>4, <3>5
  <2> QED
    BY <2>1, <2>2, <2>3
<1>3. CASE Cut
  <2>1. UNCHANGED <<shown, staged, consumed>> /\ ready' = ready \o frame /\ frame' = <<>>
    BY <1>3 DEF Cut
  <2>2. IsSeq(ready') /\ Numbers(ready') = r \o f /\ r \o f \in Seq(Nat)
    BY <1>1, <2>1, NumbersConcat
  <2>3. IsSeq(frame') /\ Numbers(frame') = <<>> /\ <<>> \in Seq(Nat)
    BY <2>1, EmptyNumbers
  <2>4. Ordered(c, r \o f, <<>>, s, shown)
    BY <1>1, OrderMoves
  <2> QED
    BY <1>1, <2>1, <2>2, <2>3, <2>4 DEF QueuesOK, Numbers
<1>4. CASE GetFrame
  <2>1. /\ UNCHANGED <<shown, staged, frame>> /\ ready # <<>>
        /\ ready' = Tail(ready) /\ consumed' = Append(consumed, Head(ready).n)
    BY <1>4 DEF GetFrame
  <2>2. /\ r # <<>> /\ IsSeq(ready') /\ Numbers(ready') = Tail(r)
        /\ Head(ready).n = Head(r)
    BY <1>1, <2>1, NumbersTail
  <2>3. Tail(r) \in Seq(Nat) /\ Head(r) \in Nat
    BY <1>1, <2>2, HeadIsFirst DEF Ordered
  <2>4. consumed' = c \o <<Head(r)>> /\ c \o <<Head(r)>> \in Seq(Nat)
    BY <1>1, <2>1, <2>2, <2>3
  <2>5. Ordered(c \o <<Head(r)>>, Tail(r), f, s, shown)
    BY <1>1, <2>2, OrderMoves
  <2> QED
    BY <1>1, <2>1, <2>2, <2>3, <2>4, <2>5 DEF QueuesOK, Numbers
<1> QED
  BY <1>2, <1>3, <1>4

LEMMA QueuesStay == QueuesOK /\ [Next]_vars => QueuesOK'
<1> SUFFICES ASSUME QueuesOK, [Next]_vars PROVE QueuesOK'
  OBVIOUS
<1>1. CASE VectorsArrive
  BY <1>1, StagingKeepsQueues
<1>2. CASE Look \/ Cut \/ GetFrame
  BY <1>2, CuttingKeepsQueues
<1>3. CASE UNCHANGED <<shown, staged, frame, ready, consumed>>
  BY <1>3 DEF QueuesOK, Numbers
<1>4. CASE \/ CreateComponent \/ CreateDone \/ ConnectComponent \/ ConnectDone
           \/ CreateOverlay \/ AddCallback \/ Start \/ Stop
           \/ DisablePort \/ DestroyComponent \/ Destroyed
  <2>1. UNCHANGED motion
    BY <1>4, Zenon DEF CreateComponent, CreateDone, ConnectComponent, ConnectDone, CreateOverlay,
            AddCallback, Start, Stop, DisablePort, DestroyComponent, Destroyed
  <2> QED
    BY <1>3, <2>1 DEF motion
<1>5. CASE \/ PictureArrives \/ Release("raw") \/ Send("raw") \/ PostProcess("raw")
           \/ VectorsNext \/ OverlayShown \/ Tick \/ UNCHANGED vars
  <2>1. UNCHANGED <<shown, staged, frame, ready, consumed>>
    BY <1>5 DEF PictureArrives, VectorsNext, Release, Send, PostProcess, GetOverlayBuffer,
                SendOverlayBuffer, OverlayShown, Tick, motion, vars
  <2> QED
    BY <1>3, <2>1
<1> QED
  BY <1>1, <1>2, <1>4, <1>5 DEF Next, MainNext, RawNext

(* RawOutputCallback.cpp:17-45, MotionData.cpp, for any number of pictures *)
(* and whatever the timeout drops between two of them: the regions of a    *)
(* picture are cut at most once, and the consumer gets them in the order in*)
(* which the motion thread found them.                                     *)
LEMMA ReadyStaysInOrder == QueuesOK => ReadyInOrder
<1> SUFFICES ASSUME QueuesOK PROVE ReadyInOrder
  OBVIOUS
<1>1. Rising(consumed \o Numbers(ready) \o Numbers(frame) \o Numbers(staged))
  BY OrderedRises DEF QueuesOK
<1> QED
  BY <1>1 DEF Rising, ReadyInOrder

-----------------------------------------------------------------------------
(* How a region grows, on a grid of any size.                              *)

(* What a region can still grow by. *)
Slack(r) == (Rows - r.height) + (Cols - r.width)

Within(r, g) == /\ g.row <= r.row /\ r.row + r.height <= g.row + g.height
                /\ g.col <= r.col /\ r.col + r.width <= g.col + g.width

Grown(r, g) == g \in Region /\ Within(r, g) /\ (g = r \/ Slack(g) < Slack(r))

LEMMA GridFacts == Rows \in Nat /\ Cols \in Nat /\ Rows > 0 /\ Cols > 0
                   /\ Width \in Nat /\ Height \in Nat
BY GridAssumption

LEMMA SlackIsBounded ==
  ASSUME NEW r \in Region
  PROVE  Slack(r) \in Nat /\ Slack(r) <= Rows + Cols
BY GridFacts DEF Slack, Region

LEMMA GrowingOnce ==
  ASSUME NEW r \in Region
  PROVE  Grown(r, GrowUp(r)) /\ Grown(r, GrowDown(r)) /\ Grown(r, GrowLeft(r)) /\ Grown(r, GrowRight(r))
<1>1. Grown(r, r)
  BY DEF Grown, Within, Region
<1>2. Grown(r, GrowUp(r))
  <2>1. CASE r.row > 0
    <3>1. PICK g : g = [row |-> r.row - 1, col |-> r.col, height |-> r.height + 1, width |-> r.width]
      OBVIOUS
    <3>2. GrowUp(r) = g
      <4>1. r \in [row : 0 .. Rows - 1, col : 0 .. Cols - 1, height : 1 .. Rows, width : 1 .. Cols]
        BY DEF Region
      <4>2. r = [row |-> r.row, col |-> r.col, height |-> r.height, width |-> r.width]
        BY <4>1
      <4>3. GrowUp(r) = [[r EXCEPT !.row = r.row - 1] EXCEPT !.height = r.height + 1]
        BY <2>1, <4>2 DEF GrowUp
      <4> QED
        BY <3>1, <4>2, <4>3
    <3>3. Grown(r, g)
      BY <2>1, <3>1, GridFacts DEF Grown, Within, Slack, Region
    <3> QED
      BY <3>2, <3>3
  <2> QED
    BY <1>1, <2>1 DEF GrowUp
<1>3. Grown(r, GrowDown(r))
  BY <1>1, GridFacts DEF Grown, GrowDown, Within, Slack, Region
<1>4. Grown(r, GrowLeft(r))
  <2>1. CASE r.col > 0
    <3>1. PICK g : g = [row |-> r.row, col |-> r.col - 1, height |-> r.height, width |-> r.width + 1]
      OBVIOUS
    <3>2. GrowLeft(r) = g
      <4>1. r \in [row : 0 .. Rows - 1, col : 0 .. Cols - 1, height : 1 .. Rows, width : 1 .. Cols]
        BY DEF Region
      <4>2. r = [row |-> r.row, col |-> r.col, height |-> r.height, width |-> r.width]
        BY <4>1
      <4>3. GrowLeft(r) = [[r EXCEPT !.col = r.col - 1] EXCEPT !.width = r.width + 1]
        BY <2>1, <4>2 DEF GrowLeft
      <4> QED
        BY <3>1, <4>2, <4>3
    <3>3. Grown(r, g)
      BY <2>1, <3>1, GridFacts DEF Grown, Within, Slack, Region
    <3> QED
      BY <3>2, <3>3
  <2> QED
    BY <1>1, <2>1 DEF GrowLeft
<1>5. Grown(r, GrowRight(r))
  BY <1>1, GridFacts DEF Grown, GrowRight, Within, Slack, Region
<1> QED
  BY <1>2, <1>3, <1>4, <1>5

LEMMA GrowingOn ==
  ASSUME NEW r \in Region, NEW g, NEW h, Grown(r, g), Grown(g, h)
  PROVE  Grown(r, h)
<1>1. g \in Region /\ h \in Region
  BY DEF Grown
<1>2. Within(r, h)
  BY <1>1, GridFacts DEF Grown, Within, Region
<1>3. Slack(r) \in Nat /\ Slack(g) \in Nat /\ Slack(h) \in Nat
  BY <1>1, SlackIsBounded
<1>4. h = r \/ Slack(h) < Slack(r)
  BY <1>3 DEF Grown
<1> QED
  BY <1>1, <1>2, <1>4 DEF Grown

LEMMA RoundGrows ==
  ASSUME NEW hot, NEW searched, NEW r \in Region
  PROVE  Grown(r, GrowRound(hot, searched, r))
<1>1. ASSUME NEW x \in Region
      PROVE  /\ Grown(x, CheckLeft(hot, searched, x)) /\ Grown(x, CheckTop(hot, searched, x))
             /\ Grown(x, CheckRight(hot, searched, x)) /\ Grown(x, CheckBottom(hot, searched, x))
  <2>1. Grown(x, x)
    BY DEF Grown, Within, Region
  <2> QED
    BY <2>1, GrowingOnce DEF CheckLeft, CheckTop, CheckRight, CheckBottom
<1> DEFINE a == CheckLeft(hot, searched, r)
           b == CheckTop(hot, searched, a)
           c == CheckRight(hot, searched, b)
           d == CheckBottom(hot, searched, c)
<1>2. a \in Region /\ Grown(r, a)
  BY <1>1 DEF Grown
<1> HIDE DEF a
<1>3. b \in Region /\ Grown(r, b)
  BY <1>1, <1>2, GrowingOn DEF Grown
<1> HIDE DEF b
<1>4. c \in Region /\ Grown(r, c)
  BY <1>1, <1>3, GrowingOn DEF Grown
<1> HIDE DEF c
<1>5. Grown(r, d)
  BY <1>1, <1>4, GrowingOn
<1> QED
  BY <1>5 DEF GrowRound, a, b, c, d

(* Growing ends, and the region is larger than what it began with.         *)
LEMMA RegionGrows ==
  ASSUME NEW hot, NEW searched, NEW r \in Region
  PROVE  GrowRegion(hot, searched, r) \in Region /\ Within(r, GrowRegion(hot, searched, r))
<1> DEFINE grown[x \in Region] == LET next == GrowRound(hot, searched, x)
                                  IN  IF next = x THEN x ELSE grown[next]
           round == [x \in Region |-> GrowRound(hot, searched, x)]
           size == [x \in Region |-> Slack(x)]
           n == Rows + Cols
           K == {x \in Region : Within(r, x)}
<1>1. GrowRegion(hot, searched, r) = grown[r]
  BY DEF GrowRegion
<1>2. \A x \in Region : GrowRound(hot, searched, x) \in Region /\ Grown(x, GrowRound(hot, searched, x))
  BY RoundGrows DEF Grown
<1>3. round \in [Region -> Region] /\ \A x \in Region : round[x] = GrowRound(hot, searched, x)
  BY <1>2
<1> HIDE DEF round
<1>4. size \in [Region -> Nat] /\ \A x \in Region : size[x] = Slack(x) /\ size[x] <= n
  BY SlackIsBounded
<1> HIDE DEF size
<1>5. Shrinks(Region, round, size, n)
  <2>1. \A x \in Region : round[x] = x \/ size[round[x]] < size[x]
    BY <1>2, <1>3, <1>4 DEF Grown
  <2>2. n \in Nat
    BY GridFacts
  <2> QED
    BY <1>3, <1>4, <2>1, <2>2 DEF Shrinks
<1> HIDE DEF n
<1>6. \E g : Repeats(Region, round, g)
  BY ONLY <1>5, RepetitionExists, Zenon
<1>7. PICK g : g = [x \in Region |-> IF round[x] = x THEN x ELSE g[round[x]]]
  BY <1>6 DEF Repeats
<1>8. g = [x \in Region |-> LET next == GrowRound(hot, searched, x)
                            IN  IF next = x THEN x ELSE g[next]]
  BY <1>3, <1>7
<1>9. grown = [x \in Region |-> LET next == GrowRound(hot, searched, x)
                                IN  IF next = x THEN x ELSE grown[next]]
  BY <1>8
<1> HIDE DEF grown
<1>10. Repeats(Region, round, grown)
  BY <1>3, <1>9 DEF Repeats
<1>11. r \in K
  BY DEF Within, Region
<1>12. K \subseteq Region /\ \A x \in K : round[x] \in K
  <2>1. ASSUME NEW x \in K PROVE round[x] \in K
    <3> QED
      BY <2>1, <1>2, <1>3, GridFacts DEF Grown, Within, Region
  <2> QED
    BY <2>1
<1> HIDE DEF K
<1>13. grown[r] \in K
  BY ONLY <1>5, <1>10, <1>11, <1>12, RepetitionKeeps, Zenon
<1> QED
  BY <1>1, <1>13 DEF K

-----------------------------------------------------------------------------
(* The scan: every cell in motion has a searched cell in its row that is   *)
(* not to its right, and the searched cells are those of the regions.      *)

ScanState == [searched : SUBSET Cells, regions : Seq(Region), ended : BOOLEAN]

Covered(regions) == UNION {CellsOf(regions[i]) : i \in DOMAIN regions}

Seen(searched, row, col) == \E c \in 0 .. col : <<row, c>> \in searched

(* After n cells of the row. *)
Visited(hot, s, row, n) ==
  /\ s \in ScanState /\ s.searched = Covered(s.regions)
  /\ s.ended => Seen(s.searched, row, n - 1)
  /\ \A q \in 0 .. row - 1, c \in 0 .. Cols - 1 : <<q, c>> \in hot => Seen(s.searched, q, c)
  /\ \A c \in 0 .. n - 1 : <<row, c>> \in hot => Seen(s.searched, row, c)

LEMMA RegionsAreCells ==
  ASSUME NEW r \in Region
  PROVE  CellsOf(r) \subseteq Cells
BY GridFacts DEF CellsOf, RowsOf, ColsOf, Cells, Region

LEMMA FoundCell ==
  ASSUME NEW hot, NEW searched, NEW row \in 0 .. Rows - 1, NEW col \in 0 .. Cols - 1,
         NEW r, r = GrowRegion(hot, searched, Around(<<row, col>>))
  PROVE  r \in Region /\ <<row, col>> \in CellsOf(r)
<1> DEFINE u == [row |-> row, col |-> col, width |-> 1, height |-> 1]
           a == GrowUp(u)
           b == GrowDown(a)
           c == GrowLeft(b)
           d == GrowRight(c)
<1>1. u \in Region /\ Around(<<row, col>>) = d
  BY GridFacts DEF Region, Around
<1>2. u.row = row /\ u.col = col /\ u.width = 1 /\ u.height = 1
  OBVIOUS
<1> HIDE DEF u
<1>3. a \in Region /\ Grown(u, a)
  BY <1>1, GrowingOnce DEF Grown
<1> HIDE DEF a
<1>4. b \in Region /\ Grown(u, b)
  BY <1>1, <1>3, GrowingOnce, GrowingOn DEF Grown
<1> HIDE DEF b
<1>5. c \in Region /\ Grown(u, c)
  BY <1>1, <1>4, GrowingOnce, GrowingOn DEF Grown
<1> HIDE DEF c
<1>6. d \in Region /\ Grown(u, d)
  BY <1>1, <1>5, GrowingOnce, GrowingOn DEF Grown
<1> HIDE DEF d
<1>7. r \in Region /\ Within(d, r)
  BY <1>1, <1>6, RegionGrows
<1>8. Within(u, d)
  BY <1>6 DEF Grown
<1>9. row \in RowsOf(r) /\ col \in ColsOf(r)
  BY <1>2, <1>6, <1>7, <1>8, GridFacts DEF Within, RowsOf, ColsOf, Region
<1> QED
  BY <1>7, <1>9 DEF CellsOf

LEMMA VisitTypes ==
  ASSUME NEW hot, NEW s \in ScanState, NEW row \in 0 .. Rows - 1, NEW col \in 0 .. Cols - 1
  PROVE  /\ Visit(hot, s, <<row, col>>) \in ScanState
         /\ [s EXCEPT !.ended = FALSE] \in ScanState
<1>1. PICK r : r = GrowRegion(hot, s.searched, Around(<<row, col>>))
  OBVIOUS
<1>2. r \in Region /\ CellsOf(r) \subseteq Cells
  BY <1>1, FoundCell, RegionsAreCells
<1>3. [s EXCEPT !.ended = TRUE] \in ScanState /\ [s EXCEPT !.ended = FALSE] \in ScanState
  BY DEF ScanState
<1>4. /\ Append(s.regions, r) \in Seq(Region)
      /\ s.searched \cup CellsOf(r) \in SUBSET Cells
  BY <1>2 DEF ScanState
<1>5. [s EXCEPT !.regions = Append(@, r), !.searched = @ \cup CellsOf(r)] \in ScanState
  BY <1>4 DEF ScanState
<1> QED
  BY <1>1, <1>3, <1>5 DEF Visit

LEMMA VisitKeeps ==
  ASSUME NEW hot, NEW s, NEW row \in 0 .. Rows - 1, NEW n \in 0 .. Cols - 1, Visited(hot, s, row, n)
  PROVE  Visited(hot, Visit(hot, s, <<row, n>>), row, n + 1)
<1>1. s \in ScanState /\ n \in Nat /\ row \in Nat
  BY DEF Visited
<1>2. PICK old : old = s.searched
  OBVIOUS
<1>3. ASSUME NEW t \in ScanState, t.searched = Covered(t.regions), old \subseteq t.searched,
             Seen(t.searched, row, n) \/ (~ t.ended /\ <<row, n>> \notin hot)
      PROVE  Visited(hot, t, row, n + 1)
  <2>1. PICK new : new = t.searched
    OBVIOUS
  <2>2. ASSUME NEW q, NEW c, Seen(old, q, c) PROVE Seen(new, q, c)
    BY <1>3, <2>1, <2>2 DEF Seen
  <2>3. n + 1 - 1 = n
    BY <1>1
  <2>4. t.ended => Seen(new, row, n + 1 - 1)
    BY <1>3, <2>1, <2>3
  <2>5. \A q \in 0 .. row - 1, c \in 0 .. Cols - 1 : <<q, c>> \in hot => Seen(new, q, c)
    BY <1>2, <2>2 DEF Visited
  <2>6. ASSUME NEW c \in 0 .. n, <<row, c>> \in hot PROVE Seen(new, row, c)
    <3>1. CASE c = n
      BY <1>3, <2>1, <2>6, <3>1
    <3>2. CASE c # n
      <4>1. c \in 0 .. n - 1
        BY <1>1, <3>2
      <4> QED
        BY <1>2, <2>2, <2>6, <4>1 DEF Visited
    <3> QED
      BY <3>1, <3>2
  <2> QED
    BY <1>3, <2>1, <2>3, <2>4, <2>5, <2>6 DEF Visited
<1>4. CASE s.ended
  <2>1. PICK c \in 0 .. n - 1 : <<row, c>> \in old
    BY <1>2, <1>4 DEF Visited, Seen
  <2>2. c \in 0 .. n
    BY <1>1
  <2>3. Seen(old, row, n)
    BY <2>1, <2>2 DEF Seen
  <2> QED
    BY <1>1, <1>2, <1>3, <1>4, <2>3 DEF Visit, Visited
<1>5. CASE ~ s.ended /\ <<row, n>> \in s.searched
  <2>1. PICK t : t = [s EXCEPT !.ended = TRUE]
    OBVIOUS
  <2>2. t \in ScanState /\ t.searched = old /\ t.regions = s.regions
    BY <1>1, <1>2, <2>1 DEF ScanState
  <2>3. Seen(old, row, n)
    <3>1. n \in 0 .. n
      BY <1>1
    <3> QED
      BY <1>2, <1>5, <3>1 DEF Seen
  <2>4. Visit(hot, s, <<row, n>>) = t
    BY <1>5, <2>1 DEF Visit
  <2> QED
    BY <1>2, <1>3, <2>2, <2>3, <2>4 DEF Visited
<1>6. CASE ~ s.ended /\ <<row, n>> \notin s.searched /\ <<row, n>> \notin hot
  BY <1>1, <1>2, <1>3, <1>6 DEF Visit, Visited
<1>7. CASE ~ s.ended /\ <<row, n>> \notin s.searched /\ <<row, n>> \in hot
  <2>1. PICK r : r = GrowRegion(hot, s.searched, Around(<<row, n>>))
    OBVIOUS
  <2>2. r \in Region /\ <<row, n>> \in CellsOf(r) /\ CellsOf(r) \subseteq Cells
    BY <2>1, FoundCell, RegionsAreCells
  <2>3. PICK t : t = [s EXCEPT !.regions = Append(@, r), !.searched = @ \cup CellsOf(r)]
    OBVIOUS
  <2>4. Visit(hot, s, <<row, n>>) = t
    BY <1>7, <2>1, <2>3 DEF Visit
  <2>5. t \in ScanState
    BY <1>1, <2>4, VisitTypes
  <2>6. t.searched = old \cup CellsOf(r) /\ t.regions = Append(s.regions, r)
    BY <1>1, <1>2, <2>3 DEF ScanState
  <2>7. Covered(Append(s.regions, r)) = Covered(s.regions) \cup CellsOf(r)
    <3>1. PICK g \in Seq(Region) : g = s.regions
      BY <1>1 DEF ScanState
    <3>2. PICK h : h = Append(g, r)
      OBVIOUS
    <3>3. /\ DOMAIN h = DOMAIN g \cup {Len(g) + 1} /\ h[Len(g) + 1] = r
          /\ \A i \in DOMAIN g : h[i] = g[i]
      BY <2>2, <3>2
    <3>4. Covered(h) = Covered(g) \cup CellsOf(r)
      BY <3>3 DEF Covered
    <3> QED
      BY <3>1, <3>2, <3>4
  <2>8. Seen(t.searched, row, n)
    <3>1. n \in 0 .. n
      BY <1>1
    <3> QED
      BY <2>2, <2>6, <3>1 DEF Seen
  <2>9. t.searched = Covered(t.regions)
    BY <1>2, <2>6, <2>7 DEF Visited
  <2>10. Visited(hot, t, row, n + 1)
    BY <1>3, <2>5, <2>6, <2>8, <2>9
  <2> QED
    BY <2>4, <2>10
<1> QED
  BY <1>4, <1>5, <1>6, <1>7

(* The loop over a row, and the one over the rows.                         *)
LEMMA RowLoop ==
  ASSUME NEW hot, NEW s \in ScanState, NEW row \in 0 .. Rows - 1
  PROVE  \E f : /\ f[0] = [s EXCEPT !.ended = FALSE] /\ f[Cols] = ScanRow(hot, s, row)
                /\ \A i \in 0 .. Cols : f[i] \in ScanState
                /\ \A i \in 1 .. Cols : f[i] = Visit(hot, f[i - 1], <<row, i - 1>>)
<1> DEFINE first == [s EXCEPT !.ended = FALSE]
           V == ScanState
           after[n \in 0 .. Cols] == IF n = 0 THEN first
                                     ELSE Visit(hot, after[n - 1], <<row, n - 1>>)
           step == [i \in 1 .. Cols |-> [x \in V |-> Visit(hot, x, <<row, i - 1>>)]]
<1>1. ScanRow(hot, s, row) = after[Cols]
  BY DEF ScanRow
<1>2. Cols \in Nat /\ first \in V
  <2>1. 0 \in 0 .. Cols - 1
    BY GridFacts
  <2> QED
    BY <2>1, GridFacts, VisitTypes
<1> HIDE DEF first, V
<1>3. ASSUME NEW x \in V, NEW i \in 1 .. Cols PROVE Visit(hot, x, <<row, i - 1>>) \in V
  <2>1. i - 1 \in 0 .. Cols - 1
    BY <1>2
  <2> QED
    BY <2>1, VisitTypes DEF V
<1>4. step \in [1 .. Cols -> [V -> V]]
      /\ \A x \in V, i \in 1 .. Cols : step[i][x] = Visit(hot, x, <<row, i - 1>>)
  BY <1>3
<1> HIDE DEF step
<1>5. PICK f : f \in [0 .. Cols -> V] /\ f[0] = first /\ \A i \in 1 .. Cols : f[i] = step[i][f[i - 1]]
  <2> HIDE DEF after
  <2>1. IsLoop(V, Cols, step)
    BY <1>4 DEF IsLoop
  <2>2. \E f : IsRun(V, first, Cols, step, f)
    BY ONLY <1>2, <2>1, LoopExists, Zenon
  <2> QED
    BY <2>2 DEF IsRun
<1>6. ASSUME NEW i \in 1 .. Cols
      PROVE  i # 0 /\ i \in 0 .. Cols /\ f[i] = Visit(hot, f[i - 1], <<row, i - 1>>)
  <2>1. i - 1 \in 0 .. Cols /\ i # 0 /\ i \in 0 .. Cols
    BY <1>2
  <2> QED
    BY <1>4, <1>5, <2>1
<1>7. f = [n \in 0 .. Cols |-> IF n = 0 THEN first ELSE Visit(hot, f[n - 1], <<row, n - 1>>)]
  <2>1. \A i \in 0 .. Cols : i = 0 \/ i \in 1 .. Cols
    BY <1>2
  <2> QED
    BY <1>5, <1>6, <2>1
<1>8. after = [n \in 0 .. Cols |-> IF n = 0 THEN first ELSE Visit(hot, after[n - 1], <<row, n - 1>>)]
  BY <1>7
<1> HIDE DEF after
<1>9. after[0] = first /\ \A i \in 1 .. Cols : after[i] = Visit(hot, after[i - 1], <<row, i - 1>>)
  BY <1>2, <1>8
<1>10. \A i \in 0 .. Cols : after[i] \in V
  <2> DEFINE T == {i \in 0 .. Cols : after[i] \in V}
  <2>1. 0 \in T
    BY <1>2, <1>9
  <2>2. ASSUME NEW i \in 1 .. Cols, i - 1 \in T PROVE i \in T
    <3>1. after[i - 1] \in V /\ i \in 0 .. Cols
      BY <1>2, <2>2
    <3>2. after[i] = Visit(hot, after[i - 1], <<row, i - 1>>)
      BY <1>9
    <3>3. PICK x \in V : x = after[i - 1]
      BY <3>1
    <3>4. after[i] \in V
      BY <1>3, <3>2, <3>3
    <3> QED
      BY <3>1, <3>4
  <2> HIDE DEF T
  <2>3. \A i \in 1 .. Cols : i - 1 \in T => i \in T
    BY <2>2
  <2>4. \A i \in 0 .. Cols : i \in T
    BY ONLY <1>2, <2>1, <2>3, Counting, Zenon
  <2> QED
    BY <2>4 DEF T
<1> QED
  BY <1>1, <1>9, <1>10 DEF first, V

(* Before the first cell of the row.                                       *)
AtRow(hot, s, row) ==
  /\ s \in ScanState /\ s.searched = Covered(s.regions)
  /\ \A q \in 0 .. row - 1, c \in 0 .. Cols - 1 : <<q, c>> \in hot => Seen(s.searched, q, c)

LEMMA RowKeeps ==
  ASSUME NEW hot, NEW s, NEW row \in 0 .. Rows - 1, AtRow(hot, s, row)
  PROVE  AtRow(hot, ScanRow(hot, s, row), row + 1)
<1>1. s \in ScanState /\ Cols \in Nat /\ Cols > 0
  BY GridFacts DEF AtRow
<1>2. PICK f : /\ f[0] = [s EXCEPT !.ended = FALSE] /\ f[Cols] = ScanRow(hot, s, row)
               /\ \A i \in 0 .. Cols : f[i] \in ScanState
               /\ \A i \in 1 .. Cols : f[i] = Visit(hot, f[i - 1], <<row, i - 1>>)
  BY <1>1, RowLoop
<1> DEFINE T == {n \in 0 .. Cols : Visited(hot, f[n], row, n)}
<1>3. 0 \in T
  <2>1. PICK t : t = f[0]
    OBVIOUS
  <2>2. t \in ScanState /\ t.searched = s.searched /\ t.regions = s.regions /\ t.ended = FALSE
    BY <1>1, <1>2, <2>1 DEF ScanState
  <2>3. Visited(hot, t, row, 0)
    BY <2>2 DEF AtRow, Visited
  <2> QED
    BY <1>1, <2>1, <2>3
<1>4. ASSUME NEW n \in 1 .. Cols, n - 1 \in T PROVE n \in T
  <2>1. PICK m \in 0 .. Cols - 1 : m = n - 1 /\ m + 1 = n
    BY <1>1
  <2>2. Visited(hot, f[m], row, m)
    BY <1>4, <2>1
  <2>3. Visited(hot, Visit(hot, f[m], <<row, m>>), row, m + 1)
    BY <2>2, VisitKeeps
  <2>4. f[n] = Visit(hot, f[m], <<row, m>>)
    BY <1>2, <2>1
  <2> QED
    BY <2>1, <2>3, <2>4
<1> HIDE DEF T
<1>5. \A n \in 1 .. Cols : n - 1 \in T => n \in T
  BY <1>4
<1>6. \A n \in 0 .. Cols : n \in T
  BY ONLY <1>1, <1>3, <1>5, Counting, Zenon
<1>7. Cols \in T
  BY <1>1, <1>6
<1>8. PICK t : t = ScanRow(hot, s, row)
  OBVIOUS
<1>9. Visited(hot, t, row, Cols)
  BY <1>2, <1>7, <1>8 DEF T
<1>10. ASSUME NEW q \in 0 .. row, NEW c \in 0 .. Cols - 1, <<q, c>> \in hot
       PROVE  Seen(t.searched, q, c)
  <2>1. q = row \/ q \in 0 .. row - 1
    OBVIOUS
  <2> QED
    BY <1>9, <1>10, <2>1 DEF Visited
<1>11. row + 1 - 1 = row
  OBVIOUS
<1>12. AtRow(hot, t, row + 1)
  BY <1>9, <1>10, <1>11 DEF AtRow, Visited
<1> QED
  BY <1>8, <1>12

(* MotionVectorCallback.cpp:68-95, for any grid and any motion: the scan   *)
(* ends with regions on the grid, and what it misses is behind one.        *)
LEMMA ScanFacts ==
  ASSUME NEW hot
  PROVE  /\ RegionsOf(hot) \in Seq(Region)
         /\ \A q \in 0 .. Rows - 1, c \in 0 .. Cols - 1 :
              <<q, c>> \in hot => Seen(Covered(RegionsOf(hot)), q, c)
<1> DEFINE first == [searched |-> {}, regions |-> <<>>, ended |-> FALSE]
           V == ScanState
           below[n \in 0 .. Rows] == IF n = 0 THEN first ELSE ScanRow(hot, below[n - 1], n - 1)
           step == [i \in 1 .. Rows |-> [x \in V |-> ScanRow(hot, x, i - 1)]]
<1>1. RegionsOf(hot) = below[Rows].regions
  BY DEF RegionsOf
<1>2. Rows \in Nat /\ Cols \in Nat
  BY GridFacts
<1>3. first \in V /\ AtRow(hot, first, 0)
  <2>1. first \in V /\ first.searched = {} /\ first.regions = <<>>
    BY DEF ScanState
  <2>2. Covered(<<>>) = {}
    BY DEF Covered
  <2> QED
    BY <2>1, <2>2 DEF AtRow
<1> HIDE DEF first, V
<1>4. ASSUME NEW x \in V, NEW i \in 1 .. Rows PROVE ScanRow(hot, x, i - 1) \in V
  <2>1. PICK row \in 0 .. Rows - 1 : row = i - 1
    BY <1>2
  <2> USE DEF V
  <2>2. PICK f : /\ f[0] = [x EXCEPT !.ended = FALSE] /\ f[Cols] = ScanRow(hot, x, row)
                 /\ \A j \in 0 .. Cols : f[j] \in ScanState
                 /\ \A j \in 1 .. Cols : f[j] = Visit(hot, f[j - 1], <<row, j - 1>>)
    BY RowLoop
  <2>3. Cols \in 0 .. Cols
    BY <1>2
  <2> QED
    BY <2>1, <2>2, <2>3 DEF V
<1>5. step \in [1 .. Rows -> [V -> V]] /\ \A x \in V, i \in 1 .. Rows : step[i][x] = ScanRow(hot, x, i - 1)
  BY <1>4
<1> HIDE DEF step
<1>6. PICK f : f \in [0 .. Rows -> V] /\ f[0] = first /\ \A i \in 1 .. Rows : f[i] = step[i][f[i - 1]]
  <2> HIDE DEF below
  <2>1. IsLoop(V, Rows, step)
    BY <1>5 DEF IsLoop
  <2>2. \E f : IsRun(V, first, Rows, step, f)
    BY ONLY <1>2, <1>3, <2>1, LoopExists, Zenon
  <2> QED
    BY <2>2 DEF IsRun
<1>7. ASSUME NEW i \in 1 .. Rows
      PROVE  i # 0 /\ i \in 0 .. Rows /\ f[i] = ScanRow(hot, f[i - 1], i - 1)
  <2>1. i - 1 \in 0 .. Rows /\ i # 0 /\ i \in 0 .. Rows
    BY <1>2
  <2> QED
    BY <1>5, <1>6, <2>1
<1>8. f = [n \in 0 .. Rows |-> IF n = 0 THEN first ELSE ScanRow(hot, f[n - 1], n - 1)]
  <2>1. \A i \in 0 .. Rows : i = 0 \/ i \in 1 .. Rows
    BY <1>2
  <2> QED
    BY <1>6, <1>7, <2>1
<1>9. below = [n \in 0 .. Rows |-> IF n = 0 THEN first ELSE ScanRow(hot, below[n - 1], n - 1)]
  BY <1>8
<1> HIDE DEF below
<1>10. below[0] = first /\ \A i \in 1 .. Rows : below[i] = ScanRow(hot, below[i - 1], i - 1)
  BY <1>2, <1>9
<1> DEFINE T == {n \in 0 .. Rows : AtRow(hot, below[n], n)}
<1>11. 0 \in T
  BY <1>2, <1>3, <1>10
<1>12. ASSUME NEW n \in 1 .. Rows, n - 1 \in T PROVE n \in T
  <2>1. PICK m \in 0 .. Rows - 1 : m = n - 1 /\ m + 1 = n
    BY <1>2
  <2>2. AtRow(hot, below[m], m)
    BY <1>12, <2>1
  <2>3. AtRow(hot, ScanRow(hot, below[m], m), m + 1)
    BY <2>2, RowKeeps
  <2>4. below[n] = ScanRow(hot, below[m], m)
    BY <1>10, <2>1
  <2> QED
    BY <2>1, <2>3, <2>4
<1> HIDE DEF T
<1>13. \A n \in 1 .. Rows : n - 1 \in T => n \in T
  BY <1>12
<1>14. \A n \in 0 .. Rows : n \in T
  BY ONLY <1>2, <1>11, <1>13, Counting, Zenon
<1>15. Rows \in T
  BY <1>2, <1>14
<1>16. PICK t : t = below[Rows]
  OBVIOUS
<1>17. AtRow(hot, t, Rows)
  BY <1>15, <1>16 DEF T
<1> QED
  BY <1>1, <1>16, <1>17 DEF AtRow, ScanState

-----------------------------------------------------------------------------
(* The regions that are staged, cut and ready are on the grid; the last    *)
(* ones are those of the vectors that the callback still has.              *)

Found == [n : Nat, at : Nat, regions : Seq(Region)]

FoundOK ==
  /\ staged \in Seq(Found) /\ frame \in Seq(Found) /\ ready \in Seq(Found)
  /\ vectors \subseteq Cells
  /\ vectors # {} => last = RegionsOf(vectors)

LEMMA FoundInit == Init => FoundOK
<1> SUFFICES ASSUME Init PROVE FoundOK
  OBVIOUS
<1>1. staged = <<>> /\ frame = <<>> /\ ready = <<>> /\ vectors = {}
  BY DEF Init
<1>2. <<>> \in Seq(Found)
  OBVIOUS
<1> QED
  BY <1>1, <1>2 DEF FoundOK

LEMMA VectorsAreFound ==
  ASSUME FoundOK, QueuesOK, now \in Nat, VectorsArrive
  PROVE  FoundOK'
<1>1. UNCHANGED <<frame, ready>> /\ shown \in Nat
  BY DEF VectorsArrive, QueuesOK
<1>2. CASE UNCHANGED <<vectors, last, staged>>
  BY <1>1, <1>2 DEF FoundOK
<1>3. CASE /\ shown < Len(Pictures) /\ shown' = shown + 1
           /\ vectors' \in Pictures[shown + 1] /\ last' = RegionsOf(vectors')
           /\ staged' = IF last' = <<>> THEN staged
                        ELSE Append(staged, [n |-> shown', at |-> now, regions |-> last'])
  <2>1. vectors' \subseteq Cells
    <3>1. Pictures \in Seq(SUBSET SUBSET Cells)
      BY MotionCamAssumption
    <3>2. shown + 1 \in 1 .. Len(Pictures)
      BY <1>1, <1>3, <3>1
    <3>3. Pictures[shown + 1] \in SUBSET SUBSET Cells
      BY <3>1, <3>2
    <3> QED
      BY <1>3, <3>3
  <2>2. PICK hot : hot = vectors'
    OBVIOUS
  <2>3. RegionsOf(hot) \in Seq(Region)
    BY ScanFacts
  <2>4. last' \in Seq(Region)
    BY <1>3, <2>2, <2>3
  <2>5. [n |-> shown', at |-> now, regions |-> last'] \in Found
    BY <1>1, <1>3, <2>4 DEF Found
  <2>6. staged' \in Seq(Found)
    BY <1>3, <2>5 DEF FoundOK
  <2> QED
    BY <1>1, <1>3, <2>1, <2>6 DEF FoundOK
<1> QED
  BY <1>2, <1>3 DEF VectorsArrive

LEMMA FoundStays ==
  ASSUME FoundOK, QueuesOK, now \in Nat, [Next]_vars
  PROVE  FoundOK'
<1>1. CASE VectorsArrive
  BY <1>1, VectorsAreFound
<1>2. CASE Look
  <2>1. /\ UNCHANGED <<ready, vectors, last>>
        /\ \/ UNCHANGED <<staged, frame>>
           \/ staged # <<>> /\ staged' = Tail(staged) /\ UNCHANGED frame
           \/ staged # <<>> /\ staged' = Tail(staged) /\ frame' = <<Head(staged)>>
    BY <1>2 DEF Look
  <2>2. staged # <<>> => Tail(staged) \in Seq(Found) /\ <<Head(staged)>> \in Seq(Found)
    BY DEF FoundOK
  <2> QED
    BY <2>1, <2>2 DEF FoundOK
<1>3. CASE Cut
  <2>1. UNCHANGED <<staged, vectors, last>> /\ ready' = ready \o frame /\ frame' = <<>>
    BY <1>3 DEF Cut
  <2>2. ready \o frame \in Seq(Found) /\ <<>> \in Seq(Found)
    BY DEF FoundOK
  <2> QED
    BY <2>1, <2>2 DEF FoundOK
<1>4. CASE GetFrame
  <2>1. UNCHANGED <<staged, frame, vectors, last>> /\ ready # <<>> /\ ready' = Tail(ready)
    BY <1>4 DEF GetFrame
  <2>2. Tail(ready) \in Seq(Found)
    BY <2>1 DEF FoundOK
  <2> QED
    BY <2>1, <2>2 DEF FoundOK
<1>5. CASE UNCHANGED <<staged, frame, ready, last>> /\ (UNCHANGED vectors \/ vectors' = {})
  BY <1>5 DEF FoundOK
<1>6. CASE \/ CreateComponent \/ CreateDone \/ ConnectComponent \/ ConnectDone
           \/ CreateOverlay \/ AddCallback \/ Start \/ Stop
           \/ DisablePort \/ DestroyComponent \/ Destroyed
  <2>1. UNCHANGED motion
    BY <1>6, Zenon DEF CreateComponent, CreateDone, ConnectComponent, ConnectDone, CreateOverlay,
            AddCallback, Start, Stop, DisablePort, DestroyComponent, Destroyed
  <2> QED
    BY <1>5, <2>1 DEF motion
<1>7. CASE \/ PictureArrives \/ Release("raw") \/ Send("raw") \/ PostProcess("raw")
           \/ VectorsNext \/ OverlayShown \/ Tick \/ UNCHANGED vars
  <2>1. UNCHANGED <<staged, frame, ready, last>> /\ (UNCHANGED vectors \/ vectors' = {})
    BY <1>7 DEF PictureArrives, VectorsNext, Release, Send, PostProcess, GetOverlayBuffer,
                SendOverlayBuffer, OverlayShown, Tick, motion, vars
  <2> QED
    BY <1>5, <2>1
<1> QED
  BY <1>1, <1>2, <1>3, <1>4, <1>6, <1>7 DEF Next, MainNext, RawNext

(* The part of a picture that stands for a cells in a row out of n.        *)
LEMMA Scaled ==
  ASSUME NEW a \in Nat, NEW b \in Nat, NEW n \in Nat, n > 0, NEW w \in Nat, a + b <= n
  PROVE  a * (w \div n) >= 0 /\ a * (w \div n) + b * (w \div n) <= w
<1>1. PICK q \in Nat : q = w \div n /\ n * q <= w
  OBVIOUS
<1>2. a * q \in Nat /\ b * q \in Nat
  BY <1>1
<1>3. (a + b) * q = a * q + b * q
  BY <1>1
<1>4. (a + b) * q <= n * q
  <2>1. PICK d \in Nat : n = (a + b) + d
    <3>1. n - (a + b) \in Nat
      OBVIOUS
    <3> QED
      BY <3>1
  <2>2. n * q = (a + b) * q + d * q /\ d * q \in Nat
    BY <1>1, <2>1
  <2>3. (a + b) * q \in Nat
    BY <1>1
  <2> QED
    BY <2>2, <2>3
<1>5. a * q + b * q <= w
  BY <1>1, <1>2, <1>3, <1>4
<1> QED
  BY <1>1, <1>2, <1>5

(* From the motion vectors to the consumer, for any grid, size, motion and *)
(* number of pictures: what the scan misses is behind a region, what is    *)
(* cut lies within the picture, and it arrives in order and once.          *)
THEOREM RegionsAreRight == Spec => []RegionsOK
<1>1. FoundOK => MissedOnlyBehindRegions
  <2> SUFFICES ASSUME FoundOK,
                      NEW cell \in vectors \ UNION {CellsOf(last[i]) : i \in DOMAIN last}
               PROVE  \E col \in 0 .. cell[2] - 1 :
                        <<cell[1], col>> \in UNION {CellsOf(last[i]) : i \in DOMAIN last}
    BY DEF MissedOnlyBehindRegions
  <2>1. PICK hot : hot = vectors
    OBVIOUS
  <2>2. PICK q \in 0 .. Rows - 1, c \in 0 .. Cols - 1 : cell = <<q, c>>
    BY DEF FoundOK, Cells
  <2>3. last = RegionsOf(hot)
    BY <2>1 DEF FoundOK
  <2>4. Seen(Covered(RegionsOf(hot)), q, c)
    BY <2>1, <2>2, ScanFacts
  <2>5. PICK d \in 0 .. c : <<q, d>> \in Covered(last)
    BY <2>3, <2>4 DEF Seen
  <2>6. Covered(last) = UNION {CellsOf(last[i]) : i \in DOMAIN last}
    BY DEF Covered
  <2>7. d # c
    BY <2>2, <2>5, <2>6
  <2>8. d \in 0 .. cell[2] - 1 /\ cell[1] = q
    BY <2>2, <2>5, <2>7
  <2> QED
    BY <2>5, <2>6, <2>8
<1>2. FoundOK => RoiInImage
  <2> SUFFICES ASSUME FoundOK, NEW i \in DOMAIN ready, NEW j \in DOMAIN ready[i].regions
               PROVE  /\ Roi(ready[i].regions[j]).x >= 0 /\ Roi(ready[i].regions[j]).y >= 0
                      /\ Roi(ready[i].regions[j]).x + Roi(ready[i].regions[j]).width <= Width
                      /\ Roi(ready[i].regions[j]).y + Roi(ready[i].regions[j]).height <= Height
    BY DEF RoiInImage
  <2>1. ready[i] \in Found
    BY DEF FoundOK
  <2>2. ready[i].regions \in Seq(Region)
    BY <2>1 DEF Found
  <2>3. PICK r \in Region : r = ready[i].regions[j]
    BY <2>2
  <2>4. /\ r.row \in Nat /\ r.col \in Nat /\ r.height \in Nat /\ r.width \in Nat
        /\ r.row + r.height <= Rows /\ r.col + r.width <= Cols
    BY GridFacts DEF Region
  <2>5. /\ r.col * (Width \div Cols) >= 0
        /\ r.col * (Width \div Cols) + r.width * (Width \div Cols) <= Width
    BY <2>4, GridFacts, Scaled
  <2>6. /\ r.row * (Height \div Rows) >= 0
        /\ r.row * (Height \div Rows) + r.height * (Height \div Rows) <= Height
    BY <2>4, GridFacts, Scaled
  <2>7. /\ Roi(r).x = r.col * (Width \div Cols) /\ Roi(r).width = r.width * (Width \div Cols)
        /\ Roi(r).y = r.row * (Height \div Rows) /\ Roi(r).height = r.height * (Height \div Rows)
    BY Zenon DEF Roi
  <2> QED
    BY <2>3, <2>5, <2>6, <2>7
<1>3. QueuesOK => ReadyInOrder
  BY ReadyStaysInOrder
<1>4. LifeOK => now \in Nat
  BY DEF LifeOK, NamesOK
<1>5. Init => FoundOK /\ QueuesOK
  BY FoundInit, QueuesStart
<1>6. LifeOK /\ (FoundOK /\ QueuesOK) /\ [Next]_vars => (FoundOK /\ QueuesOK)'
  BY <1>4, FoundStays, QueuesStay
<1>7. FoundOK /\ QueuesOK => RegionsOK
  BY <1>1, <1>2, <1>3 DEF RegionsOK
<1> QED
  BY <1>5, <1>6, <1>7, LifeInvariant, PTL DEF Spec
=============================================================================
