----------------------------- MODULE Transports -----------------------------
(***************************************************************************)
(* What carries TUIO from a TuioServer's senders to a TuioClient's         *)
(* receiver.  A behaviour has one part of it: kind is the class of a TCP   *)
(* transport; "udp", a UDP sender and receiver; or "osc", the packets.     *)
(***************************************************************************)
EXTENDS TcpEndpoint, UdpEndpoint, Osc

TransportsInit ==
    /\ TcpInit
    /\ UdpOff /\ break_ \in (IF kind = "udp" THEN BOOLEAN ELSE {FALSE})
    /\ IF kind = "osc" THEN Init ELSE Off

TransportsNext ==
    \/ TcpNext /\ UNCHANGED <<uvars, vars>>
    \/ kind = "udp" /\ UdpNext /\ UNCHANGED <<tvars, vars>>
    \/ kind = "osc" /\ Next /\ UNCHANGED <<tvars, uvars>>

TransportsSpec == TransportsInit /\ [][TransportsNext]_<<tvars, uvars, vars>>

TransportsFairSpec ==
    /\ TransportsSpec
    /\ WF_tvars(~crashed /\ ServerStep)
    /\ \A t \in Runners : WF_uvars(kind = "udp" /\ RunStep(t))
=============================================================================
