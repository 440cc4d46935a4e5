---------------------------- MODULE UdpEndpoint -----------------------------
(***************************************************************************)
(* The UDP transport of lib/tuio: UdpSender, which writes datagrams, and   *)
(* UdpReceiver, whose thread runs the SocketReceiveMultiplexer: it waits   *)
(* in select() for a datagram or for the break pipe, and looks at a flag   *)
(* that another thread sets to end it.                                     *)
(*                                                                         *)
(*   rsock     the receiving socket: "none", "failed", "bound",            *)
(*             "deleted"                                                   *)
(*   rconn     connected                                                   *)
(*   locked    connect( true ) runs the loop itself                        *)
(*   break_    the flag that ends Run()                                    *)
(*   pc        where every thread that calls Run() is                      *)
(*   arrived   datagrams that wait in the receiving socket                 *)
(*   ssock     the sending socket: "none", "connected", "thrown"           *)
(*   buffer    the sender's buffer_size                                    *)
(*   asked     history: threads that Break() was meant for                 *)
(*   lost      history: Run() was entered, which clears the flag, after    *)
(*             its own break or with another thread still in the loop      *)
(***************************************************************************)
EXTENDS Integers, FiniteSets

CONSTANTS
    Runners,        \* threads that may call Run()
    PacketSizes,    \* sizes of the packets the sender is given
    MaxDatagrams    \* bound: datagrams that are sent

ASSUME UdpAssumption == MaxDatagrams \in Nat /\ PacketSizes \subseteq Nat

VARIABLES rsock, rconn, locked, break_, pc, arrived, ssock, buffer, sent,
          handled, asked, lost

receiver == <<rsock, rconn, locked, asked>>
sender   == <<ssock, buffer, sent>>
uvars    == <<receiver, sender, break_, pc, arrived, handled, lost>>

MinUdpSize == 576
MtuSize    == 1500
MaxUdpSize == 4096

UdpOff ==
    /\ rsock = "none" /\ rconn = FALSE /\ locked = FALSE
    /\ pc = [t \in Runners |-> "none"]
    /\ arrived = 0 /\ handled = 0
    /\ ssock = "none" /\ buffer = 0 /\ sent = 0
    /\ asked = {} /\ lost = FALSE

(* break_ has no value before the first Run().                             *)
UdpInit == UdpOff /\ break_ \in BOOLEAN

(* The multiplexer's loop, or a call of it, has not been left.             *)
Running(t) == pc[t] \notin {"none", "done"}

-----------------------------------------------------------------------------
(* The receiver, in the threads of its user                                *)

(* UdpReceiver( port ): the constructor of the socket throws, or it cannot *)
(* be bound.                                                               *)
BindReceiver ==
    /\ rsock = "none"
    /\ rsock' \in {"bound", "failed"}
    /\ UNCHANGED <<rconn, locked, asked, sender, break_, pc, arrived, handled, lost>>

(* connect( lk ): a thread is started, or the caller runs the loop and is  *)
(* connected when it has left it.                                          *)
ConnectReceiver(t, lk) ==
    /\ rsock = "bound" /\ ~rconn /\ pc[t] = "none"
    /\ pc' = [pc EXCEPT ![t] = "called"]
    /\ locked' = lk
    /\ rconn' = ~lk
    /\ UNCHANGED <<rsock, asked, sender, break_, arrived, handled, lost>>

LockedReturns(t) ==
    /\ rsock = "bound" /\ locked /\ ~rconn /\ pc[t] = "done"
    /\ rconn' = TRUE
    /\ UNCHANGED <<rsock, locked, asked, sender, break_, pc, arrived, handled, lost>>

(* Mutant: the flag is cleared instead.                                    *)
DisconnectMutant ==
    /\ rconn
    /\ break_' = FALSE
    /\ locked' = FALSE
    /\ rconn' = FALSE
    /\ asked' = asked \cup {t \in Runners : Running(t)}
    /\ UNCHANGED <<rsock, sender, pc, arrived, handled, lost>>

(* disconnect(): Break(), which wakes nobody, and nobody is waited for.    *)
DisconnectReceiver ==
    /\ rconn
    /\ break_' = TRUE
    /\ locked' = FALSE
    /\ rconn' = FALSE
    /\ asked' = asked \cup {t \in Runners : Running(t)}
    /\ UNCHANGED <<rsock, sender, pc, arrived, handled, lost>>

(* ~UdpReceiver(): detaches the listener and closes socket and pipe.       *)
DeleteReceiver ==
    /\ rsock = "bound"
    /\ rsock' = "deleted"
    /\ UNCHANGED <<rconn, locked, asked, sender, break_, pc, arrived, handled, lost>>

-----------------------------------------------------------------------------
(* Run().  What a thread does with a receiver that has been deleted is not *)
(* defined, and not followed.                                              *)

Steps(t, from, to) ==
    /\ rsock = "bound" /\ pc[t] = from
    /\ pc' = [pc EXCEPT ![t] = to]

EnterRun(t) ==
    /\ Steps(t, "called", "test")
    /\ break_' = FALSE
    /\ lost' = (lost \/ t \in asked \/ \E x \in Runners \ {t} : Running(x))
    /\ UNCHANGED <<receiver, sender, arrived, handled>>

TestBreak(t) ==
    /\ Steps(t, "test", IF break_ THEN "done" ELSE "select")
    /\ UNCHANGED <<receiver, sender, break_, arrived, handled, lost>>

(* select() returns because a datagram has arrived: there is no timer, and *)
(* nobody writes to the pipe.                                              *)
Select(t) ==
    /\ arrived > 0
    /\ Steps(t, "select", IF break_ THEN "done" ELSE "receive")
    /\ UNCHANGED <<receiver, sender, break_, arrived, handled, lost>>

(* A signal ends select() too.  The set of descriptors is then as it was   *)
(* before the call: the pipe seems readable, and reading it has no end.    *)
Interrupted(t) ==
    /\ Steps(t, "select", "pipe")
    /\ UNCHANGED <<receiver, sender, break_, arrived, handled, lost>>

(* ReceiveFrom() blocks when another thread was faster.                    *)
ReceiveFrom(t) ==
    /\ arrived > 0
    /\ Steps(t, "receive", "process")
    /\ arrived' = arrived - 1
    /\ UNCHANGED <<receiver, sender, break_, handled, lost>>

(* ProcessPacket(), and the test that follows it ends the loop no sooner   *)
(* than TestBreak does.                                                    *)
ProcessDatagram(t) ==
    /\ Steps(t, "process", "test")
    /\ handled' = handled + 1
    /\ UNCHANGED <<receiver, sender, break_, arrived, lost>>

RunStep(t) == EnterRun(t) \/ TestBreak(t) \/ Select(t) \/ ReceiveFrom(t) \/ ProcessDatagram(t)

-----------------------------------------------------------------------------
(* The sender                                                              *)

(* A buffer_size that was never set, brought within the limits.            *)
Clamped(size) == IF size > MaxUdpSize THEN MaxUdpSize
                 ELSE IF size < MinUdpSize THEN MinUdpSize ELSE size

SenderMade(size) ==
    /\ ssock = "none"
    /\ \/ ssock' = "connected" /\ buffer' = size
       \/ ssock' = "thrown" /\ UNCHANGED buffer
    /\ UNCHANGED <<receiver, sent, break_, pc, arrived, handled, lost>>

(* UdpSender()                                                             *)
MakeLocalSender == SenderMade(MaxUdpSize)

(* UdpSender( host, port ): packets to another host fit an MTU.  A name    *)
(* that is not known is address 0.                                         *)
MakeSender == \E size \in {MaxUdpSize, MtuSize} : SenderMade(size)

(* UdpSender( host, port, size ): the size is not used.                    *)
MakeSizedSender == \E garbage \in PacketSizes : SenderMade(Clamped(garbage))

(* sendOscPacket(): UdpSocket::Send looks at no result.  The network, or a *)
(* full or closed receiver, may lose the datagram or deliver it twice.     *)
SendPacket(size) ==
    /\ ssock = "connected" /\ sent < MaxDatagrams
    /\ size <= buffer /\ size # 0
    /\ sent' = sent + 1
    /\ arrived' \in IF rsock = "bound" THEN {arrived, arrived + 1, arrived + 2}
                    ELSE {arrived}
    /\ UNCHANGED <<receiver, ssock, buffer, break_, pc, handled, lost>>

-----------------------------------------------------------------------------

UdpNext ==
    \/ BindReceiver
    \/ \E t \in Runners, lk \in BOOLEAN : ConnectReceiver(t, lk)
    \/ \E t \in Runners : LockedReturns(t)
    \/ DisconnectReceiver
    \/ DeleteReceiver
    \/ \E t \in Runners : RunStep(t)
    \/ \E t \in Runners : Interrupted(t)
    \/ MakeLocalSender
    \/ MakeSender
    \/ MakeSizedSender
    \/ \E size \in PacketSizes : SendPacket(size)

UdpSpec == UdpInit /\ [][UdpNext]_uvars

(* Every thread runs whenever it can.                                      *)
UdpFairness == \A t \in Runners : WF_uvars(RunStep(t))

-----------------------------------------------------------------------------
(* Properties                                                              *)

(* Once a datagram follows a break, the thread it was meant for leaves     *)
(* Run() -- except one that a signal has sent to the pipe, or whose        *)
(* receiver is deleted -- unless disconnect() came before Run() was        *)
(* entered, or connect() before another thread had left it: the break is   *)
(* then lost, or the datagram read by the other.                           *)
BreakEndsRun ==
    \A t \in Runners :
        t \in asked /\ arrived > 0 ~>
            \/ ~Running(t) \/ pc[t] = "pipe"
            \/ lost \/ rsock = "deleted"
=============================================================================
