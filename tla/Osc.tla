--------------------------------- MODULE Osc --------------------------------
(***************************************************************************)
(* The two ends of the OSC codec together: what OutboundPacketStream       *)
(* writes, cut to what a UDP socket hands over, is what OscReceiver reads. *)
(***************************************************************************)
EXTENDS OscStream, OscReceived

CONSTANT MaxBufferSize      \* bytes the receiving thread reads at a time

(* MAX_BUFFER_SIZE is 4098, which does not end with a word: that is why a  *)
(* bundle that is cut never looks whole.                                   *)
ASSUME BufferAssumption ==
    /\ MaxBufferSize \in Nat /\ MaxBufferSize >= 4
    /\ MaxBufferSize % 4 # 0

-----------------------------------------------------------------------------

(* A plausible slip: a buffer of whole words.                              *)
ReceivedMutant ==
    LET most  == 4 * (MaxBufferSize \div 4)
        bytes == IF Size <= most THEN Size ELSE most
    IN  [w |-> SubSeq(data, 1, bytes \div 4), bytes |-> bytes]

(* ReceiveFrom( remoteEndpoint, data, MAX_BUFFER_SIZE ): a datagram longer *)
(* than the buffer is cut.                                                 *)
Received ==
    LET bytes == IF Size <= MaxBufferSize THEN Size ELSE MaxBufferSize
    IN  [w |-> SubSeq(data, 1, bytes \div 4), bytes |-> bytes]

Packet == [w |-> data, bytes |-> Size]

(* The senders of this library write one bundle, with messages and         *)
(* arguments between their brackets, and clear the stream before the next. *)
(* Of other programs OneBundle asks the first, and that no argument was    *)
(* put after what a bundle has last: it would stay at the packet's end.    *)
Count(history, k, bracket) == Cardinality({i \in 1 .. k : history[i][1] = bracket})

OneBundle ==
    /\ put # <<>> /\ put[1][1] = "["
    /\ Len(data) = messageCursor
    /\ \A k \in 1 .. Len(put) - 1 : Count(put, k, "[") > Count(put, k, "]")

(* The message that the last call of a history ends, with its arguments.   *)
MessageEnding(history) ==
    LET begin == CHOOSE i \in 1 .. Len(history) :
                    /\ history[i][1] = "("
                    /\ \A j \in i + 1 .. Len(history) : history[j][1] # "("
    IN  IF Last(history)[1] # ")" THEN <<>>
        ELSE << <<history[begin][2], SubSeq(history, begin + 1, Len(history) - 1)>> >>

(* The messages of a history, in the order they end.                       *)
MessagesOf(history) ==
    FlattenSeq([k \in 1 .. Len(history) |-> MessageEnding(SubSeq(history, 1, k))])

-----------------------------------------------------------------------------
(* Properties                                                              *)

(* A finished bundle reads as what was put into it: every nesting, time    *)
(* tag, address, type and value, in order, whatever the strings, blobs and *)
(* numbers of arguments, and whatever calls threw on the way.              *)
ReadsWhatWasPut ==
    (IsReady /\ OneBundle) => (PrintPacket(Packet) = put)

(* A bundle that arrives whole gives the listener its messages in order;   *)
(* one that the receiving buffer cuts is dropped as a whole, never read as *)
(* a shorter one, and never ends the thread.                               *)
CutIsDropped ==
    (IsReady /\ OneBundle) =>
        ProcessPacket(Received) =
            IF Size <= MaxBufferSize
            THEN [messages |-> MessagesOf(put), escapes |-> FALSE]
            ELSE Nothing
=============================================================================
