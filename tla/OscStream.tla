----------------------------- MODULE OscStream ------------------------------
(***************************************************************************)
(* osc::OutboundPacketStream (lib/tuio/osc/OscOutboundPacketStream.cpp):   *)
(* the buffer an OSC packet is written into.                               *)
(*                                                                         *)
(* Arguments grow up from the start of the buffer while their type tags    *)
(* grow down from its end; when a message ends, the arguments are moved up *)
(* and the tags are put in front of them.  Elements of a bundle have a     *)
(* size slot that holds the place of the enclosing element's slot until    *)
(* the element ends.  An operator that finds no room, or is called at the  *)
(* wrong moment, throws and changes nothing.                               *)
(*                                                                         *)
(*   data          the words from data_ to argumentCurrent_                *)
(*   messageCursor the number of words before messageCursor_               *)
(*   typeTags      the bytes from typeTagsCurrent_ to end_, in the order   *)
(*                 they were put                                           *)
(*   elementSize   elementSizePtr_, as a number of words; None for 0       *)
(*   inMessage     messageIsInProgress_                                    *)
(*   put           history: what the calls that did not throw have asked   *)
(*                 for since the last Clear                                *)
(*   used          the types of argument that the program puts             *)
(***************************************************************************)
EXTENDS OscWords

CONSTANTS
    Capacity,       \* bytes of the buffer
    Numbers,        \* the values put as arguments and time tags
    Programs,       \* sets of type tags: the arguments a program puts
    MaxArguments,   \* bound: arguments of a message
    MaxStray,       \* bound: arguments put outside a message
    MaxPut          \* bound: calls between two Clears

ASSUME StreamAssumption ==
    /\ Capacity \in Nat /\ MaxArguments \in Nat
    /\ MaxStray \in Nat /\ MaxPut \in Nat

VARIABLES data, messageCursor, typeTags, elementSize, inMessage, put, used

vars == <<data, messageCursor, typeTags, elementSize, inMessage, put, used>>

None == -1

IsMessageInProgress == inMessage
IsBundleInProgress  == elementSize # None
IsReady == ~IsMessageInProgress /\ ~IsBundleInProgress

Size == 4 * Len(data)
        + IF IsMessageInProgress THEN RoundUp4(Len(typeTags) + 2) ELSE 0

-----------------------------------------------------------------------------
(* Space                                                                   *)

SlotBytes == IF IsBundleInProgress THEN 4 ELSE 0    \* ElementSizeSlotRequired

BundleSpace == Size + SlotBytes + 16 <= Capacity

MessageSpace(address) ==
    Size + SlotBytes + 4 * Len(TextWords(address)) + 4 <= Capacity

(* A plausible slip: the new tag is not counted.                           *)
ArgumentSpaceMutant(length) ==
    4 * Len(data) + length + RoundUp4(Len(typeTags) + 2) <= Capacity

ArgumentSpace(length) ==
    4 * Len(data) + length + RoundUp4(Len(typeTags) + 3) <= Capacity

-----------------------------------------------------------------------------
(* Elements                                                                *)

(* An exception leaves the stream as it is.                                *)
Throw(exception) == UNCHANGED vars

(* BeginElement: the words from beginPtr on.  The outermost element has no *)
(* size slot; any other starts with one, that links to the enclosing slot. *)
BeginElement(words) ==
    LET slot == IF IsBundleInProgress THEN << <<"link", elementSize>> >> ELSE <<>>
    IN  /\ data' = SubSeq(data, 1, messageCursor) \o slot \o words
        /\ elementSize' = IF IsBundleInProgress THEN messageCursor ELSE 0

(* EndElement, in a packet of these words: the innermost slot gets the     *)
(* size of what lies between it and the end, and the enclosing slot is     *)
(* current again.                                                          *)
EndElement(words, end) ==
    IF elementSize = 0
    THEN /\ elementSize' = None
         /\ data' = words
    ELSE /\ elementSize' = words[elementSize + 1][2]
         /\ data' = [words EXCEPT ![elementSize + 1] =
                        <<"size", 4 * (end - elementSize) - 4>>]

(* << BeginBundle( timeTag )                                               *)
BundleInitiator(time) ==
    IF IsMessageInProgress THEN Throw("MessageInProgress")
    ELSE IF ~BundleSpace THEN Throw("OutOfBufferMemory")
    ELSE /\ BeginElement(Bundle(time))
         /\ messageCursor' = Len(data')
         /\ put' = Append(put, <<"[", time>>)
         /\ UNCHANGED <<typeTags, inMessage, used>>

(* << EndBundle.  An argument that was put after the bundle's last message *)
(* or bundle is not counted, but stays in the packet until something is    *)
(* begun over it.                                                          *)
BundleTerminator ==
    IF ~IsBundleInProgress THEN Throw("BundleNotInProgress")
    ELSE IF IsMessageInProgress THEN Throw("MessageInProgress")
    ELSE /\ EndElement(data, messageCursor)
         /\ put' = Append(put, <<"]">>)
         /\ UNCHANGED <<messageCursor, typeTags, inMessage, used>>

(* << BeginMessage( addressPattern )                                       *)
BeginMessage(address) ==
    IF IsMessageInProgress THEN Throw("MessageInProgress")
    ELSE IF ~MessageSpace(address) THEN Throw("OutOfBufferMemory")
    ELSE /\ BeginElement(TextWords(address))
         /\ messageCursor' = Len(data')
         /\ typeTags' = <<>>
         /\ inMessage' = TRUE
         /\ put' = Append(put, <<"(", address>>)
         /\ UNCHANGED used

(* << EndMessage                                                           *)
MessageTerminator ==
    LET words == SubSeq(data, 1, messageCursor) \o TagWords(typeTags)
                 \o SubSeq(data, messageCursor + 1, Len(data))
    IN  IF ~IsMessageInProgress THEN Throw("MessageNotInProgress")
        ELSE /\ EndElement(words, Len(words))
             /\ messageCursor' = Len(words)
             /\ typeTags' = <<>>
             /\ inMessage' = FALSE
             /\ put' = Append(put, <<")">>)
             /\ UNCHANGED used

(* An argument: nothing asks whether a message is in progress.             *)
Put(tag, value, words) ==
    /\ tag \in used
    /\ Len(typeTags) < IF inMessage THEN MaxArguments ELSE MaxStray
    /\ IF ~ArgumentSpace(4 * Len(words)) THEN Throw("OutOfBufferMemory")
       ELSE /\ typeTags' = Append(typeTags, tag)
            /\ data' = data \o words
            /\ put' = IF inMessage THEN Append(put, <<tag, value>>) ELSE put
            /\ UNCHANGED <<messageCursor, elementSize, inMessage, used>>

PutBool(b)      == Put(IF b THEN "T" ELSE "F", b, <<>>)
PutNil          == Put("N", "nil", <<>>)
PutInfinitum    == Put("I", "infinitum", <<>>)
PutInt32(v)     == Put("i", v, FromInt32(v))
PutFloat(v)     == Put("f", v, FromUInt32(v))
PutChar(v)      == Put("c", v, FromInt32(v))
PutRgbaColor(v) == Put("r", v, FromUInt32(v))
PutMidi(v)      == Put("m", v, FromUInt32(v))
PutInt64(v)     == Put("h", v, FromInt64(v))
PutTimeTag(v)   == Put("t", v, FromUInt64(v))
PutDouble(v)    == Put("d", v, FromUInt64(v))
PutString(s)    == Put("s", s, TextWords(s))
PutSymbol(s)    == Put("S", s, TextWords(s))
PutBlob(b)      == Put("b", b, << <<"size", BlobLength[b]>> >> \o BlobWords(b))

Clear ==
    /\ put # <<>> \/ data # <<>>
    /\ data' = <<>> /\ messageCursor' = 0 /\ typeTags' = <<>>
    /\ elementSize' = None /\ inMessage' = FALSE
    /\ put' = <<>>
    /\ UNCHANGED used

-----------------------------------------------------------------------------

Empty ==
    /\ data = <<>> /\ messageCursor = 0 /\ typeTags = <<>>
    /\ elementSize = None /\ inMessage = FALSE
    /\ put = <<>>

Init == Empty /\ used \in Programs

Off == Empty /\ used = {}      \* nothing is put into the stream

(* No address or string of this program starts like a bundle.              *)
Strings == DOMAIN TextLength \ {"#bundle"}

PutNumber ==
    \E v \in Numbers :
        \/ PutInt32(v) \/ PutFloat(v) \/ PutChar(v) \/ PutRgbaColor(v)
        \/ PutMidi(v) \/ PutInt64(v) \/ PutTimeTag(v) \/ PutDouble(v)

PutFlag == (\E b \in BOOLEAN : PutBool(b)) \/ PutNil \/ PutInfinitum

PutText == \E s \in Strings : PutString(s) \/ PutSymbol(s)

Next ==
    \/ Len(put) < MaxPut /\ \E time \in Numbers : BundleInitiator(time)
    \/ BundleTerminator
    \/ Len(put) < MaxPut /\ \E address \in Strings : BeginMessage(address)
    \/ MessageTerminator
    \/ PutNumber
    \/ PutFlag
    \/ PutText
    \/ \E b \in DOMAIN BlobLength : PutBlob(b)
    \/ Clear

Spec == Init /\ [][Next]_vars

-----------------------------------------------------------------------------
(* Properties                                                              *)

TypeOK ==
    /\ messageCursor \in 0 .. Len(data)
    /\ typeTags \in Seq(TypeTags)
    /\ elementSize \in {None} \cup 0 .. Len(data)
    /\ inMessage \in BOOLEAN
    /\ used \in Programs \cup {{}}

(* The arguments, growing up, never reach the type tags, growing down, and *)
(* whatever EndMessage still has to insert fits: the checks for space of   *)
(* every << cover what the later calls will write.  (An argument put       *)
(* outside a message leaves a tag that the next bundle may overwrite; the  *)
(* next message discards it.)                                              *)
FitsTheBuffer ==
    /\ typeTags # <<>> /\ inMessage => 4 * Len(data) + Len(typeTags) <= Capacity
    /\ Size <= Capacity
=============================================================================
