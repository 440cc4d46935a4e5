---------------------------- MODULE OscReceived -----------------------------
(***************************************************************************)
(* Reading an OSC packet: lib/tuio/osc/OscReceivedElements.cpp, what its   *)
(* iterators hand out (OscPrintReceivedElements.cpp walks them all), and   *)
(* the order in which lib/tuio/OscReceiver.cpp passes the messages on.     *)
(*                                                                         *)
(* A packet is [w, bytes]: whole words, and the number of bytes received,  *)
(* which may end within a word.  Places are numbers of words before them.  *)
(* Reading a message gives [ok, address, arguments], or [ok |-> FALSE]     *)
(* where the code throws MalformedMessageException.                        *)
(***************************************************************************)
EXTENDS OscWords

Word(w, p) == w[p + 1]

EndsInNul(word) ==
    CASE word[1] = "text" -> word[3] = Len(TextWords(word[2]))
      [] word[1] = "tags" -> word[2][4] = Nul
      [] OTHER            -> FALSE

StartsWithNul(word) == word[1] = "text" /\ TextLength[word[2]] = 0

(* FindStr4End( p, end ): the place after the string at p, None if the     *)
(* string does not end.                                                    *)
NoEnd == -1

FindStr4End(w, p, end) ==
    LET ends == {k \in p .. end - 1 : EndsInNul(Word(w, k))}
    IN  CASE p >= end                  -> NoEnd
          [] StartsWithNul(Word(w, p)) -> p + 1
          [] ends = {}                 -> NoEnd
          [] OTHER                     -> 1 + CHOOSE k \in ends :
                                                \A j \in ends : k <= j

(* ToInt32, ToUInt32, ToInt64, ToUInt64                                    *)
ToUInt32(w, p) == Word(w, p)[2]
ToUInt64(w, p) == IF Word(w, p)[2] = Word(w, p + 1)[2]
                  THEN Word(w, p)[2] ELSE "other"
ToInt32(w, p)  == ToUInt32(w, p)
ToInt64(w, p)  == ToUInt64(w, p)

ElementIsBundle(w, p) == Word(w, p) = <<"text", "#bundle", 1>>

-----------------------------------------------------------------------------
(* Messages                                                                *)

(* The place after an argument that starts at p, as Init finds it: NoEnd   *)
(* where it throws.  The two tests of a blob build an exception and do not *)
(* throw it.                                                               *)
After(w, tag, p, end) ==
    CASE tag \in NoBytes    -> p
      [] tag \in FourBytes  -> IF p + 1 > end THEN NoEnd ELSE p + 1
      [] tag \in EightBytes -> IF p + 2 > end THEN NoEnd ELSE p + 2
      [] tag \in Texts      -> FindStr4End(w, p, end)
      [] tag = "b"          -> p + 1 + RoundUp4(ToUInt32(w, p)) \div 4

(* The places where the arguments start, and the one after the last.       *)
Places(w, tags, first, end) ==
    LET at[i \in 0 .. Len(tags)] ==
            IF i = 0 THEN first
            ELSE IF at[i - 1] = NoEnd THEN NoEnd
            ELSE After(w, tags[i], at[i - 1], end)
    IN  at

(* A plausible slip: the padding of a blob is not stepped over.            *)
AdvanceMutant(w, tag, p) ==
    CASE tag \in NoBytes    -> p
      [] tag \in FourBytes  -> p + 1
      [] tag \in EightBytes -> p + 2
      [] tag \in Texts      -> FindStr4End(w, p, Len(w))
      [] tag = "b"          -> p + 1 + ToUInt32(w, p) \div 4

(* Advance: the iterator steps over an argument without looking at the end *)
(* of the message, which Init has done.                                    *)
Advance(w, tag, p) ==
    CASE tag \in NoBytes    -> p
      [] tag \in FourBytes  -> p + 1
      [] tag \in EightBytes -> p + 2
      [] tag \in Texts      -> FindStr4End(w, p, Len(w))
      [] tag = "b"          -> p + 1 + RoundUp4(ToUInt32(w, p)) \div 4

(* The checked conversions: wrong type, or the value.                      *)
As(tags, a, value) == IF a.tag \in tags THEN value ELSE "WrongArgumentType"

AsBool(a)        == As({"T", "F"}, a, a.tag = "T")
AsInt32(a)       == As({"i"}, a, ToInt32(a.w, a.p))
AsFloat(a)       == As({"f"}, a, ToUInt32(a.w, a.p))
AsChar(a)        == As({"c"}, a, ToInt32(a.w, a.p))
AsRgbaColor(a)   == As({"r"}, a, ToUInt32(a.w, a.p))
AsMidiMessage(a) == As({"m"}, a, ToUInt32(a.w, a.p))
AsInt64(a)       == As({"h"}, a, ToInt64(a.w, a.p))
AsTimeTag(a)     == As({"t"}, a, ToUInt64(a.w, a.p))
AsDouble(a)      == As({"d"}, a, ToUInt64(a.w, a.p))
AsString(a)      == As({"s"}, a, Word(a.w, a.p)[2])
AsSymbol(a)      == As({"S"}, a, Word(a.w, a.p)[2])
AsBlob(a)        == As({"b"}, a,
    IF ToUInt32(a.w, a.p) = 0
    THEN CHOOSE b \in DOMAIN BlobLength : BlobLength[b] = 0
    ELSE Word(a.w, a.p + 1)[2])

(* operator<< of an argument: every tag has its conversion.                *)
Value(a) ==
    CASE a.tag \in {"T", "F"} -> AsBool(a)
      [] a.tag = "N" -> "nil"
      [] a.tag = "I" -> "infinitum"
      [] a.tag = "i" -> AsInt32(a)
      [] a.tag = "f" -> AsFloat(a)
      [] a.tag = "c" -> AsChar(a)
      [] a.tag = "r" -> AsRgbaColor(a)
      [] a.tag = "m" -> AsMidiMessage(a)
      [] a.tag = "h" -> AsInt64(a)
      [] a.tag = "t" -> AsTimeTag(a)
      [] a.tag = "d" -> AsDouble(a)
      [] a.tag = "s" -> AsString(a)
      [] a.tag = "S" -> AsSymbol(a)
      [] a.tag = "b" -> AsBlob(a)

(* The arguments in the order the iterator meets them.                     *)
Arguments(w, tags, first) ==
    LET at[i \in 1 .. Len(tags)] ==
            IF i = 1 THEN first ELSE Advance(w, tags[i - 1], at[i - 1])
    IN  [i \in 1 .. Len(tags) |->
            <<tags[i], Value([tag |-> tags[i], w |-> w, p |-> at[i]])>>]

(* The type tags of the words from types to first: the characters between  *)
(* the comma and the first zero byte.                                      *)
Tags(w, types, first) ==
    LET char(i) == Word(w, types + (i \div 4))[2][(i % 4) + 1]
        length  == CHOOSE n \in 0 .. 4 * (first - types) :
                       char(n + 1) = Nul /\ \A i \in 1 .. n : char(i) # Nul
    IN  [i \in 1 .. length |-> char(i)]

Malformed == [ok |-> FALSE]

(* ReceivedMessage::Init, for the bytes from word p on.                    *)
Message(w, p, bytes) ==
    LET end   == p + bytes \div 4
        types == FindStr4End(w, p, end)
        first == FindStr4End(w, types, end)
        tags  == Tags(w, types, first)
        empty == [ok |-> TRUE, address |-> Word(w, p)[2], arguments |-> <<>>]
    IN  CASE bytes = 0 \/ bytes % 4 # 0     -> Malformed
          [] types = NoEnd                  -> Malformed
          [] types = end                    -> empty
          [] Word(w, types)[1] # "tags"     -> Malformed
          [] Word(w, types)[2][2] = Nul     -> empty
          [] first = NoEnd                  -> Malformed
          [] \E c \in ToSet(tags) : c \notin TypeTags -> Malformed
          [] Places(w, tags, first, end)[Len(tags)] = NoEnd -> Malformed
          [] OTHER -> [empty EXCEPT !.arguments = Arguments(w, tags, first)]

-----------------------------------------------------------------------------
(* Bundles                                                                 *)

(* ++ of the loop of ReceivedBundle::Init: the place after the element     *)
(* whose size slot is at p, NoEnd where it throws.                         *)
AfterElement(w, p, end) ==
    LET next == p + 1 + Word(w, p)[2] \div 4
    IN  IF Word(w, p)[1] # "size" \/ Word(w, p)[2] % 4 # 0 \/ next > end
        THEN NoEnd ELSE next

(* A round of the loop adds a place to those it has been at.               *)
OneMore(w, end, places) ==
    IF Last(places) \in {NoEnd, end} THEN places
    ELSE Append(places, AfterElement(w, Last(places), end))

(* Every element takes a word at least, so these are all the rounds.       *)
LoopPlaces(w, p, end) ==
    LET places[k \in 0 .. end - p] ==
            IF k = 0 THEN <<p>> ELSE OneMore(w, end, places[k - 1])
    IN  places[end - p]

(* ReceivedBundle::Init: the places of the size slots of the elements of   *)
(* the bundle at p, or <<NoEnd>> where it throws MalformedBundleException. *)
Elements(w, p, bytes) ==
    LET end    == p + bytes \div 4
        places == LoopPlaces(w, p + 4, end)
    IN  IF \/ bytes < 16 \/ bytes % 4 # 0
           \/ Word(w, p + 1) # <<"text", "#bundle", 2>>
           \/ Last(places) # end
        THEN <<NoEnd>> ELSE Front(places)

(* The places and sizes that an element within w can have.                 *)
Extents(w) == {x \in (0 .. Len(w)) \X (0 .. 4 * Len(w) + 3) :
                  x[1] + x[2] \div 4 <= Len(w)}

-----------------------------------------------------------------------------
(* What a listener is given: the messages, and what the call throws.       *)

Quietly(messages) == [messages |-> messages, throws |-> "nothing"]
Throwing(exception) == [messages |-> <<>>, throws |-> exception]

ProcessMessage(w, p, bytes) ==
    LET m == Message(w, p, bytes)
    IN  IF m.ok THEN Quietly(<< <<m.address, m.arguments>> >>)
        ELSE Throwing("MalformedMessage")

(* The loop over the elements of a bundle ends with the first that throws. *)
(* A bundle that is malformed throws where it is constructed, so it ends   *)
(* the loop of the bundle around it, which catches that and nothing else.  *)
ProcessElements(process, w, p, bytes) ==
    LET slots == Elements(w, p, bytes)
        part  == [k \in 1 .. Len(slots) |->
                     IF ElementIsBundle(w, slots[k] + 1)
                     THEN process[<<slots[k] + 1, Word(w, slots[k])[2]>>]
                     ELSE ProcessMessage(w, slots[k] + 1, Word(w, slots[k])[2])]
        done  == {k \in 1 .. Len(slots) :
                     \A j \in 1 .. k - 1 : part[j].throws = "nothing"}
    IN  IF slots = <<NoEnd>> THEN Throwing("MalformedBundle")
        ELSE [messages |-> FlattenSeq([k \in 1 .. Cardinality(done) |->
                                           part[k].messages]),
              throws   |-> IF \E k \in done : part[k].throws = "MalformedMessage"
                           THEN "MalformedMessage" ELSE "nothing"]

ProcessBundle(w, p, bytes) ==
    LET process[x \in Extents(w)] == ProcessElements(process, w, x[1], x[2])
    IN  process[<<p, bytes>>]

(* "escapes" is a MalformedMessageException: nothing catches it, and it    *)
(* ends the thread that receives.                                          *)
ProcessPacket(packet) ==
    LET done == IF ElementIsBundle(packet.w, 0)
                THEN ProcessBundle(packet.w, 0, packet.bytes)
                ELSE ProcessMessage(packet.w, 0, packet.bytes)
    IN  [messages |-> done.messages, escapes |-> done.throws = "MalformedMessage"]

Nothing == [messages |-> <<>>, escapes |-> FALSE]

-----------------------------------------------------------------------------
(* operator<< of messages, bundles and packets: everything a packet holds, *)
(* in order, brackets and time tags included.                              *)

PrintMessage(w, p, bytes) ==
    LET m == Message(w, p, bytes)
    IN  << <<"(", m.address>> >> \o m.arguments \o << <<")">> >>

PrintElements(print, w, p, bytes) ==
    LET slots == Elements(w, p, bytes)
        part  == [k \in 1 .. Len(slots) |->
                     IF ElementIsBundle(w, slots[k] + 1)
                     THEN print[<<slots[k] + 1, Word(w, slots[k])[2]>>]
                     ELSE PrintMessage(w, slots[k] + 1, Word(w, slots[k])[2])]
    IN  IF slots = <<NoEnd>> THEN << <<"MalformedBundle">> >>
        ELSE << <<"[", ToUInt64(w, p + 2)>> >> \o FlattenSeq(part) \o << <<"]">> >>

PrintBundle(w, p, bytes) ==
    LET print[x \in Extents(w)] == PrintElements(print, w, x[1], x[2])
    IN  print[<<p, bytes>>]

PrintPacket(packet) ==
    IF ElementIsBundle(packet.w, 0)
    THEN PrintBundle(packet.w, 0, packet.bytes)
    ELSE PrintMessage(packet.w, 0, packet.bytes)
=============================================================================
