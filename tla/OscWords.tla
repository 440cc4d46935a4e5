------------------------------ MODULE OscWords ------------------------------
(***************************************************************************)
(* The layout of an OSC packet, in words of four bytes.  Everything the    *)
(* library writes is padded to whole words, so a packet is a sequence of   *)
(* words and a word is a tuple that says what it is:                       *)
(*                                                                         *)
(*   <<"text", s, k>>     the k-th word of the string s, nul and padding   *)
(*                        included                                         *)
(*   <<"tags", q>>        four bytes of a type tag string                  *)
(*   <<"num", v, k>>      the k-th word of the number v, most significant  *)
(*                        first                                            *)
(*   <<"size", n>>        an element's size, in bytes, in network order    *)
(*   <<"link", n>>        a size slot still in use as a link: the offset   *)
(*                        of the enclosing element's slot, in host order   *)
(*   <<"raw", b, k>>      the k-th word of the blob b                      *)
(*                                                                         *)
(* Strings and blobs are members of small sets, known by their lengths;    *)
(* there is one blob at most without a byte.                               *)
(***************************************************************************)
EXTENDS Integers, Sequences, SequencesExt

CONSTANTS
    TextLength,     \* a function: the length in bytes of every string used
    BlobLength      \* a function: the length in bytes of every blob used

ASSUME LengthAssumption ==
    /\ \A s \in DOMAIN TextLength : TextLength[s] \in Nat
    /\ \A b \in DOMAIN BlobLength : BlobLength[b] \in Nat
    /\ \A b, c \in DOMAIN BlobLength :
          BlobLength[b] = 0 /\ BlobLength[c] = 0 => b = c

Comma == ","        \* what a type tag string starts with
Nul == "nul"        \* the zero byte of a type tag string

-----------------------------------------------------------------------------
(* Sizes                                                                   *)

(* RoundUp4 of OscOutboundPacketStream.cpp: for 0 it gives 0, because      *)
(* ((0-1) & ~3) + 4 is -4 + 4.                                             *)
RoundUp4(x) == ((x + 3) \div 4) * 4

(* The words of a string include its terminating zero byte.                *)
TextWords(s) == [k \in 1 .. RoundUp4(TextLength[s] + 1) \div 4 |->
                    <<"text", s, k>>]

BlobWords(b) == [k \in 1 .. RoundUp4(BlobLength[b]) \div 4 |-> <<"raw", b, k>>]

(* FromInt32, FromUInt32, FromInt64, FromUInt64: the bytes of a number,    *)
(* most significant first.                                                 *)
FromUInt32(v) == << <<"num", v, 1>> >>
FromUInt64(v) == << <<"num", v, 1>>, <<"num", v, 2>> >>
FromInt32(v)  == FromUInt32(v)
FromInt64(v)  == FromUInt64(v)

(* A type tag string: a comma, the tags, and zero bytes to the next word.  *)
TagWords(tags) ==
    LET bytes == <<Comma>> \o tags
        size  == RoundUp4(Len(tags) + 2)
        full  == [i \in 1 .. size |-> IF i <= Len(bytes) THEN bytes[i] ELSE Nul]
    IN  [k \in 1 .. size \div 4 |-> <<"tags", SubSeq(full, 4*k - 3, 4*k)>>]

Bundle(time) == << <<"text", "#bundle", 1>>, <<"text", "#bundle", 2>> >>
                \o FromUInt64(time)

-----------------------------------------------------------------------------
(* Types and the number of bytes an argument of each takes                 *)

NoBytes    == {"T", "F", "N", "I"}         \* true, false, nil, infinitum
FourBytes  == {"i", "f", "c", "r", "m"}    \* int32, float, char, rgba, midi
EightBytes == {"h", "t", "d"}              \* int64, time tag, double
Texts      == {"s", "S"}                   \* string, symbol
TypeTags   == NoBytes \cup FourBytes \cup EightBytes \cup Texts \cup {"b"}
=============================================================================
