---------------------------------- MODULE Tlv ----------------------------------
(***************************************************************************)
(* reader/parsing/tlv.py: parse_tlv_objects, one iteration of its loop a step; *)
(* ISO 7816 padding as both protocols add and remove it.  Bytes are 0 .. 255,  *)
(* offsets count from 0 as in the code.                                        *)
(***************************************************************************)
EXTENDS Naturals, Sequences

CONSTANTS
  Strings,    \* byte strings that may have to be parsed, whatever they are
  Written,    \* encodings: records [data, layout], see Laid
  BlockSizes, \* of the ciphers that padding is for
  None

Bytes == 0 .. 255

(* What a card that encodes objects sends: each is a tag, a length in one of its forms and a
   value; there are zeros before, between and behind them. *)

\* One byte, or two if the low five bits of the first are ones; zero is for padding.
IsTag(tag) ==
  /\ tag \in Seq(Bytes) /\ Len(tag) \in {1, 2}
  /\ tag[1] # 0
  /\ Len(tag) = 2 <=> tag[1] % 32 = 31

\* n in a byte below 128, or in one to three bytes behind their number.
LengthFields(n) ==
  (IF n < 128 THEN {<<n>>} ELSE {}) \cup (IF n < 256 THEN {<<129, n>>} ELSE {})
  \cup (IF n \div 256 < 256 THEN {<<130, n \div 256, n % 256>>} ELSE {})
  \cup (IF (n \div 256) \div 256 < 256
        THEN {<<131, (n \div 256) \div 256, (n \div 256) % 256, n % 256>>} ELSE {})

TagEnd(o)    == o.start + Len(o.tag)
LengthEnd(o) == TagEnd(o) + Len(o.length)
ValueEnd(o)  == LengthEnd(o) + Len(o.value)

Encoded == [start : Nat, tag : Seq(Bytes), length : Seq(Bytes), value : Seq(Bytes)]

\* The bytes of d from o.start on are those of o.
Holds(d, o) ==
  /\ IsTag(o.tag)
  /\ o.length \in LengthFields(Len(o.value))
  /\ ValueEnd(o) <= Len(d)
  /\ \A k \in 1 .. Len(o.tag) : d[o.start + k] = o.tag[k]
  /\ \A k \in 1 .. Len(o.length) : d[TagEnd(o) + k] = o.length[k]
  /\ \A k \in 1 .. Len(o.value) : d[LengthEnd(o) + k] = o.value[k]

\* d is the objects of layout one after the other, and otherwise zeros.
Laid(d, layout) ==
  /\ d \in Seq(Bytes) /\ layout \in Seq(Encoded)
  /\ \A i \in DOMAIN layout :
       /\ Holds(d, layout[i])
       /\ \A j \in 1 .. i - 1 : ValueEnd(layout[j]) <= layout[i].start
  /\ \A k \in 0 .. Len(d) - 1 :
       d[k + 1] = 0 \/ \E i \in DOMAIN layout : layout[i].start <= k /\ k < ValueEnd(layout[i])

ASSUME InputsAssumption == Strings \subseteq Seq(Bytes) /\ \A w \in Written : Laid(w.data, w.layout)
ASSUME BlockAssumption   == BlockSizes \subseteq Nat \ {0}

VARIABLES
  data,    \* the bytes to parse
  meant,   \* history: the layout of the objects data encodes, None for bytes from anywhere
  index,
  objects, \* the TlvObjects, each as the bounds of its encoding and of its value
  status   \* "parsing", "done" or "error" for TlvParseError

vars == <<data, meant, index, objects, status>>

Init ==
  /\ \/ data \in Strings /\ meant = None
     \/ \E w \in Written : data = w.data /\ meant = w.layout
  /\ index = 0
  /\ objects = <<>>
  /\ status = "parsing"

Byte(i) == data[i + 1]
OnlyZerosFrom(i) == \A k \in i .. Len(data) - 1 : Byte(k) = 0
-----------------------------------------------------------------------------
(* One object: the places of its parts, each of which may be missing. *)

\* first & 0x1F == 0x1F: a second tag byte.
TagSize(i) == IF Byte(i) % 32 = 31 THEN 2 ELSE 1

LengthAt(i) == i + TagSize(i)

\* _read_length: below 0x80 the byte is the length, else how many bytes of it follow.
LengthSize(i) == IF Byte(LengthAt(i)) < 128 THEN 0 ELSE Byte(LengthAt(i)) - 128

ValueAt(i) == LengthAt(i) + 1 + LengthSize(i)

KnownLength(i) == Byte(LengthAt(i)) < 128 \/ LengthSize(i) \in 1 .. 3

HeaderIsThere(i) ==
  /\ LengthAt(i) < Len(data)
  /\ KnownLength(i)
  /\ ValueAt(i) <= Len(data)

\* int.from_bytes(..., "big") of the one to three bytes before the value.
LittleEndian(i) ==
  Byte(LengthAt(i) + 1) + (IF LengthSize(i) > 1 THEN 256 * Byte(LengthAt(i) + 2) ELSE 0)
  + (IF LengthSize(i) > 2 THEN 65536 * Byte(LengthAt(i) + 3) ELSE 0)
BigEndian(i) ==
  Byte(ValueAt(i) - 1) + (IF LengthSize(i) > 1 THEN 256 * Byte(ValueAt(i) - 2) ELSE 0)
  + (IF LengthSize(i) > 2 THEN 65536 * Byte(ValueAt(i) - 3) ELSE 0)

ValueLength(i) == IF LengthSize(i) = 0 THEN Byte(LengthAt(i)) ELSE BigEndian(i)

\* A slice beyond the end is shorter than asked for.
MayBeCut(i) == TRUE
ValueIsWhole(i) == ValueAt(i) + ValueLength(i) <= Len(data)

ObjectAt(i) == [start |-> i, tag |-> LengthAt(i), value |-> ValueAt(i),
                end |-> ValueAt(i) + ValueLength(i)]
-----------------------------------------------------------------------------
(* The loop of parse_tlv_objects. *)

Stop ==
  /\ status = "parsing"
  /\ OnlyZerosFrom(index)
  /\ status' = "done"
  /\ UNCHANGED <<data, meant, index, objects>>

SkipZero ==
  /\ status = "parsing"
  /\ ~OnlyZerosFrom(index)
  /\ Byte(index) = 0
  /\ index' = index + 1
  /\ UNCHANGED <<data, meant, objects, status>>

ForgetsValue(object) == object.value
NextIndex(object) == object.end

ReadObject ==
  /\ status = "parsing"
  /\ ~OnlyZerosFrom(index)
  /\ Byte(index) # 0
  /\ \/ /\ HeaderIsThere(index) /\ ValueIsWhole(index)
        /\ objects' = Append(objects, ObjectAt(index))
        /\ index' = NextIndex(ObjectAt(index))
        /\ UNCHANGED status
     \/ /\ ~(HeaderIsThere(index) /\ ValueIsWhole(index))
        /\ status' = "error"
        /\ UNCHANGED <<index, objects>>
  /\ UNCHANGED <<data, meant>>

Next == Stop \/ SkipZero \/ ReadObject

Spec == Init /\ [][Next]_vars
-----------------------------------------------------------------------------
(* What callers read off an object. *)

Tag(object)   == SubSeq(data, object.start + 1, object.tag)
Value(object) == SubSeq(data, object.value + 1, object.end)
-----------------------------------------------------------------------------
(* ISO 7816 padding: 0x80, then zeros to the next multiple of the block size. *)

PaddedLength(n, block) == (n \div block + 1) * block

Pad(bytes, block) ==
  [i \in 1 .. PaddedLength(Len(bytes), block) |->
     IF i <= Len(bytes) THEN bytes[i] ELSE IF i = Len(bytes) + 1 THEN 128 ELSE 0]

\* The last byte that is not zero must be 0x80; None for the error.
FirstMark(bytes, i) == bytes[i] = 128 /\ \A j \in 1 .. i - 1 : bytes[j] # 128
IsMark(bytes, i) == bytes[i] = 128 /\ \A j \in i + 1 .. Len(bytes) : bytes[j] = 0

Unpad(bytes) ==
  IF \E i \in 1 .. Len(bytes) : IsMark(bytes, i)
  THEN SubSeq(bytes, 1, (CHOOSE i \in 1 .. Len(bytes) : IsMark(bytes, i)) - 1)
  ELSE None
-----------------------------------------------------------------------------
\* The state's types; nothing is ever taken from beyond the end of the data.
TypeOK ==
  /\ data \in Seq(Bytes)
  /\ index \in 0 .. Len(data)
  /\ objects \in Seq([start : Nat, tag : Nat, value : Nat, end : 0 .. Len(data)])
  /\ status \in {"parsing", "done", "error"}

\* The objects are disjoint and in order, and every byte passed over, all of them when the
\* parser is done, is part of one of them or zero (parse_tlv_objects): no byte a card sent is
\* silently lost or used twice, whatever it sent.
ObjectsTile ==
  /\ \A i \in DOMAIN objects :
       /\ objects[i].start < objects[i].tag /\ objects[i].tag < objects[i].value
       /\ objects[i].value <= objects[i].end /\ objects[i].end <= index
       /\ \A j \in 1 .. i - 1 : objects[j].end <= objects[i].start
  /\ \A k \in 0 .. index - 1 :
       Byte(k) = 0 \/ \E i \in DOMAIN objects : objects[i].start <= k /\ k < objects[i].end
  /\ status = "done" => OnlyZerosFrom(index)

\* Objects a card encoded, in any length form and with zeros before, between and behind them, are
\* read as what they were (test_tlv.py).
WellFormedIsRead ==
  meant # None /\ status # "parsing" =>
    /\ status = "done"
    /\ DOMAIN objects = DOMAIN meant
    /\ \A i \in DOMAIN meant : Tag(objects[i]) = meant[i].tag /\ Value(objects[i]) = meant[i].value

\* Padding is taken off exactly as it was put on, whatever zeros and marks the content ends in.
PaddingComesOff == \A block \in BlockSizes : Unpad(Pad(data, block)) = data
=============================================================================
