------------------------------- MODULE TlvProofs -------------------------------
(***************************************************************************)
(* Proofs about Tlv for byte strings of any length: the objects tile the data, *)
(* objects that were encoded are read back, and padding comes off as it was    *)
(* put on.  ObjectsTile is inductive together with the bounds that TypeOK puts *)
(* on the index.                                                              *)
(***************************************************************************)
EXTENDS Tlv, TLAPS

\* What is taken from within the data is a byte, and a number.
LEMMA ByteType ==
  ASSUME data \in Seq(Bytes)
  PROVE  \A k \in Nat : k < Len(data) => Byte(k) \in Bytes /\ Byte(k) \in Nat
<1> SUFFICES ASSUME NEW k \in Nat, k < Len(data)
             PROVE  Byte(k) \in Bytes /\ Byte(k) \in Nat
  OBVIOUS
<1>1. Len(data) \in Nat /\ k + 1 \in 1 .. Len(data)
  OBVIOUS
<1>2. Byte(k) \in Bytes
  BY <1>1 DEF Byte
<1>3. \A b \in Bytes : b \in Nat
  BY DEF Bytes
<1> QED
  BY <1>2, <1>3

\* A header that is there lies between the index and the end of the data, and a whole value
\* behind it (_read_tag, _read_length).
LEMMA PartsInOrder ==
  ASSUME data \in Seq(Bytes), NEW i \in Nat, i < Len(data), HeaderIsThere(i)
  PROVE  /\ LengthAt(i) \in Nat /\ i < LengthAt(i)
         /\ ValueAt(i) \in Nat /\ LengthAt(i) < ValueAt(i) /\ ValueAt(i) <= Len(data)
         /\ ValueLength(i) \in Nat
<1>1. Byte(i) \in Bytes
  BY ByteType
<1>2. TagSize(i) \in {1, 2}
  BY DEF TagSize
<1>3. LengthAt(i) \in Nat /\ i < LengthAt(i) /\ LengthAt(i) < Len(data)
  BY <1>2 DEF LengthAt, HeaderIsThere
<1>4. Byte(LengthAt(i)) \in Bytes
  BY <1>3, ByteType
<1>5. LengthSize(i) \in 0 .. 3
  BY <1>4 DEF LengthSize, HeaderIsThere, KnownLength, Bytes
<1>6. ValueAt(i) \in Nat /\ LengthAt(i) < ValueAt(i) /\ ValueAt(i) <= Len(data)
  BY <1>3, <1>5 DEF ValueAt, HeaderIsThere
<1>7. ASSUME LengthSize(i) # 0 PROVE BigEndian(i) \in Nat
  <2>1. /\ Len(data) \in Nat
        /\ ValueAt(i) - 1 \in Nat /\ ValueAt(i) - 1 < Len(data)
        /\ LengthSize(i) > 1 => ValueAt(i) - 2 \in Nat /\ ValueAt(i) - 2 < Len(data)
        /\ LengthSize(i) > 2 => ValueAt(i) - 3 \in Nat /\ ValueAt(i) - 3 < Len(data)
    BY <1>3, <1>5, <1>6 DEF ValueAt
  <2>2. /\ Byte(ValueAt(i) - 1) \in Nat
        /\ LengthSize(i) > 1 => Byte(ValueAt(i) - 2) \in Nat
        /\ LengthSize(i) > 2 => Byte(ValueAt(i) - 3) \in Nat
    BY <2>1, ByteType
  <2> QED
    BY <1>5, <2>2 DEF BigEndian
<1>8. ValueLength(i) \in Nat
  <2>1. Byte(LengthAt(i)) \in Nat
    BY <1>3, ByteType
  <2> QED
    BY <1>7, <2>1 DEF ValueLength
<1> QED
  BY <1>3, <1>6, <1>8
-----------------------------------------------------------------------------
\* The types hold before the first byte is read.
LEMMA TypeInit == Init => TypeOK
BY InputsAssumption DEF Init, TypeOK, Laid

\* Every step of the parser keeps the types.
LEMMA TypeStep == TypeOK /\ [Next]_vars => TypeOK'
<1> SUFFICES ASSUME TypeOK, [Next]_vars PROVE TypeOK'
  OBVIOUS
<1> USE DEF TypeOK
<1>1. CASE Stop
  BY <1>1 DEF Stop, TypeOK
<1>2. CASE SkipZero
  <2>1. index < Len(data)
    BY <1>2 DEF SkipZero, OnlyZerosFrom
  <2> QED
    BY <1>2, <2>1 DEF SkipZero
<1>3. CASE ReadObject
  <2>1. index < Len(data)
    BY <1>3 DEF ReadObject, OnlyZerosFrom
  <2>2. CASE HeaderIsThere(index) /\ ValueIsWhole(index)
    <3> DEFINE S == [start : Nat, tag : Nat, value : Nat, end : 0 .. Len(data)]
    <3>1. ObjectAt(index) \in S /\ ObjectAt(index).end \in 0 .. Len(data)
      BY <2>1, <2>2, PartsInOrder DEF ObjectAt, ValueIsWhole
    <3>2. /\ objects' = Append(objects, ObjectAt(index)) /\ index' = ObjectAt(index).end
          /\ data' = data /\ status' = status
      BY <1>3, <2>2 DEF ReadObject, NextIndex
    <3>3. objects \in Seq(S)
      OBVIOUS
    <3> HIDE DEF S
    <3>4. objects' \in Seq(S)
      BY <3>1, <3>2, <3>3
    <3> QED
      BY <3>1, <3>2, <3>4 DEF S
  <2>3. CASE ~(HeaderIsThere(index) /\ ValueIsWhole(index))
    BY <1>3, <2>3 DEF ReadObject
  <2> QED
    BY <2>2, <2>3
<1>4. CASE UNCHANGED vars
  BY <1>4 DEF vars
<1> QED
  BY <1>1, <1>2, <1>3, <1>4 DEF Next

\* The state's types, and that nothing is taken from beyond the end of the data, for byte strings
\* of any length (parse_tlv_objects).
THEOREM TypeCorrect == Spec => []TypeOK
BY TypeInit, TypeStep, PTL DEF Spec
-----------------------------------------------------------------------------
\* No objects tile nothing.
LEMMA TileInit == Init => ObjectsTile
<1> SUFFICES ASSUME Init PROVE ObjectsTile
  OBVIOUS
<1>1. index = 0 /\ objects = <<>> /\ status = "parsing"
  BY DEF Init
<1> QED
  BY <1>1 DEF ObjectsTile

\* Where an object ends is an index.
LEMMA EndType == TypeOK => \A i \in DOMAIN objects : objects[i].end \in Nat
<1> SUFFICES ASSUME TypeOK, NEW i \in DOMAIN objects PROVE objects[i].end \in Nat
  OBVIOUS
<1> DEFINE S == [start : Nat, tag : Nat, value : Nat, end : 0 .. Len(data)]
<1>1. objects \in Seq(S) /\ Len(data) \in Nat
  BY DEF TypeOK
<1> HIDE DEF S
<1>2. objects[i] \in S
  BY <1>1
<1> QED
  BY <1>1, <1>2 DEF S

\* Every step of the parser keeps the tiling.
LEMMA TileStep == TypeOK /\ ObjectsTile /\ [Next]_vars => ObjectsTile'
<1> SUFFICES ASSUME TypeOK, ObjectsTile, [Next]_vars PROVE ObjectsTile'
  OBVIOUS
<1>1. CASE Stop
  BY <1>1 DEF Stop, ObjectsTile, OnlyZerosFrom, Byte
<1>2. CASE SkipZero
  <2>1. index' = index + 1 /\ Byte(index) = 0 /\ status' = "parsing"
    BY <1>2 DEF SkipZero
  <2>2. UNCHANGED <<data, objects>>
    BY <1>2 DEF SkipZero
  <2>3. index \in Nat /\ DOMAIN objects \subseteq Nat
    BY DEF TypeOK
  <2>4. ASSUME NEW i \in DOMAIN objects'
        PROVE  /\ objects'[i].start < objects'[i].tag /\ objects'[i].tag < objects'[i].value
               /\ objects'[i].value <= objects'[i].end /\ objects'[i].end <= index'
               /\ \A j \in 1 .. i - 1 : objects'[j].end <= objects'[i].start
    <3>1. objects[i].end \in Nat
      BY <2>2, EndType
    <3> QED
      BY <2>1, <2>2, <2>3, <3>1 DEF ObjectsTile
  <2>5. ASSUME NEW k \in 0 .. index' - 1
        PROVE  Byte(k)' = 0 \/ \E i \in DOMAIN objects' : objects'[i].start <= k /\ k < objects'[i].end
    <3>1. k = index \/ k \in 0 .. index - 1
      BY <2>1, <2>3
    <3> QED
      BY <2>1, <2>2, <3>1 DEF ObjectsTile, Byte
  <2> QED
    BY <2>1, <2>4, <2>5 DEF ObjectsTile
<1>3. CASE ReadObject
  <2>1. index \in Nat /\ index < Len(data) /\ data' = data
    BY <1>3 DEF ReadObject, OnlyZerosFrom, TypeOK
  <2>2. CASE HeaderIsThere(index) /\ ValueIsWhole(index)
    <3> DEFINE new == ObjectAt(index)
    <3>1. /\ objects' = Append(objects, new) /\ index' = new.end /\ status' = "parsing"
      BY <1>3, <2>2 DEF ReadObject, NextIndex
    <3>2. /\ new.start = index /\ new.start < new.tag /\ new.tag < new.value
          /\ new.value <= new.end /\ new.end \in Nat
      BY <2>1, <2>2, PartsInOrder DEF ObjectAt, TypeOK
    <3> HIDE DEF new
    <3>3. /\ DOMAIN objects = 1 .. Len(objects) /\ Len(objects) \in Nat
          /\ DOMAIN objects' = 1 .. Len(objects) + 1
          /\ objects'[Len(objects) + 1] = new
          /\ \A i \in DOMAIN objects : objects'[i] = objects[i]
      <4> DEFINE S == [start : Nat, tag : Nat, value : Nat, end : 0 .. Len(data)]
      <4>1. objects \in Seq(S)
        BY DEF TypeOK
      <4> HIDE DEF S
      <4>2. /\ DOMAIN objects = 1 .. Len(objects) /\ Len(objects) \in Nat
        BY <4>1
      <4>3. /\ DOMAIN Append(objects, new) = 1 .. Len(objects) + 1
            /\ Append(objects, new)[Len(objects) + 1] = new
            /\ \A i \in 1 .. Len(objects) : Append(objects, new)[i] = objects[i]
        BY <4>1, <4>2
      <4> QED
        BY <3>1, <4>2, <4>3
    <3>4. \A i \in DOMAIN objects : objects[i].end \in Nat /\ objects[i].end <= index
      BY EndType DEF ObjectsTile
    <3>5. ASSUME NEW i \in DOMAIN objects'
          PROVE  /\ objects'[i].start < objects'[i].tag /\ objects'[i].tag < objects'[i].value
                 /\ objects'[i].value <= objects'[i].end /\ objects'[i].end <= index'
                 /\ \A j \in 1 .. i - 1 : objects'[j].end <= objects'[i].start
      <4>1. CASE i = Len(objects) + 1
        BY <3>1, <3>2, <3>3, <3>4, <4>1
      <4>2. CASE i \in DOMAIN objects
        <5>1. objects'[i] = objects[i] /\ \A j \in 1 .. i - 1 : objects'[j] = objects[j]
          BY <3>3, <4>2
        <5>2. objects[i].end <= new.end
          <6>1. objects[i].end \in Nat /\ objects[i].end <= index
            BY <3>4, <4>2
          <6>2. index <= new.end
            BY <2>1, <2>2, PartsInOrder DEF ObjectAt, TypeOK, new
          <6> QED
            BY <2>1, <3>2, <6>1, <6>2
        <5> QED
          BY <3>1, <4>2, <5>1, <5>2 DEF ObjectsTile
      <4> QED
        BY <3>3, <4>1, <4>2
    <3>6. ASSUME NEW k \in 0 .. index' - 1
          PROVE  Byte(k)' = 0 \/ \E i \in DOMAIN objects' : objects'[i].start <= k /\ k < objects'[i].end
      <4>1. CASE k \in 0 .. index - 1
        BY <2>1, <3>3, <4>1 DEF ObjectsTile, Byte
      <4>2. CASE index <= k
        BY <2>1, <3>1, <3>2, <3>3, <4>2
      <4> QED
        BY <2>1, <4>1, <4>2
    <3> QED
      BY <3>1, <3>5, <3>6 DEF ObjectsTile
  <2>3. CASE ~(HeaderIsThere(index) /\ ValueIsWhole(index))
    BY <1>3, <2>3 DEF ReadObject, ObjectsTile, Byte
  <2> QED
    BY <2>2, <2>3
<1>4. CASE UNCHANGED vars
  BY <1>4 DEF vars, ObjectsTile, OnlyZerosFrom, Byte
<1> QED
  BY <1>1, <1>2, <1>3, <1>4 DEF Next

\* For byte strings of any length, and any bytes, the objects are disjoint, in order, and leave
\* out nothing but zeros (parse_tlv_objects).
THEOREM ObjectsAlwaysTile == Spec => []ObjectsTile
<1>1. TypeOK /\ ObjectsTile /\ [Next]_vars => (TypeOK /\ ObjectsTile)'
  BY TypeStep, TileStep
<1> QED
  BY <1>1, TypeInit, TileInit, PTL DEF Spec
-----------------------------------------------------------------------------
\* There is room for the mark behind the content (pad_iso7816, _pad_80).
LEMMA PaddingFits ==
  ASSUME NEW n \in Nat, NEW block \in Nat \ {0}
  PROVE  PaddedLength(n, block) \in Nat /\ n < PaddedLength(n, block)
<1> DEFINE q == n \div block
<1>1. q \in Nat /\ n < (q + 1) * block
  OBVIOUS
<1> HIDE DEF q
<1>2. (q + 1) * block \in Nat
  BY <1>1
<1> QED
  BY <1>1, <1>2 DEF PaddedLength, q

\* Whatever the content, of any length, and for any block size, padding is taken off as it was put
\* on: no content ends in what is taken for the mark (remove_iso7816_padding, _unpad_80).
LEMMA UnpadPad ==
  ASSUME NEW bytes \in Seq(Bytes), NEW block \in Nat \ {0}
  PROVE  Unpad(Pad(bytes, block)) = bytes
<1> DEFINE n == Len(bytes)
           p == PaddedLength(n, block)
           padded == Pad(bytes, block)
<1>1. n \in Nat /\ p \in Nat /\ n < p
  <2>1. n \in Nat
    OBVIOUS
  <2> QED
    BY <2>1, PaddingFits
<1>2. padded \in [1 .. p -> Bytes]
  <2>1. \A i \in 1 .. n : bytes[i] \in Bytes
    OBVIOUS
  <2>2. 128 \in Bytes /\ 0 \in Bytes
    BY DEF Bytes
  <2> HIDE DEF p
  <2> QED
    BY <1>1, <2>1, <2>2 DEF Pad, p
<1>3. padded \in Seq(Bytes) /\ Len(padded) = p
  BY <1>1, <1>2
<1>4. /\ \A i \in 1 .. n : padded[i] = bytes[i]
      /\ padded[n + 1] = 128
      /\ \A i \in n + 2 .. p : padded[i] = 0
  BY <1>1 DEF Pad
<1> HIDE DEF padded, p
<1>5. \A i \in 1 .. Len(padded) : IsMark(padded, i) <=> i = n + 1
  BY <1>1, <1>3, <1>4 DEF IsMark
<1>6. n + 1 \in 1 .. Len(padded)
  BY <1>1, <1>3
<1>7. (CHOOSE i \in 1 .. Len(padded) : IsMark(padded, i)) = n + 1
  BY <1>5, <1>6
<1>8. Unpad(padded) = SubSeq(padded, 1, n)
  BY <1>1, <1>5, <1>6, <1>7 DEF Unpad
<1>9. SubSeq(padded, 1, n) = bytes
  <2>1. SubSeq(padded, 1, n) \in Seq(Bytes) /\ Len(SubSeq(padded, 1, n)) = n
    BY <1>1, <1>3
  <2>2. \A i \in 1 .. n : SubSeq(padded, 1, n)[i] = bytes[i]
    BY <1>1, <1>3, <1>4
  <2> QED
    BY <2>1, <2>2
<1> QED
  BY <1>8, <1>9 DEF padded

\* Every byte string that is padded comes back.
THEOREM PaddingAlwaysComesOff == Spec => []PaddingComesOff
<1>1. TypeOK => PaddingComesOff
  BY UnpadPad, BlockAssumption DEF TypeOK, PaddingComesOff
<1> QED
  BY <1>1, TypeCorrect, PTL
-----------------------------------------------------------------------------
(* What was encoded is read back, for any number of objects of any length. *)

\* The object the parser makes of one that was encoded.
Read(o) == [start |-> o.start, tag |-> TagEnd(o), value |-> LengthEnd(o), end |-> ValueEnd(o)]

\* The inductive invariant: as many of the encoded objects are read as end before the index, and
\* the next one is not passed over.
ReadSoFar ==
  meant # None =>
    /\ Laid(data, meant)
    /\ status # "error"
    /\ Len(objects) <= Len(meant)
    /\ \A i \in DOMAIN objects : objects[i] = Read(meant[i]) /\ ValueEnd(meant[i]) <= index
    /\ Len(objects) < Len(meant) => index <= meant[Len(objects) + 1].start
    /\ status = "done" => Len(objects) = Len(meant)

\* A number is what its two, or its three, bytes say.
LEMMA TwoBytes ==
  ASSUME NEW n \in Nat
  PROVE  n \div 256 \in Nat /\ n % 256 \in Nat /\ (n % 256) + 256 * (n \div 256) = n
  OBVIOUS

LEMMA ThreeBytes ==
  ASSUME NEW n \in Nat
  PROVE  /\ (n \div 256) \div 256 \in Nat /\ (n \div 256) % 256 \in Nat
         /\ (n % 256) + 256 * ((n \div 256) % 256) + 65536 * ((n \div 256) \div 256) = n
  BY SMT

\* The forms of a length field, and that the bytes of each say the number.
LEMMA LengthForms ==
  ASSUME NEW n \in Nat, NEW field \in LengthFields(n)
  PROVE  \/ n < 128 /\ Len(field) = 1 /\ field[1] = n
         \/ Len(field) = 2 /\ field[1] = 129 /\ field[2] = n
         \/ /\ Len(field) = 3 /\ field[1] = 130 /\ field[2] \in Nat /\ field[3] \in Nat
            /\ field[3] + 256 * field[2] = n
         \/ /\ Len(field) = 4 /\ field[1] = 131
            /\ field[2] \in Nat /\ field[3] \in Nat /\ field[4] \in Nat
            /\ field[4] + 256 * field[3] + 65536 * field[2] = n
<1>1. CASE n < 128 /\ field = <<n>>
  BY <1>1
<1>2. CASE field = <<129, n>>
  BY <1>2
<1>3. CASE field = <<130, n \div 256, n % 256>>
  <2>1. Len(field) = 3 /\ field[1] = 130 /\ field[2] = n \div 256 /\ field[3] = n % 256
    BY <1>3
  <2> QED
    BY <2>1, TwoBytes
<1>4. CASE field = <<131, (n \div 256) \div 256, (n \div 256) % 256, n % 256>>
  <2>1. /\ Len(field) = 4 /\ field[1] = 131 /\ field[2] = (n \div 256) \div 256
        /\ field[3] = (n \div 256) % 256 /\ field[4] = n % 256
    BY <1>4
  <2> QED
    BY <2>1, TwoBytes, ThreeBytes, SMT
<1> QED
  BY <1>1, <1>2, <1>3, <1>4 DEF LengthFields

\* The parts of an encoded object follow one another within the data.
LEMMA PartsOfEncoded ==
  ASSUME NEW d, NEW o \in Encoded, Holds(d, o)
  PROVE  /\ o.start \in Nat /\ Len(o.tag) \in 1 .. 2 /\ Len(o.length) \in 1 .. 4 /\ Len(o.value) \in Nat
         /\ TagEnd(o) \in Nat /\ LengthEnd(o) \in Nat /\ ValueEnd(o) \in Nat
         /\ o.start < TagEnd(o) /\ TagEnd(o) < LengthEnd(o) /\ LengthEnd(o) <= ValueEnd(o)
<1>1. o.start \in Nat /\ o.value \in Seq(Bytes)
  BY DEF Encoded
<1>2. Len(o.tag) \in 1 .. 2 /\ Len(o.value) \in Nat
  BY <1>1 DEF Holds, IsTag
<1>3. Len(o.length) \in 1 .. 4
  BY <1>2, LengthForms DEF Holds
<1> \A n \in Nat, k \in 1 .. 4 : n + k \in Nat /\ n < n + k
  OBVIOUS
<1> Len(o.tag) \in 1 .. 4
  BY <1>2
<1>4. TagEnd(o) \in Nat /\ o.start < TagEnd(o)
  BY <1>1, Zenon DEF TagEnd
<1>5. LengthEnd(o) \in Nat /\ TagEnd(o) < LengthEnd(o)
  BY <1>3, <1>4, Zenon DEF LengthEnd
<1>6. ValueEnd(o) \in Nat /\ LengthEnd(o) <= ValueEnd(o)
  BY <1>2, <1>5 DEF ValueEnd
<1> QED
  BY <1>1, <1>2, <1>3, <1>4, <1>5, <1>6

\* Where an encoded object starts, its tag, its length and its value are found (_read_tag,
\* _read_length): the parser is the inverse of the encoding, in every length form.
LEMMA EncodedIsFound ==
  ASSUME data \in Seq(Bytes), NEW o \in Encoded, Holds(data, o)
  PROVE  /\ Byte(o.start) # 0
         /\ HeaderIsThere(o.start) /\ ValueIsWhole(o.start)
         /\ ObjectAt(o.start) = Read(o)
<1>1. /\ IsTag(o.tag) /\ o.length \in LengthFields(Len(o.value))
      /\ \A k \in 1 .. Len(o.tag) : data[o.start + k] = o.tag[k]
      /\ \A k \in 1 .. Len(o.length) : data[TagEnd(o) + k] = o.length[k]
      /\ ValueEnd(o) <= Len(data)
  BY DEF Holds
<1>2. /\ o.start \in Nat /\ Len(o.tag) \in 1 .. 2 /\ Len(o.length) \in 1 .. 4 /\ Len(o.value) \in Nat
      /\ TagEnd(o) \in Nat /\ LengthEnd(o) \in Nat /\ ValueEnd(o) \in Nat /\ Len(data) \in Nat
      /\ o.start < TagEnd(o) /\ TagEnd(o) < LengthEnd(o) /\ LengthEnd(o) <= ValueEnd(o)
  BY PartsOfEncoded
<1>3. /\ TagEnd(o) = o.start + Len(o.tag) /\ LengthEnd(o) = TagEnd(o) + Len(o.length)
      /\ ValueEnd(o) = LengthEnd(o) + Len(o.value)
  BY DEF TagEnd, LengthEnd, ValueEnd
<1>4. Byte(o.start) = o.tag[1] /\ Byte(o.start) # 0
  BY <1>1, <1>2 DEF Byte, IsTag
<1>5. TagSize(o.start) = Len(o.tag)
  BY <1>1, <1>2, <1>4 DEF TagSize, IsTag
<1>6. LengthAt(o.start) = TagEnd(o)
  BY <1>3, <1>5 DEF LengthAt
<1>7. /\ Byte(TagEnd(o)) = o.length[1]
      /\ Len(o.length) > 1 => Byte(TagEnd(o) + 1) = o.length[2]
      /\ Len(o.length) > 2 => Byte(TagEnd(o) + 2) = o.length[3]
      /\ Len(o.length) > 3 => Byte(TagEnd(o) + 3) = o.length[4]
  <2>1. data[TagEnd(o) + 1] = o.length[1]
    BY <1>1, <1>2
  <2>2. /\ Len(o.length) > 1 => data[TagEnd(o) + 2] = o.length[2]
        /\ Len(o.length) > 2 => data[TagEnd(o) + 3] = o.length[3]
        /\ Len(o.length) > 3 => data[TagEnd(o) + 4] = o.length[4]
    BY <1>1, <1>2
  <2>3. \A t \in Nat : (t + 1) + 1 = t + 2 /\ (t + 2) + 1 = t + 3 /\ (t + 3) + 1 = t + 4
    OBVIOUS
  <2> QED
    BY <1>2, <2>1, <2>2, <2>3 DEF Byte
<1>8. /\ KnownLength(o.start) /\ LengthSize(o.start) = Len(o.length) - 1
      /\ ValueLength(o.start) = Len(o.value)
  <2> DEFINE n == Len(o.value)
  <2>1. CASE n < 128 /\ Len(o.length) = 1 /\ o.length[1] = n
    BY <1>2, <1>6, <1>7, <2>1 DEF KnownLength, LengthSize, ValueLength
  <2>2. CASE Len(o.length) = 2 /\ o.length[1] = 129 /\ o.length[2] = n
    <3>1. KnownLength(o.start) /\ LengthSize(o.start) = 1 /\ Byte(TagEnd(o) + 1) = n
      BY <1>6, <1>7, <2>2 DEF KnownLength, LengthSize
    <3>2. ValueAt(o.start) - 1 = TagEnd(o) + 1
      BY <1>2, <1>6, <3>1 DEF ValueAt
    <3> QED
      BY <1>2, <2>2, <3>1, <3>2, SMT DEF ValueLength, BigEndian
  <2>3. CASE /\ Len(o.length) = 3 /\ o.length[1] = 130 /\ o.length[2] \in Nat /\ o.length[3] \in Nat
             /\ o.length[3] + 256 * o.length[2] = n
    <3>1. /\ KnownLength(o.start) /\ LengthSize(o.start) = 2
          /\ Byte(TagEnd(o) + 1) = o.length[2] /\ Byte(TagEnd(o) + 2) = o.length[3]
      BY <1>6, <1>7, <2>3 DEF KnownLength, LengthSize
    <3>2. ValueAt(o.start) - 1 = TagEnd(o) + 2 /\ ValueAt(o.start) - 2 = TagEnd(o) + 1
      BY <1>2, <1>6, <3>1 DEF ValueAt
    <3>3. ValueLength(o.start) = o.length[3] + 256 * o.length[2]
      BY <2>3, <3>1, <3>2, SMT DEF ValueLength, BigEndian
    <3> QED
      BY <2>3, <3>1, <3>3
  <2>4. CASE /\ Len(o.length) = 4 /\ o.length[1] = 131
             /\ o.length[2] \in Nat /\ o.length[3] \in Nat /\ o.length[4] \in Nat
             /\ o.length[4] + 256 * o.length[3] + 65536 * o.length[2] = n
    <3>1. /\ KnownLength(o.start) /\ LengthSize(o.start) = 3
          /\ Byte(TagEnd(o) + 1) = o.length[2]
          /\ Byte(TagEnd(o) + 2) = o.length[3] /\ Byte(TagEnd(o) + 3) = o.length[4]
      BY <1>6, <1>7, <2>4 DEF KnownLength, LengthSize
    <3>2. /\ ValueAt(o.start) - 1 = TagEnd(o) + 3 /\ ValueAt(o.start) - 2 = TagEnd(o) + 2
          /\ ValueAt(o.start) - 3 = TagEnd(o) + 1
      BY <1>2, <1>6, <3>1 DEF ValueAt
    <3>3. ValueLength(o.start) = o.length[4] + 256 * o.length[3] + 65536 * o.length[2]
      BY <2>4, <3>1, <3>2, SMT DEF ValueLength, BigEndian
    <3> QED
      BY <2>4, <3>1, <3>3, SMT
  <2> n \in Nat /\ o.length \in LengthFields(n)
    BY <1>1, <1>2
  <2> HIDE DEF n
  <2>5. \/ n < 128 /\ Len(o.length) = 1 /\ o.length[1] = n
        \/ Len(o.length) = 2 /\ o.length[1] = 129 /\ o.length[2] = n
        \/ /\ Len(o.length) = 3 /\ o.length[1] = 130 /\ o.length[2] \in Nat /\ o.length[3] \in Nat
           /\ o.length[3] + 256 * o.length[2] = n
        \/ /\ Len(o.length) = 4 /\ o.length[1] = 131
           /\ o.length[2] \in Nat /\ o.length[3] \in Nat /\ o.length[4] \in Nat
           /\ o.length[4] + 256 * o.length[3] + 65536 * o.length[2] = n
    BY LengthForms
  <2> QED
    BY <2>1, <2>2, <2>3, <2>4, <2>5
<1>9. ValueAt(o.start) = LengthEnd(o)
  BY <1>2, <1>3, <1>6, <1>8 DEF ValueAt
<1>10. HeaderIsThere(o.start) /\ ValueIsWhole(o.start)
  <2>1. TagEnd(o) < Len(data) /\ LengthEnd(o) <= Len(data) /\ LengthEnd(o) + Len(o.value) <= Len(data)
    BY <1>1, <1>2, <1>3
  <2> QED
    BY <2>1, <1>6, <1>8, <1>9 DEF HeaderIsThere, ValueIsWhole
<1>11. ObjectAt(o.start) = Read(o)
  BY <1>3, <1>6, <1>8, <1>9 DEF ObjectAt, Read
<1> QED
  BY <1>4, <1>10, <1>11
\* A nonzero byte that is not passed over lies in an encoded object that is not read yet, and the
\* next of them starts no later.
LEMMA NextIsAhead ==
  ASSUME TypeOK, ReadSoFar, meant # None,
         NEW k \in Nat, index <= k, k < Len(data), Byte(k) # 0
  PROVE  Len(objects) < Len(meant) /\ meant[Len(objects) + 1].start <= k
<1> DEFINE n == Len(objects)
<1>0. Laid(data, meant) /\ meant \in Seq(Encoded)
  BY DEF ReadSoFar, Laid
<1>1. /\ Laid(data, meant) /\ meant \in Seq(Encoded) /\ Len(meant) \in Nat
      /\ n \in Nat /\ index \in Nat
  BY <1>0 DEF TypeOK
<1>2. \A i \in DOMAIN meant : meant[i] \in Encoded /\ Holds(data, meant[i])
  BY <1>1 DEF Laid
<1>3. k \in 0 .. Len(data) - 1 /\ data[k + 1] # 0
  BY DEF Byte, TypeOK
<1>4. PICK i \in DOMAIN meant : meant[i].start <= k /\ k < ValueEnd(meant[i])
  BY <1>1, <1>3 DEF Laid
<1>5. i \in 1 .. Len(meant)
  BY <1>1
<1>6. /\ meant[i].start \in Nat /\ ValueEnd(meant[i]) \in Nat
  BY <1>2, PartsOfEncoded
<1>7. ~(i <= n)
  <2>1. SUFFICES ASSUME i \in 1 .. n PROVE FALSE
    BY <1>1, <1>5
  <2>2. ValueEnd(meant[i]) <= index
    <3>1. DOMAIN objects = 1 .. n
      BY DEF TypeOK
    <3>2. \A j \in DOMAIN objects : ValueEnd(meant[j]) <= index
      BY Zenon DEF ReadSoFar
    <3> QED
      BY <2>1, <3>1, <3>2, Zenon
  <2>3. index \in Nat /\ ValueEnd(meant[i]) \in Nat /\ k < ValueEnd(meant[i])
    BY <1>1, <1>4, <1>6
  <2> HIDE DEF TypeOK, ReadSoFar
  <2>4. \A a, b, c \in Nat : a <= b /\ b < c /\ c <= a => FALSE
    OBVIOUS
  <2> QED
    BY <2>2, <2>3, <2>4, Zenon
<1>8. n + 1 \in DOMAIN meant /\ n < Len(meant)
  BY <1>1, <1>5, <1>7
<1>9. meant[n + 1].start \in Nat /\ ValueEnd(meant[n + 1]) \in Nat /\ meant[n + 1].start < ValueEnd(meant[n + 1])
  BY <1>2, <1>8, PartsOfEncoded
<1>10. CASE n + 1 = i
  BY <1>4, <1>8, <1>10
<1>11. CASE n + 1 # i
  <2>1. n + 1 \in 1 .. i - 1
    BY <1>1, <1>5, <1>7, <1>11
  <2>2. ValueEnd(meant[n + 1]) <= meant[i].start
    BY <1>1, <2>1 DEF Laid
  <2> QED
    BY <1>4, <1>6, <1>8, <1>9, <2>2
<1> QED
  BY <1>10, <1>11

\* Nothing is read before the first object starts.
LEMMA ReadInit == Init => ReadSoFar
<1> SUFFICES ASSUME Init, meant # None PROVE ReadSoFar
  BY DEF ReadSoFar
<1>1. Laid(data, meant)
  BY InputsAssumption DEF Init
<1>2. objects = <<>> /\ index = 0 /\ status = "parsing" /\ Len(objects) = 0 /\ DOMAIN objects = {}
  BY DEF Init
<1>3. meant \in Seq(Encoded)
  BY <1>1 DEF Laid
<1>4. ASSUME 0 < Len(meant) PROVE index <= meant[1].start
  <2>1. meant[1] \in Encoded
    BY <1>3, <1>4
  <2>2. meant[1].start \in Nat
    BY <2>1 DEF Encoded
  <2> QED
    BY <1>2, <2>2
<1> QED
  BY <1>1, <1>2, <1>3, <1>4 DEF ReadSoFar

LEMMA ReadStep == TypeOK /\ ReadSoFar /\ [Next]_vars => ReadSoFar'
<1> SUFFICES ASSUME TypeOK, ReadSoFar, [Next]_vars, meant' # None
             PROVE  ReadSoFar'
  BY DEF ReadSoFar
<1> DEFINE n == Len(objects)
<1>1. data' = data /\ meant' = meant /\ meant # None
  BY DEF Next, vars, Stop, SkipZero, ReadObject
<1>2. /\ Laid(data, meant) /\ meant \in Seq(Encoded) /\ data \in Seq(Bytes)
      /\ n \in Nat /\ index \in Nat /\ Len(meant) \in Nat /\ DOMAIN objects = 1 .. n
      /\ Len(data) \in Nat /\ n <= Len(meant) /\ status # "error"
  BY <1>1 DEF TypeOK, ReadSoFar, Laid
<1>3. \A i \in DOMAIN meant : meant[i] \in Encoded /\ Holds(data, meant[i])
  BY <1>2 DEF Laid
<1>4. \A i \in DOMAIN meant : /\ meant[i].start \in Nat /\ ValueEnd(meant[i]) \in Nat
                              /\ meant[i].start < ValueEnd(meant[i]) /\ ValueEnd(meant[i]) <= Len(data)
                              /\ Byte(meant[i].start) # 0
  <2>1. TAKE i \in DOMAIN meant
  <2>2. meant[i] \in Encoded /\ Holds(data, meant[i])
    BY <1>3
  <2>3. /\ meant[i].start \in Nat /\ ValueEnd(meant[i]) \in Nat /\ LengthEnd(meant[i]) \in Nat
        /\ TagEnd(meant[i]) \in Nat
        /\ meant[i].start < TagEnd(meant[i]) /\ TagEnd(meant[i]) < LengthEnd(meant[i])
        /\ LengthEnd(meant[i]) <= ValueEnd(meant[i])
    BY <2>2, PartsOfEncoded
  <2>4. meant[i].start < ValueEnd(meant[i])
    BY <2>3
  <2>5. ValueEnd(meant[i]) <= Len(data) /\ Byte(meant[i].start) # 0
    BY <1>2, <2>2, EncodedIsFound DEF Holds
  <2> QED
    BY <2>3, <2>4, <2>5
<1>5. n < Len(meant) => n + 1 \in DOMAIN meant /\ index <= meant[n + 1].start
  BY <1>1, <1>2 DEF ReadSoFar
<1>6. \A i \in DOMAIN objects : objects[i] = Read(meant[i]) /\ ValueEnd(meant[i]) <= index
  BY <1>1 DEF ReadSoFar
<1>7. CASE Stop
  <2>1. n = Len(meant)
    <3>1. SUFFICES ASSUME n < Len(meant) PROVE FALSE
      BY <1>2
    <3>2. meant[n + 1].start \in index .. Len(data) - 1
      BY <1>2, <1>4, <1>5, <3>1
    <3> QED
      BY <1>4, <1>5, <1>7, <3>1, <3>2 DEF Stop, OnlyZerosFrom
  <2>2. objects' = objects /\ index' = index /\ status' = "done"
    BY <1>7 DEF Stop
  <2> QED
    BY <1>1, <1>2, <1>5, <1>6, <2>1, <2>2 DEF ReadSoFar
<1>8. CASE SkipZero
  <2>1. n < Len(meant) => index + 1 <= meant[n + 1].start
    BY <1>2, <1>4, <1>5, <1>8 DEF SkipZero
  <2>2. objects' = objects /\ index' = index + 1 /\ status' = status /\ status = "parsing"
    BY <1>8 DEF SkipZero
  <2>3. \A i \in DOMAIN objects : ValueEnd(meant[i]) <= index + 1
    <3>1. TAKE i \in DOMAIN objects
    <3>2. i \in DOMAIN meant /\ ValueEnd(meant[i]) <= index
      BY <1>2, <1>6
    <3> QED
      BY <1>2, <1>4, <3>2
  <2> QED
    BY <1>1, <1>2, <1>6, <2>1, <2>2, <2>3 DEF ReadSoFar
<1>9. CASE ReadObject
  <2>1. index < Len(data) /\ Byte(index) # 0
    BY <1>2, <1>9 DEF ReadObject, OnlyZerosFrom
  <2>2. n < Len(meant) /\ n + 1 \in DOMAIN meant /\ index = meant[n + 1].start
    <3>1. n < Len(meant) /\ meant[n + 1].start <= index
      BY <1>1, <1>2, <2>1, NextIsAhead
    <3> QED
      BY <1>2, <1>4, <1>5, <3>1
  <2>3. HeaderIsThere(index) /\ ValueIsWhole(index) /\ ObjectAt(index) = Read(meant[n + 1])
    BY <1>2, <1>3, <2>2, EncodedIsFound
  <2>4. /\ objects' = Append(objects, Read(meant[n + 1])) /\ status' = "parsing"
        /\ index' = ValueEnd(meant[n + 1])
    BY <1>9, <2>3 DEF ReadObject, NextIndex, Read
  <2>5. /\ Len(objects') = n + 1 /\ DOMAIN objects' = 1 .. n + 1
        /\ objects'[n + 1] = Read(meant[n + 1])
        /\ \A i \in 1 .. n : objects'[i] = objects[i]
    BY <1>2, <2>4 DEF TypeOK
  <2>6. \A i \in 1 .. n + 1 : objects'[i] = Read(meant[i]) /\ ValueEnd(meant[i]) <= index'
    <3>1. TAKE i \in 1 .. n + 1
    <3>2. CASE i = n + 1
      BY <1>4, <2>2, <2>4, <2>5, <3>2
    <3>3. CASE i \in 1 .. n
      <4>1. objects'[i] = Read(meant[i]) /\ ValueEnd(meant[i]) <= index /\ i \in DOMAIN meant
        BY <1>2, <1>6, <2>5, <3>3
      <4> QED
        BY <1>2, <1>4, <2>2, <2>4, <4>1
    <3> QED
      BY <1>2, <3>2, <3>3
  <2>7. n + 1 < Len(meant) => index' <= meant[n + 2].start
    <3>1. SUFFICES ASSUME n + 1 < Len(meant) PROVE ValueEnd(meant[n + 1]) <= meant[n + 2].start
      BY <2>4
    <3>2. n + 2 \in DOMAIN meant /\ n + 1 \in 1 .. (n + 2) - 1
      BY <1>2, <3>1
    <3> QED
      BY <1>2, <3>2 DEF Laid
  <2>8. (n + 1) + 1 = n + 2 /\ n + 1 <= Len(meant)
    BY <1>2, <2>2
  <2> QED
    BY <1>1, <1>2, <2>4, <2>5, <2>6, <2>7, <2>8 DEF ReadSoFar
<1>10. CASE UNCHANGED vars
  BY <1>10 DEF vars, ReadSoFar
<1> QED
  BY <1>7, <1>8, <1>9, <1>10 DEF Next

\* What was put into the data at some place is what a slice from there gives.
LEMMA SliceOf ==
  ASSUME NEW d \in Seq(Bytes), NEW v \in Seq(Bytes), NEW a \in Nat, a + Len(v) <= Len(d),
         \A k \in 1 .. Len(v) : d[a + k] = v[k]
  PROVE  SubSeq(d, a + 1, a + Len(v)) = v
<1>1. Len(v) \in Nat /\ Len(d) \in Nat
  OBVIOUS
<1>2. SubSeq(d, a + 1, a + Len(v)) \in Seq(Bytes) /\ Len(SubSeq(d, a + 1, a + Len(v))) = Len(v)
  BY <1>1
<1>3. \A k \in 1 .. Len(v) : SubSeq(d, a + 1, a + Len(v))[k] = v[k]
  BY <1>1
<1> DEFINE part == SubSeq(d, a + 1, a + Len(v))
<1> HIDE DEF part
<1>4. part \in Seq(Bytes) /\ Len(part) = Len(v) /\ \A k \in 1 .. Len(v) : part[k] = v[k]
  BY <1>2, <1>3 DEF part
<1>5. part = v
  <2>1. part = [k \in 1 .. Len(part) |-> part[k]] /\ v = [k \in 1 .. Len(v) |-> v[k]]
    BY <1>4
  <2> QED
    BY <1>4, <2>1, Zenon
<1> QED
  BY <1>5 DEF part

\* Any number of objects, with values and gaps of any length, in any of the length forms, are read
\* as what they were.
THEOREM EncodedIsReadBack == Spec => []WellFormedIsRead
<1>1. TypeOK /\ ReadSoFar => WellFormedIsRead
  <2> SUFFICES ASSUME TypeOK, ReadSoFar, meant # None, status # "parsing"
               PROVE  /\ status = "done" /\ DOMAIN objects = DOMAIN meant
                      /\ \A i \in DOMAIN meant : /\ Tag(objects[i]) = meant[i].tag
                                                 /\ Value(objects[i]) = meant[i].value
    BY DEF WellFormedIsRead
  <2>1. /\ status = "done" /\ Laid(data, meant) /\ meant \in Seq(Encoded) /\ data \in Seq(Bytes)
    BY DEF TypeOK, ReadSoFar, Laid
  <2>2. DOMAIN objects = DOMAIN meant
    BY <2>1 DEF TypeOK, ReadSoFar
  <2>3. ASSUME NEW i \in DOMAIN meant
        PROVE  Tag(objects[i]) = meant[i].tag /\ Value(objects[i]) = meant[i].value
    <3>1. meant[i] \in Encoded /\ Holds(data, meant[i])
      BY <2>1 DEF Laid
    <3>2. meant[i].tag \in Seq(Bytes) /\ meant[i].value \in Seq(Bytes)
      BY <3>1 DEF Encoded
    <3>3. /\ meant[i].start \in Nat /\ Len(data) \in Nat
          /\ TagEnd(meant[i]) \in Nat /\ LengthEnd(meant[i]) \in Nat /\ ValueEnd(meant[i]) \in Nat
          /\ TagEnd(meant[i]) < LengthEnd(meant[i]) /\ LengthEnd(meant[i]) <= ValueEnd(meant[i])
          /\ ValueEnd(meant[i]) <= Len(data)
      BY <2>1, <3>1, PartsOfEncoded DEF Holds
    <3>4. TagEnd(meant[i]) <= Len(data)
      BY <3>3
    <3>5. SubSeq(data, meant[i].start + 1, TagEnd(meant[i])) = meant[i].tag
      BY <2>1, <3>1, <3>2, <3>3, <3>4, SliceOf DEF TagEnd, Holds
    <3>6. SubSeq(data, LengthEnd(meant[i]) + 1, ValueEnd(meant[i])) = meant[i].value
      BY <2>1, <3>1, <3>2, <3>3, SliceOf DEF ValueEnd, Holds
    <3>7. objects[i] = Read(meant[i])
      BY <2>2 DEF ReadSoFar
    <3> QED
      BY <3>5, <3>6, <3>7 DEF Tag, Value, Read
  <2> QED
    BY <2>1, <2>2, <2>3
<1> QED
  BY <1>1, ReadInit, ReadStep, TypeCorrect, PTL DEF Spec
=============================================================================
