--------------------------------- MODULE MCTlv ---------------------------------
(***************************************************************************)
(* Every byte string of bounded length over the bytes the parser tells apart, *)
(* and encodings of up to two objects in every length form, with zeros around. *)
(***************************************************************************)
EXTENDS Tlv

CONSTANTS
  Alphabet,  \* the bytes arbitrary strings are made of
  MaxLength  \* and their length

Arbitrary == UNION {[1 .. n -> Alphabet] : n \in 0 .. MaxLength}

Zeros(n) == [i \in 1 .. n |-> 0]

Tags   == {<<218>>, <<219>>, <<31, 1>>}
Values == {<<>>, <<0>>, <<128, 0>>, <<1, 219, 0>>}
Long   == <<1>> \o Zeros(299)

\* The encodings of one <<tag, value>> pair that starts at s.
Objects(s, pair) ==
  {[start |-> s, tag |-> pair[1], length |-> l, value |-> pair[2]] : l \in LengthFields(Len(pair[2]))}
Encoding(o) == o.tag \o o.length \o o.value

\* [data, layout] of the given pairs, with gaps of zeros.
Encodings(pairs) ==
  CASE Len(pairs) = 0 -> {[data |-> Zeros(n), layout |-> <<>>] : n \in 0 .. 2}
    [] Len(pairs) = 1 ->
         UNION {{[data |-> Zeros(m) \o Encoding(a) \o Zeros(n), layout |-> <<a>>] :
                   a \in Objects(m, pairs[1]), n \in 0 .. 1} : m \in 0 .. 1}
    [] Len(pairs) = 2 ->
         UNION {UNION {{[data   |-> Zeros(m) \o Encoding(a) \o Zeros(g) \o Encoding(b) \o Zeros(n),
                         layout |-> <<a, b>>] :
                          b \in Objects(m + Len(Encoding(a)) + g, pairs[2]), n \in 0 .. 1} :
                   a \in Objects(m, pairs[1])} : m \in 0 .. 1, g \in 0 .. 1}

Pairs == {<<t, v>> : t \in Tags, v \in Values}

WrittenPairs == UNION {Encodings(ps) : ps \in {<<>>} \cup (Pairs \X Pairs)
                                          \cup {<<p>> : p \in Pairs} \cup {<<<<t, Long>>>> : t \in Tags}}
=============================================================================
