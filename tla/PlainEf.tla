-------------------------------- MODULE PlainEf --------------------------------
(***************************************************************************)
(* reader/residence_card_reader.py, _read_plain_ef: how the reader asks for    *)
(* one chunk of a plain file, and how a card takes the two parameter bytes.    *)
(* The first chunk names the file by its short identifier, which makes it the  *)
(* card's current file; the later ones give an offset into the current file.   *)
(***************************************************************************)
EXTENDS Naturals

ChunkSize == 256

\* min(256, total_length - offset)
ChunkLength(total, offset) ==
  IF total - offset < ChunkSize THEN total - offset ELSE ChunkSize

\* (offset >> 8) & 0x7F and offset & 0xFF, after the first chunk.
HighByteForgetful(sfi, offset) == sfi
HighByte(sfi, offset) == IF offset = 0 THEN sfi ELSE (offset \div 256) % 128
LowByte(offset) == offset % 256

\* Le = 0 asks for 256 bytes.
Le(length) == length % 256

\* ISO 7816-4 READ BINARY: bit 8 of P1 says that it names a file.
NamesFile(p1) == p1 >= 128
OffsetAsked(p1, p2) == IF NamesFile(p1) THEN p2 ELSE 256 * p1 + p2
LengthAsked(le) == IF le = 0 THEN 256 ELSE le
=============================================================================
