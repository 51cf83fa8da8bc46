------------------------------ MODULE LogText ------------------------------
(***************************************************************************)
(* Compression, which packs the text of a bundle of log messages into six  *)
(* bits a character, and decompress() of the client that receives it.      *)
(*                                                                         *)
(* A character is [value, upper]: the place it has in ENCODING, or         *)
(* Unknown, and whether it is a capital letter.                            *)
(***************************************************************************)
EXTENDS Integers, Sequences, SequencesExt

EncodingSize == 63
Newline == 0
Space   == 62
Letters == 1 .. 26
Capital == 63      (* the value that says the next character is a capital  *)
Unknown == 64

Char(value, upper) == [value |-> value, upper |-> upper]

(* tolower() and the search in ENCODING; what is not in it becomes a space *)
char_conv(x) == IF x.value = Unknown THEN Space ELSE x.value

Sextets(data) ==
  FlattenSeq([i \in DOMAIN data |->
                IF data[i].upper THEN <<Capital, char_conv(data[i])>>
                ELSE <<char_conv(data[i])>>])

(* The buffer holds the bits not yet put out, from bit 23 down; bits that  *)
(* are shifted beyond that never come back.                                *)
PushBytes(packed) ==
  IF packed.bits < 8 THEN packed
  ELSE [output |-> Append(packed.output, packed.buffer \div 2^16),
        buffer |-> (packed.buffer % 2^16) * 2^8,
        bits |-> packed.bits - 8]

(* A sextet goes below the bits that are there and fills at most one byte. *)
Pack(packed, value) ==
  PushBytes([output |-> packed.output,
             buffer |-> packed.buffer + value * 2^(18 - packed.bits),
             bits |-> packed.bits + 6])

NothingPacked == [output |-> <<>>, buffer |-> 0, bits |-> 0]

(* Slip: bits that fill no byte are left behind.                           *)
PackForgetsRest(conv) == FoldLeft(Pack, NothingPacked, conv).output

pack_bytes(conv) ==
  LET packed == FoldLeft(Pack, NothingPacked, conv)
  IN  IF packed.bits > 0 THEN Append(packed.output, packed.buffer \div 2^16)
      ELSE packed.output

compress(data) == pack_bytes(Sextets(data))
-----------------------------------------------------------------------------
(* The n-th bit of the bytes, counted from 0.                              *)
Bit(bytes, n) == (bytes[n \div 8 + 1] \div 2^(7 - (n % 8))) % 2

(* The number of the six bits from the n-th on, or of as many as there are *)
AddBit(number, bit) == 2 * number + bit
Number(bytes, n) ==
  FoldLeft(AddBit, 0, [k \in 1 .. Min({6, 8 * Len(bytes) - n}) |-> Bit(bytes, n + k - 1)])

Unpack(read, value) ==
  IF value >= EncodingSize THEN [read EXCEPT !.capNext = TRUE]
  ELSE [out |-> Append(read.out, Char(value, read.capNext /\ value \in Letters)),
        capNext |-> FALSE]

NothingRead == [out |-> <<>>, capNext |-> FALSE]

decompress(bytes) ==
  LET groups == (8 * Len(bytes) + 5) \div 6
  IN  FoldLeft(Unpack, NothingRead, [i \in 1 .. groups |-> Number(bytes, 6 * (i - 1))]).out
=============================================================================
