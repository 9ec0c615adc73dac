----------------------------- MODULE BitStream ------------------------------
(***************************************************************************)
(* The output of the Huffman encoder (huff_enc.c): bits are gathered to    *)
(* bytes, and the last byte is filled.                                     *)
(*                                                                         *)
(* A stream is a record of the bits of the whole bytes written, "output",  *)
(* and those of val_to_write, "pending".  A byte has ByteBits bits.        *)
(***************************************************************************)
EXTENDS Integers, Sequences

CONSTANT ByteBits     \* 8 in the code

ASSUME BitStreamAssumption == ByteBits \in Nat \ {0}

\* One turn of the loop of huff_enc_write_bin_val.
write_bit(stream, bit) ==
  LET all == Append(stream.pending, bit)
  IN IF Len(stream.pending) = ByteBits - 1
     THEN [output |-> stream.output \o all, pending |-> <<>>]
     ELSE [output |-> stream.output, pending |-> all]

\* Mutant of write_bin_val: the byte that is full is forgotten in the next.
write_bin_val_BitLost(stream, bits) ==
  LET all == stream.pending \o bits
      whole == Len(all) - (Len(all) % ByteBits)
  IN [output |-> stream.output \o SubSeq(all, 1, whole),
      pending |-> IF whole = Len(all) THEN <<>> ELSE SubSeq(all, whole + 2, Len(all))]

\* All turns of it.
write_bin_val(stream, bits) ==
  LET all == stream.pending \o bits
      whole == Len(all) - (Len(all) % ByteBits)
  IN [output |-> stream.output \o SubSeq(all, 1, whole),
      pending |-> SubSeq(all, whole + 1, Len(all))]

\* The last byte is filled with zeros and written; val_to_write and
\* byte_nb_to_write are left as they are.
fill_encoding(stream) ==
  IF stream.pending = <<>> THEN stream
  ELSE [stream EXCEPT !.output = @ \o stream.pending
                                  \o [i \in 1 .. ByteBits - Len(stream.pending) |-> 0]]

=============================================================================
