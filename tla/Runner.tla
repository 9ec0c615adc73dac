------------------------------- MODULE Runner -------------------------------
(***************************************************************************)
(* The Huffman encoder, run by its runner again and again (huff_enc.c):    *)
(* the encoder's variables outlive a run.  Each action of the encoder that *)
(* begins or ends a run is that action of TimingLoop with what the encoder *)
(* does in it; every step is a step of TimingLoop or leaves it alone.      *)
(***************************************************************************)
EXTENDS Huffman, TimingLoop

CONSTANT
  Texts               \* what huff_enc_plaintext may be

VARIABLES
  plaintext,
  stream,             \* huff_enc_output, with val_to_write and byte_nb_to_write
  codes,              \* the encoding table of this run, empty until it is built
  left                \* history: bits left by the run before

encoder == <<plaintext, stream, codes, left>>
vars == <<encoder, loop_vars>>

\* What a run computes from the text, by the text.
CodesOf == [text \in Texts |-> create_codes_table(text)]
HeaderOf == [text \in Texts |-> Header(CodesOf[text])]
BodyOf == [text \in Texts |-> Body(CodesOf[text], text)]

----------------------------------------------------------------------------
(* A run of the encoder *)

\* huff_enc_init: the positions are reset, and nothing else.
huff_enc_init ==
  /\ StartRun
  /\ stream' = [stream EXCEPT !.output = <<>>]
  /\ left' = stream.pending /\ codes' = <<>>
  /\ UNCHANGED plaintext

\* huff_enc_main, as far as the table of codes.
BuildCodes ==
  /\ worker = "run" /\ codes = <<>>
  /\ codes' = CodesOf[plaintext]
  /\ UNCHANGED <<plaintext, stream, left, loop_vars>>

\* The rest of huff_enc_main, and the time that is measured after it.
huff_enc_main ==
  /\ codes # <<>> /\ EndRun
  /\ stream' = fill_encoding(write_bin_val(write_bin_val(stream, HeaderOf[plaintext]), BodyOf[plaintext]))
  /\ UNCHANGED <<plaintext, codes, left>>

----------------------------------------------------------------------------
Init ==
  /\ LoopInit
  /\ plaintext \in Texts
  /\ stream = [output |-> <<>>, pending |-> <<>>] /\ codes = <<>> /\ left = <<>>

Next ==
  \/ huff_enc_init \/ BuildCodes \/ huff_enc_main
  \/ (StartThread \/ Statistics \/ Finish \/ Main) /\ UNCHANGED encoder

Spec == Init /\ [][Next]_vars

----------------------------------------------------------------------------
(* Properties *)

\* Every variable has its type; whole bytes are written, less than one is left.
TypeOK ==
  /\ plaintext \in Texts /\ LoopTypeOK
  /\ stream.output \in Seq({0, 1}) /\ stream.pending \in Seq({0, 1})
  /\ Len(stream.pending) < ByteBits /\ Len(stream.output) % ByteBits = 0

\* What a run writes, after the bits that the run before has left, can be read
\* back by what it says itself: the text, its end, and less than a byte more.
OutputDecodes ==
  worker \in {"min", "max", "avg", "hist", "count", "ended"} /\ times # <<>>
    => Decodes(Rest(stream.output, Len(left)), plaintext)

\* The codes are the best there are, whatever order the sort leaves equal
\* weights in (huff_enc_qsort is not stable).
CodesAreBest == worker = "run" /\ codes # <<>> => Optimal(codes, plaintext)

=============================================================================
