------------------------------ MODULE Huffman ------------------------------
(***************************************************************************)
(* The Huffman encoder of huff_enc.c, as operators on sequences of bits,   *)
(* and a decoder of the stream that it writes.  The decoder is not in the  *)
(* program: it is the reference that the encoder is checked against.       *)
(*                                                                         *)
(* A byte has ByteBits bits (8 in the code) and a short number ShortBits   *)
(* (5).  The byte after the last is the fictive one, which ends the text.  *)
(***************************************************************************)
EXTENDS BitStream, FiniteSets, TLC

CONSTANTS
  ShortBits,
  PivotAbove          \* huff_enc_qsort takes a pivot of three above this length (10)

ASSUME HuffmanAssumption == ShortBits \in 1 .. ByteBits /\ PivotAbove \in Nat

Bytes == 0 .. 2 ^ ByteBits - 1
Fictive == 2 ^ ByteBits
Symbols == Bytes \cup {Fictive}
Node == Fictive + 1

Bit(n, k) == (n \div 2 ^ k) % 2
\* The low k bits of n, the highest first, as huff_enc_write_bin_val takes them.
Bin(n, k) == [i \in 1 .. k |-> Bit(n, k - i)]

----------------------------------------------------------------------------
(* The tree *)

Leaf(byte, weight) == [byte |-> byte, weight |-> weight, sub |-> <<>>]
Join(left, right) ==
  [byte |-> Node, weight |-> left.weight + right.weight, sub |-> <<left, right>>]

\* weighhuff_enc_t_tree_comp(t1, t2) < 0: the heavier tree comes first.
Before(t1, t2) == t1.weight > t2.weight

Swap(s, i, j) == [s EXCEPT ![i] = s[j], ![j] = s[i]]

\* The median of the elements at 1/6, 1/2 and 5/6.
pivot(s) ==
  LET sixth == Len(s) \div 6
      i == 1 + sixth   j == 1 + 3 * sixth   k == 1 + 5 * sixth
  IN IF Before(s[i], s[j])
     THEN IF ~Before(s[i], s[k]) THEN i ELSE IF Before(s[j], s[k]) THEN j ELSE k
     ELSE IF ~Before(s[j], s[k]) THEN j ELSE IF Before(s[i], s[k]) THEN i ELSE k

Least(S) == CHOOSE x \in S : \A y \in S : x <= y
Greatest(S) == CHOOSE x \in S : \A y \in S : x >= y

\* The inner loops of huff_enc_qsort: the pivot is s[1], i and j close in.
RECURSIVE partition(_, _, _)
partition(s, i, j) ==
  LET pi == Least({k \in i + 1 .. Len(s) + 1 : k = Len(s) + 1 \/ ~Before(s[k], s[1])})
      pj == Greatest({k \in 1 .. j - 1 : k = 1 \/ ~Before(s[1], s[k])})
  IN IF pj < pi THEN [table |-> Swap(s, 1, pj), at |-> pj]
     ELSE partition(Swap(s, pi, pj), pi, pj)

RECURSIVE qsort(_)
qsort(s) ==
  IF Len(s) <= 1 THEN s
  ELSE LET first == IF Len(s) > PivotAbove THEN pivot(s) ELSE Len(s) \div 2 + 1
           p == partition(Swap(s, 1, first), 1, Len(s) + 1)
       IN qsort(SubSeq(p.table, 1, p.at - 1)) \o <<p.table[p.at]>>
            \o qsort(SubSeq(p.table, p.at + 1, Len(p.table)))

Occurrences(text, b) == Cardinality({i \in DOMAIN text : text[i] = b})

\* The table of occurrences, sorted, without the bytes that do not occur.
occurrences_table(text) ==
  LET RECURSIVE leaves(_)
      leaves(b) == IF b = Fictive THEN <<Leaf(Fictive, 1)>>
                   ELSE <<Leaf(b, Occurrences(text, b))>> \o leaves(b + 1)
  IN SelectSeq(qsort(leaves(0)), LAMBDA t : t.weight > 0)

\* The two lightest trees are joined and the table sorted again.  A text has a
\* byte and the fictive one, so that a tree is never left alone.
RECURSIVE Combine(_)
Combine(table) ==
  LET n == Len(table)
  IN IF n = 1 THEN table[1]
     ELSE Combine(qsort(Append(SubSeq(table, 1, n - 2), Join(table[n], table[n - 1]))))

\* Mutant of build_tree_encoding: the first two trees are joined, not the last.
build_tree_encoding_FirstTwo(text) ==
  LET table == occurrences_table(text)
  IN Combine(qsort(Append(SubSeq(table, 3, Len(table)), Join(table[2], table[1]))))

build_tree_encoding(text) == Combine(occurrences_table(text))

\* A left branch is a bit 1 in the code, a right one a bit 0.
RECURSIVE encode_codes_table(_, _)
encode_codes_table(tree, code) ==
  IF tree.byte # Node THEN tree.byte :> code
  ELSE encode_codes_table(tree.sub[1], Append(code, 1))
         @@ encode_codes_table(tree.sub[2], Append(code, 0))

create_codes_table(text) ==
  encode_codes_table(build_tree_encoding(text), <<>>) @@ [s \in Symbols |-> <<>>]

----------------------------------------------------------------------------
(* The stream *)

RECURSIVE Concat(_, _, _)
Concat(bits(_), i, last) == IF i > last THEN <<>> ELSE bits(i) \o Concat(bits, i + 1, last)

\* The bytes of the text, as a list or as one bit for each byte, whichever the
\* number of them chooses; then the length and the code of each symbol.
Header(codes) ==
  LET occurs(b) == codes[b] # <<>>
      n == Cardinality({b \in Bytes : occurs(b)})
      listed(b) == IF occurs(b) THEN Bin(b, ByteBits) ELSE <<>>
      marked(b) == IF occurs(b) THEN <<1>> ELSE <<0>>
      code(s) ==
        LET length == Len(codes[s])
        IN IF length = 0 THEN <<>>
           ELSE (IF length < 2 ^ ShortBits + 1
                 THEN <<0>> \o Bin(length - 1, ShortBits)
                 ELSE <<1>> \o Bin(length - 1, ByteBits)) \o codes[s]
  IN (IF n < 2 ^ ShortBits THEN <<0>> \o Bin(n - 1, ShortBits) \o Concat(listed, 0, Fictive - 1)
      ELSE <<1>> \o Concat(marked, 0, Fictive - 1))
     \o Concat(code, 0, Fictive)

\* The codes of the text, and of its end.
Body(codes, text) ==
  LET code(i) == codes[text[i]]
  IN Concat(code, 1, Len(text)) \o codes[Fictive]

----------------------------------------------------------------------------
(* The reference *)

RECURSIVE Value(_)
Value(bits) == IF bits = <<>> THEN 0
               ELSE 2 * Value(SubSeq(bits, 1, Len(bits) - 1)) + bits[Len(bits)]

Rest(bits, n) == SubSeq(bits, n + 1, Len(bits))
Number(bits, n) == Value(SubSeq(bits, 1, n))

\* What a header says: the codes of the symbols, and the bits after it.
RECURSIVE ReadCodes(_, _, _)
ReadCodes(bits, symbols, codes) ==
  IF symbols = {} THEN [codes |-> codes, rest |-> bits]
  ELSE LET s == Least(symbols)
           k == IF bits[1] = 0 THEN ShortBits ELSE ByteBits
           length == Number(Rest(bits, 1), k) + 1
           at == Rest(bits, 1 + k)
       IN ReadCodes(Rest(at, length), symbols \ {s}, [codes EXCEPT ![s] = SubSeq(at, 1, length)])

ReadHeader(bits) ==
  LET n == Number(Rest(bits, 1), ShortBits) + 1
      at == Rest(bits, 1 + ShortBits)
      listed == {Number(Rest(at, (i - 1) * ByteBits), ByteBits) : i \in 1 .. n}
      marked == {b \in Bytes : bits[2 + b] = 1}
      none == [s \in Symbols |-> <<>>]
  IN IF bits[1] = 0 THEN ReadCodes(Rest(at, n * ByteBits), listed \cup {Fictive}, none)
     ELSE ReadCodes(Rest(bits, 1 + Fictive), marked \cup {Fictive}, none)

\* Codes none of which begins with another: a stream has one reading at most.
PrefixFree(codes) ==
  \A s, t \in Symbols : s # t /\ codes[s] # <<>> /\ codes[t] # <<>>
     => Len(codes[t]) < Len(codes[s]) \/ SubSeq(codes[t], 1, Len(codes[s])) # codes[s]

\* Does the stream say the text, and then end?
RECURSIVE Says(_, _, _)
Says(bits, codes, text) ==
  LET c == codes[IF text = <<>> THEN Fictive ELSE Head(text)]
  IN /\ Len(c) <= Len(bits) /\ SubSeq(bits, 1, Len(c)) = c
     /\ IF text = <<>> THEN Len(bits) - Len(c) < ByteBits
        ELSE Says(Rest(bits, Len(c)), codes, Tail(text))

Decodes(bits, text) ==
  LET h == ReadHeader(bits)
  IN PrefixFree(h.codes) /\ \A s \in Symbols : (h.codes[s] # <<>>) = (s = Fictive \/ Occurrences(text, s) > 0)
     /\ Says(h.rest, h.codes, text)

\* The least number of bits that any code needs for the text and its end: the
\* two lightest weights are joined until one is left, and every join adds a bit
\* to the codes below it.  The weights are taken as they are, without a sort.
RECURSIVE LeastCost(_)
LeastCost(weights) ==
  LET D == DOMAIN weights
      lightest(S) == CHOOSE i \in S : \A j \in S : weights[i] <= weights[j]
      a == lightest(D)
      b == lightest(D \ {a})
  IN IF Cardinality(D) = 1 THEN 0
     ELSE weights[a] + weights[b]
            + LeastCost((a :> weights[a] + weights[b]) @@ [i \in D \ {a, b} |-> weights[i]])

Weights(text) ==
  [s \in {Fictive} \cup {text[i] : i \in DOMAIN text} |-> IF s = Fictive THEN 1 ELSE Occurrences(text, s)]

RECURSIVE Cost(_, _)
Cost(codes, text) == IF text = <<>> THEN Len(codes[Fictive])
                     ELSE Len(codes[Head(text)]) + Cost(codes, Tail(text))

Optimal(codes, text) == Cost(codes, text) = LeastCost(Weights(text))

=============================================================================
