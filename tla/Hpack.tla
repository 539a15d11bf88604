------------------------------- MODULE Hpack -------------------------------
(***************************************************************************)
(* Numbers and texts in the header blocks of HTTP/2: the Huffman code of   *)
(* mod_http2.inl (hpack_encode, hpack_decode and hpack_getnum).  A text is *)
(* a sequence of bytes, its code one of bits.                              *)
(***************************************************************************)
EXTENDS Integers, Sequences, SequencesExt, FiniteSetsExt

CONSTANT Questions   \* [f |-> "text" or "number", ...]

VARIABLES question, answer

NULL == <<"NULL">>

Bits(code, n) == [i \in 1 .. n |-> (code \div 2 ^ (n - i)) % 2]
-----------------------------------------------------------------------------
(* hpack_huff_dec: the bytes in the order of their codes, the last one ends a text *)

Decoded == <<
    48, 49, 50, 97, 99, 101, 105, 111, 115, 116, 32, 37, 45, 46, 47, 51, 52, 53, 54,
    55, 56, 57, 61, 65, 95, 98, 100, 102, 103, 104, 108, 109, 110, 112, 114, 117, 58,
    66, 67, 68, 69, 70, 71, 72, 73, 74, 75, 76, 77, 78, 79, 80, 81, 82, 83, 84, 85,
    86, 87, 89, 106, 107, 113, 118, 119, 120, 121, 122, 38, 42, 44, 59, 88, 90, 33,
    34, 40, 41, 63, 39, 43, 124, 35, 62, 0, 36, 64, 91, 93, 126, 94, 125, 60, 96, 123,
    92, 195, 208, 128, 130, 131, 162, 184, 194, 224, 226, 153, 161, 167, 172, 176,
    177, 179, 209, 216, 217, 227, 229, 230, 129, 132, 133, 134, 136, 146, 154, 156,
    160, 163, 164, 169, 170, 173, 178, 181, 185, 186, 187, 189, 190, 196, 198, 228,
    232, 233, 1, 135, 137, 138, 139, 140, 141, 143, 147, 149, 150, 151, 152, 155, 157,
    158, 165, 166, 168, 174, 175, 180, 182, 183, 188, 191, 197, 231, 239, 9, 142, 144,
    145, 148, 159, 171, 206, 215, 225, 236, 237, 199, 207, 234, 235, 192, 193, 200,
    201, 202, 205, 210, 213, 218, 219, 238, 240, 242, 243, 255, 203, 204, 211, 212,
    214, 221, 222, 223, 241, 244, 245, 246, 247, 248, 250, 251, 252, 253, 254, 2, 3,
    4, 5, 6, 7, 8, 11, 12, 14, 15, 16, 17, 18, 19, 20, 21, 23, 24, 25, 26, 27, 28, 29,
    30, 31, 127, 220, 249, 10, 13, 22, 256 >>

\* How many codes have 1, 2, ... bits.
Counts == <<0, 0, 0, 0, 10, 26, 32, 6, 0, 5, 3, 2, 6, 2, 3, 0, 0, 0, 3, 8, 13, 26, 29, 12, 4,
            15, 19, 29, 0, 4>>

Bitcount == FlattenSeq([b \in DOMAIN Counts |-> [i \in 1 .. Counts[b] |-> b]])

\* The first code of 1, 2, ... bits; codes of one length are numbered on.
Firsts == <<0, 0, 0, 0, 0, 20, 92, 248, 0, 1016, 2042, 4090, 8184, 16380, 32764, 0, 0, 0,
            524272, 1048550, 2097116, 4194258, 8388568, 16777194, 33554412, 67108832,
            134217694, 268435426, 0, 1073741820>>

Encoded == FlattenSeq([b \in DOMAIN Counts |-> [i \in 1 .. Counts[b] |-> Firsts[b] + i - 1]])

\* hpack_huff_end_code: the greatest code of 5, 6, ... 30 bits, 0 if there is none.
EndCode == <<9, 45, 123, 253, 0, 1020, 2044, 4091, 8189, 16381, 32766, 0, 0, 0, 524274, 1048557,
             2097128, 4194283, 8388596, 16777205, 33554415, 67108846, 134217712, 268435454, 0,
             1073741822>>

\* Mutated: the codes of eight bits are looked for after their first one.
StartLate == <<0, 10, 36, 69, 0, 74, 79, 82, 84, 90, 92, 0, 0, 0, 95, 98, 106, 119, 145, 174, 186,
               190, 205, 224, 0, 253>>

\* hpack_huff_start_index, counted from 0.
StartIndex == <<0, 10, 36, 68, 0, 74, 79, 82, 84, 90, 92, 0, 0, 0, 95, 98, 106, 119, 145, 174, 186,
                190, 205, 224, 0, 253>>
-----------------------------------------------------------------------------
(* hpack_encode, append_bits *)

Lower(byte) == IF byte \in 65 .. 90 THEN byte + 32 ELSE byte

Code(byte) ==
  LET n == Min({i \in 1 .. 256 : Decoded[i] = byte}) IN Bits(Encoded[n], Bitcount[n])

\* Mutated: the bits after the last code are zeros.
SpareZero(bits) == [i \in 1 .. (8 - (Len(bits) % 8)) % 8 |-> 0]

Spare(bits) == [i \in 1 .. (8 - (Len(bits) % 8)) % 8 |-> 1]

\* Bits are added to what is there, and that is zeroed for the length of the text only.
Stored(bits, n, dirt) == [i \in DOMAIN bits |-> IF i > 8 * n /\ dirt = 1 THEN 1 ELSE bits[i]]

\* << >> is a code that is too long for one byte of length: nothing is appended.
HpackEncode(text, lower, dirt) ==
  LET bits == FlattenSeq([i \in DOMAIN text |-> Code(IF lower THEN Lower(text[i]) ELSE text[i])])
      whole == bits \o Spare(bits)
      bytes == Len(whole) \div 8
  IN IF bytes >= 127 THEN << >> ELSE <<1>> \o Bits(bytes, 7) \o Stored(whole, Len(text), dirt)
-----------------------------------------------------------------------------
(* hpack_getnum, hpack_decode *)

Value(bits, p, n) == MapThenSumSet(LAMBDA i : bits[p + i] * 2 ^ (n - i), 1 .. n)
ByteAt(bits, i) == Value(bits, 8 * i, 8)

\* Mutated: the first of the bytes that follow is the highest.
WeightHighFirst(n, k) == 2 ^ (7 * (n - 1 - k))

\* The weight of byte k (from 0) of n that follow.
Weight(n, k) == 2 ^ (7 * k)

\* [num, next]: mask is that of the bits of the number in its first byte.
HpackGetnum(bits, i, mask) ==
  LET first == ByteAt(bits, i) % (mask + 1)
      n == Min({k \in 1 .. Len(bits) \div 8 - i - 1 : ByteAt(bits, i + k) < 128})
  IN IF first < mask THEN [num |-> first, next |-> i + 1]
     ELSE [num |-> first + MapThenSumSet(LAMBDA k : (ByteAt(bits, i + 1 + k) % 128) * Weight(n, k), 0 .. n - 1),
           next |-> i + 1 + n]

\* The places of a code among those from the start index on.
Found(accu, bc) == LET codes == Encoded IN {n \in StartIndex[bc - 4] + 1 .. 256 : codes[n] = accu}

\* How many bits from p on are collected: until they are not above the greatest code of
\* their number; 31 are no code.
Collected(data, p) ==
  Min({b \in 5 .. Len(data) - p : b = 31 \/ (b < 31 /\ Value(data, p, b) <= EndCode[b - 4])} \cup {32})

\* What is left of the last byte is dropped.
Huffman(data) ==
  LET step(s, n) ==
        LET bc == Collected(data, s.p)
        IN CASE bc = 32 -> s
             [] bc = 31 -> [s EXCEPT !.p = @ + 31]
             [] OTHER -> LET f == Found(Value(data, s.p, bc), bc)
                         IN [p |-> s.p + bc,
                             text |-> s.text \o (IF f = {} THEN << >> ELSE <<Decoded[Min(f)]>>)]
  IN FoldLeft(step, [p |-> 0, text |-> << >>], [n \in 1 .. Len(data) \div 5 |-> n]).text

TooLong(n) == n > 1024

\* The text at byte i: [text, next].  A longer one is not read, nor passed over.
HpackDecode(bits, i) ==
  LET length == HpackGetnum(bits, i, 127)
      data == SubSeq(bits, 8 * length.next + 1, 8 * (length.next + length.num))
      plain == [k \in 1 .. length.num |-> ByteAt(data, k - 1)]
  IN IF TooLong(length.num) THEN [text |-> NULL, next |-> length.next]
     ELSE [text |-> IF bits[8 * i + 1] = 1 THEN Huffman(data) ELSE plain,
           next |-> length.next + length.num]
-----------------------------------------------------------------------------
(* A text or a number as another implementation encodes it (RFC 7541, 5.1 and 5.2) *)

Digits(n) ==
  LET digits == Min({d \in 1 .. 4 : 2 ^ (7 * d) > n})
  IN [k \in 1 .. digits |-> (n \div 2 ^ (7 * (k - 1))) % 128]
Number(n, prefix, mask, bits) ==
  IF n < mask THEN prefix \o Bits(n, bits)
  ELSE prefix \o Bits(mask, bits)
       \o FlattenSeq([k \in DOMAIN Digits(n - mask) |->
            <<IF k < Len(Digits(n - mask)) THEN 1 ELSE 0>> \o Bits(Digits(n - mask)[k], 7)])
Plain(text) == Number(Len(text), <<0>>, 127, 7) \o FlattenSeq([i \in DOMAIN text |-> Bits(text[i], 8)])

Answer(q) ==
  CASE q.f = "text" -> LET code == HpackEncode(q.text, q.lower, q.dirt)
                       IN [code |-> code,
                           text |-> IF code = << >> THEN << >> ELSE HpackDecode(code, 0).text,
                           next |-> IF code = << >> THEN 0 ELSE HpackDecode(code, 0).next]
    [] q.f = "plain" -> HpackDecode(Plain(q.text), 0)
    [] q.f = "number" -> HpackGetnum(Bits(0, 8) \o Number(q.n, Bits(0, 8 - q.bits), 2 ^ q.bits - 1, q.bits)
                                     \o Bits(255, 8), 1, 2 ^ q.bits - 1)
    [] q.f = "long" -> HpackDecode(Number(q.n, <<0>>, 127, 7), 0)

Init == question \in Questions /\ answer = << >>
Next == answer = << >> /\ answer' = <<Answer(question)>> /\ UNCHANGED question
-----------------------------------------------------------------------------
\* What is encoded is decoded to the same text, or to its lower case, and the place after
\* it is found, wherever the code is no longer than the text, or than what one byte of
\* length can tell; a number is read as it was written.
CodesAreRead ==
  answer # << >> =>
    LET q == question
        a == answer[1]
        text == IF q.f = "text" /\ q.lower THEN [i \in DOMAIN q.text |-> Lower(q.text[i])] ELSE q.text
    IN CASE q.f = "text" ->
              /\ a.code # << >> /\ (q.dirt = 0 \/ Len(a.code) <= 8 * (Len(text) + 1)) =>
                   a.text = text /\ a.next = Len(a.code) \div 8
              /\ a.code = << >> => Len(text) > 33
         [] q.f = "plain" -> a.text = q.text /\ a.next >= Len(q.text) + 1
         [] q.f = "number" -> a.num = q.n /\ a.next >= 2
         [] q.f = "long" -> a.text = NULL
=============================================================================
