-------------------------------- MODULE Bits --------------------------------
(* Bytes as bits, least significant first, the order bitreader.cyr and the  *)
(* streaming decoders read them in.  A sequence of bits holds 0s and 1s.    *)
EXTENDS Naturals, Sequences

Byte == 0 .. 255

BitsOf(bytes) ==
    [k \in 1 .. 8 * Len(bytes) |->
        (bytes[(k - 1) \div 8 + 1] \div 2 ^ ((k - 1) % 8)) % 2]

\* The number whose least significant bit comes first.
Value(bs) ==
    LET upto[n \in 0 .. Len(bs)] ==
            IF n = 0 THEN 0 ELSE upto[n - 1] + bs[n] * 2 ^ (n - 1)
    IN  upto[Len(bs)]

\* At most n bits of bs after position p.
Window(bs, p, n) == SubSeq(bs, p + 1, IF p + n < Len(bs) THEN p + n ELSE Len(bs))

Zeros(n) == [i \in 1 .. n |-> 0]

Bytes(bits) == (bits + 7) \div 8
=============================================================================
