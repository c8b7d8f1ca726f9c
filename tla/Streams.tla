------------------------------ MODULE Streams ------------------------------
(* DEFLATE streams put together from their fields, for the model checker.    *)
EXTENDS Inflate

Num(v, n) == [i \in 1 .. n |-> (v \div 2 ^ (i - 1)) % 2]

\* The canonical code of symbol s, most significant bit first.
Codeword(lens, s) ==
    LET b == lens[s + 1]
        first[n \in 1 .. MaxBits] ==
            IF n = 1 THEN 0
            ELSE 2 * (first[n - 1] + Cardinality({i \in DOMAIN lens : lens[i] = n - 1}))
        code == first[b] + Cardinality({i \in 1 .. s : lens[i] = b})
    IN  [i \in 1 .. b |-> (code \div 2 ^ (b - i)) % 2]

Pack(bits) ==
    LET padded == bits \o Zeros(8 * Bytes(Len(bits)) - Len(bits))
    IN  [i \in 1 .. Bytes(Len(bits)) |-> Value(SubSeq(padded, 8 * i - 7, 8 * i))]

Header(last, btype) == <<last>> \o Num(btype, 2)

Stored(ahead, last, bytes) ==
    LET h == ahead \o Header(last, 0)
    IN  h \o Zeros(8 * Bytes(Len(h)) - Len(h)) \o Num(Len(bytes), 16)
          \o Num(65535 - Len(bytes), 16) \o BitsOf(bytes)

FixLens == [i \in 1 .. 288 |-> IF i <= 144 THEN 8 ELSE IF i <= 256 THEN 9
                               ELSE IF i <= 280 THEN 7 ELSE 8]
F(s) == Codeword(FixLens, s)
D(s) == [i \in 1 .. 5 |-> (s \div 2 ^ (5 - i)) % 2]
Fixed(last, body) == Header(last, 1) \o FlattenSeq(body) \o F(256)

\* A dynamic code whose longest code has eleven bits, two more than the fast
\* table; distance codes 0 to 3 of two bits
\* each, or a lone one of one bit.
DynLens ==
    [i \in 1 .. 258 |-> IF i <= 10 THEN i ELSE IF i >= 257 THEN 11 ELSE 0]
ClLens ==
    [i \in 1 .. 19 |-> IF i - 1 \in {17, 18} THEN 3
                       ELSE IF i - 1 \in 1 .. 11 \cup {16} THEN 4 ELSE 0]
C(s) == Codeword(ClLens, s)
DynHeader(last, n, dist) ==
    Header(last, 2) \o Num(258 - 257, 5) \o Num(n - 1, 5) \o Num(18 - 4, 4)
      \o FlattenSeq([k \in 1 .. 18 |-> Num(ClLens[ClOrder[k] + 1], 3)])
      \o FlattenSeq([k \in 1 .. 10 |-> C(k)])
      \o C(18) \o Num(127, 7) \o C(18) \o Num(93, 7) \o C(17) \o Num(1, 3)
      \o C(11) \o C(11) \o dist
Four == C(2) \o C(16) \o Num(0, 2)
G(s) == Codeword(DynLens, s)
DynBlock(last) ==
    DynHeader(last, 4, Four) \o G(0) \o G(9) \o G(257) \o <<0, 0>> \o G(7) \o G(256)

\* One bit of a stream of bytes wrong.
Flip(s, k) == [s EXCEPT ![Bytes(k)] =
                 LET b == 2 ^ ((k - 1) % 8)
                 IN  IF (@ \div b) % 2 = 1 THEN @ - b ELSE @ + b]
Flips(s, n) == {Flip(s, k) : k \in 1 .. 8 * n}

NoLim == [cap |-> 100000, out |-> 100000, ratio |-> 0]
=============================================================================
