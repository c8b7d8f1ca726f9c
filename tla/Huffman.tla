------------------------------ MODULE Huffman ------------------------------
(***************************************************************************)
(* Canonical Huffman decoding as src/src/huffman.cyr does it bit by bit:   *)
(* a table is the number of codes of each length and the symbols in        *)
(* canonical order.  lens[s + 1] is the code length of symbol s, 0 for a   *)
(* symbol without a code.                                                  *)
(***************************************************************************)
EXTENDS Integers, Sequences, FiniteSets, SequencesExt

CONSTANT MaxBits  \* HUFF_MAX_BITS, the longest code

ASSUME HuffmanAssumption == MaxBits \in Nat \ {0}

CodesOfLength(lens) ==
    [b \in 1 .. MaxBits |-> Cardinality({i \in DOMAIN lens : lens[i] = b})]

\* Neither over-subscribed nor incomplete; a lone code of one bit may be
\* incomplete, except in the code-length code (strict).
ValidLengths(lens, strict) ==
    LET count == CodesOfLength(lens)
        \* codes of b bits still free: negative once there are too many
        left[b \in 0 .. MaxBits] == IF b = 0 THEN 1 ELSE 2 * left[b - 1] - count[b]
        used == {b \in 1 .. MaxBits : count[b] > 0}
    IN  /\ left[MaxBits] >= 0
        /\ used = {} \/ left[MaxBits] = 0 \/ (used = {1} /\ ~strict)

\* The symbols with a code, by code length, then by symbol.
CanonicalOrder(lens) ==
    LET symbols == [i \in 1 .. Len(lens) |-> i - 1]
        OfLength(b) == SelectSeq(symbols, LAMBDA s : lens[s + 1] = b)
    IN  FlattenSeq([b \in 1 .. MaxBits |-> OfLength(b)])

NoTable == [count |-> [b \in 1 .. MaxBits |-> 0], order |-> <<>>]

HuffBuild(lens) ==
    [count |-> CodesOfLength(lens), order |-> CanonicalOrder(lens)]

\* _huff_build: a table that is refused is left empty.
BuiltOrEmpty(lens, strict) ==
    IF ValidLengths(lens, strict) THEN HuffBuild(lens) ELSE NoTable

NoCode == [used |-> 0, sym |-> 0]

\* The symbol whose code the bits start with, and the length of that code:
\* first is the first code of b bits, index the symbols with shorter ones.
HuffDecode(table, bits) ==
    LET walk[rest \in Seq({0, 1}), b \in Nat, code \in Nat, first \in Nat, index \in Nat] ==
            IF b > MaxBits \/ rest = <<>> THEN NoCode
            ELSE LET c == code + rest[1]
                     n == table.count[b]
                 IN  IF c < first + n
                       THEN [used |-> b, sym |-> table.order[index + c - first + 1]]
                       ELSE walk[Tail(rest), b + 1, 2 * c, 2 * (first + n), index + n]
    IN  walk[bits, 1, 0, 0, 0]
=============================================================================
