---------------------------- MODULE BrotliTables ----------------------------
(***************************************************************************)
(* RFC 7932's constant tables as scripts/brotli_ref_decoder.py and         *)
(* scripts/brotli-craft.py hold them, and the static dictionary.  A length *)
(* code c stands for base[c + 1] plus extra[c + 1] bits.  The dictionary's *)
(* words and the affixes of its transforms are data: a word is a run of    *)
(* letters told apart by its index, an affix one letter.                   *)
(***************************************************************************)
EXTENDS Bits, Integers, SequencesExt

INS == [base  |-> <<0, 1, 2, 3, 4, 5, 6, 8, 10, 14, 18, 26, 34, 50, 66, 98, 130, 194,
                    322, 578, 1090, 2114, 6210, 22594>>,
        extra |-> <<0, 0, 0, 0, 0, 0, 1, 1, 2, 2, 3, 3, 4, 4, 5, 5, 6, 7, 8, 9, 10, 12, 14, 24>>]
CPY == [base  |-> <<2, 3, 4, 5, 6, 7, 8, 9, 10, 12, 14, 18, 22, 30, 38, 54, 70, 102,
                    134, 198, 326, 582, 1094, 2118>>,
        extra |-> <<0, 0, 0, 0, 0, 0, 0, 0, 1, 1, 2, 2, 3, 3, 4, 4, 5, 5, 6, 7, 8, 9, 10, 24>>]
BL  == [base  |-> <<1, 5, 9, 13, 17, 25, 33, 41, 49, 65, 81, 97, 113, 145, 177, 209, 241,
                    305, 369, 497, 753, 1265, 2289, 4337, 8433, 16625>>,
        extra |-> <<2, 2, 2, 2, 3, 3, 3, 3, 4, 4, 4, 4, 5, 5, 5, 5, 6, 6, 7, 8, 9, 10, 11,
                    12, 13, 24>>]

\* The eleven cells of insert-and-copy symbols: the codes they start at, and
\* whether the distance is the last one, unread.
CELLS == << <<0, 0, TRUE>>, <<0, 8, TRUE>>, <<0, 0, FALSE>>, <<0, 8, FALSE>>,
            <<8, 0, FALSE>>, <<8, 8, FALSE>>, <<0, 16, FALSE>>, <<16, 0, FALSE>>,
            <<8, 16, FALSE>>, <<16, 8, FALSE>>, <<16, 16, FALSE>> >>

CL_ORDER == <<1, 2, 3, 4, 0, 5, 17, 6, 16, 7, 8, 9, 10, 11, 12, 13, 14, 15>>

FirstRing == <<16, 15, 11, 4>>  \* the last distance at the end

-----------------------------------------------------------------------------
(* Literal contexts: two bytes back, under one of four modes.              *)

\* UTF8, one byte back: classes of ASCII, then continuations and leads.
Utf8Class(p) ==
    CASE p \in {9, 10, 13}               -> 4
      [] p = 32                          -> 8
      [] p \in {34, 39}                  -> 16
      [] p = 37                          -> 20
      [] p \in {40, 60, 91, 123}         -> 24
      [] p \in {41, 62, 93, 125}         -> 28
      [] p \in {44, 58, 59}              -> 32
      [] p = 46                          -> 36
      [] p = 61                          -> 40
      [] p \in 48 .. 57                  -> 44
      [] p \in {65, 69, 73, 79, 85}      -> 48
      [] p \in 65 .. 90                  -> 52
      [] p \in {97, 101, 105, 111, 117}  -> 56
      [] p \in 97 .. 122                 -> 60
      [] p < 32 \/ p = 127               -> 0
      [] p >= 192                        -> 2 + (p % 2)
      [] p >= 128                        -> p % 2
      [] OTHER                           -> 12

\* UTF8, two bytes back.
Utf8Before(p) ==
    CASE p \in 97 .. 122                           -> 3
      [] p \in 48 .. 57 \/ p \in 65 .. 90 \/ p >= 224 -> 2
      [] p \in 33 .. 126                           -> 1
      [] OTHER                                     -> 0

\* SIGNED: eight ranges of the byte as a signed number.
Magnitude(p) ==
    CASE p = 0 -> 0 [] p < 16 -> 1 [] p < 64 -> 2 [] p < 128 -> 3
      [] p < 192 -> 4 [] p < 240 -> 5 [] p < 255 -> 6 [] OTHER -> 7

\* Or of two numbers below four.
Or2(a, b) == (IF a >= 2 \/ b >= 2 THEN 2 ELSE 0) + (IF a % 2 = 1 \/ b % 2 = 1 THEN 1 ELSE 0)

CTX(mode, p1, p2) ==
    CASE mode = 0 -> p1 % 64
      [] mode = 1 -> p1 \div 4
      [] mode = 2 -> IF p1 < 128 THEN Utf8Class(p1) + Utf8Before(p2)
                     ELSE Or2(Utf8Class(p1), Utf8Before(p2))
      [] OTHER    -> 8 * Magnitude(p1) + Magnitude(p2)

-----------------------------------------------------------------------------
(* The static dictionary.                                                  *)

NDBITS == <<0, 0, 0, 0, 10, 10, 11, 11, 10, 10, 10, 10, 10, 9, 9, 8, 7, 7, 8, 7, 7, 6, 6, 5, 5>>

\* Word idx of a length: letters, some words starting with a two-byte
\* character, some ending where a three-byte one has just begun.
DICT(len, idx) ==
    [i \in 1 .. len |->
        CASE idx % 4 = 3 /\ i = 1   -> 195
          [] idx % 4 = 3 /\ i = 2   -> 169
          [] idx % 4 = 2 /\ i = len -> 226
          [] OTHER                  -> 97 + ((idx + len + i) % 26)]

TransformPrefix ==
    <<49, 49, 0, 49, 49, 49, 0, 4, 49, 49, 49, 49, 49, 1, 49, 0, 49, 49, 48,
      49, 49, 49, 49, 49, 49, 49, 49, 49, 49, 49, 0, 49, 5, 0, 49, 49, 49, 49,
      49, 49, 49, 47, 49, 49, 49, 49, 49, 49, 49, 49, 49, 49, 0, 49, 49, 49,
      49, 49, 49, 49, 49, 49, 47, 49, 49, 0, 49, 5, 49, 49, 49, 0, 35, 47, 49,
      49, 49, 5, 49, 49, 49, 0, 49, 0, 49, 0, 49, 49, 49, 0, 49, 0, 49, 49,
      49, 49, 0, 49, 0, 49, 49, 49, 45, 0, 49, 49, 49, 49, 49, 0, 0, 0, 49,
      49, 49, 0, 49, 0, 0, 0, 0>>
TransformType ==
    <<0, 0, 0, 12, 10, 0, 0, 0, 0, 10, 0, 13, 1, 0, 0, 10, 0, 0, 0, 0, 0, 0,
      0, 3, 0, 0, 14, 2, 0, 0, 10, 0, 0, 0, 15, 0, 0, 0, 0, 16, 17, 0, 4, 0,
      11, 0, 0, 0, 7, 1, 0, 0, 0, 0, 20, 18, 6, 0, 10, 8, 0, 0, 0, 5, 9, 10,
      10, 0, 11, 10, 0, 0, 0, 0, 10, 0, 0, 0, 10, 10, 0, 0, 0, 11, 0, 11, 0,
      11, 10, 0, 0, 10, 0, 0, 11, 0, 10, 11, 0, 10, 0, 11, 0, 0, 10, 11, 0,
      11, 10, 10, 11, 11, 11, 11, 11, 11, 11, 11, 10, 11, 10>>
TransformSuffix ==
    <<49, 0, 0, 49, 0, 47, 49, 0, 3, 49, 6, 49, 49, 0, 1, 0, 7, 9, 0, 8, 5,
      10, 11, 49, 13, 14, 49, 49, 15, 16, 49, 12, 49, 1, 49, 18, 17, 19, 20,
      49, 49, 49, 49, 22, 49, 23, 24, 25, 49, 26, 27, 28, 12, 29, 49, 49, 49,
      21, 1, 49, 31, 32, 3, 49, 49, 1, 8, 21, 0, 10, 30, 5, 49, 2, 17, 36, 33,
      0, 21, 5, 37, 30, 38, 0, 39, 49, 34, 8, 12, 21, 40, 12, 41, 42, 17, 43,
      5, 10, 34, 33, 44, 5, 49, 33, 30, 30, 46, 1, 34, 33, 30, 1, 33, 21, 12,
      5, 34, 12, 30, 34, 34>>

Affix(id) == IF id = 49 THEN <<>> ELSE <<id>>
=============================================================================
