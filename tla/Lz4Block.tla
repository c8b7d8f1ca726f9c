------------------------------- MODULE Lz4Block -------------------------------
(***************************************************************************)
(* LZ4 blocks (src/src/lz4.cyr, lz4_decode.cyr).  A block is a list of     *)
(* sequences: literals, then a match some bytes back.  The last one has    *)
(* literals only.  The encoder finds the sequences with a hash table of    *)
(* single positions; Written is what it writes, DecBlock what the decoder  *)
(* makes of any bytes.                                                     *)
(*                                                                         *)
(* A position counts from 0, a sequence of bytes from 1.                   *)
(***************************************************************************)
EXTENDS Integers, SequencesExt

CONSTANTS
    MinMatch,      \* LZ4_MIN_MATCH
    MaxOffset,     \* LZ4_MAX_OFFSET
    LastLiterals,  \* a match ends that far before the end of the block
    MfLimit,       \* and begins that far before it
    Nibble,        \* the largest length that the token holds
    Ext,           \* a length byte with this value is followed by another
    SkipShift,     \* misses per byte skipped, as a power of two
    Buckets,       \* what Hash maps to
    Hash(_)        \* _lz4_hash4, of a sequence of MinMatch bytes

Byte == 0 .. 255

ASSUME Lz4BlockAssumption ==
    /\ MinMatch \in Nat \ {0} /\ MaxOffset \in 1 .. 65535
    /\ LastLiterals \in Nat \ {0} /\ MfLimit \in Nat
    /\ Nibble \in 1 .. 15 /\ Ext \in 1 .. 255 /\ 2 ^ SkipShift \in Nat \ {0}
    /\ \A s \in [1 .. MinMatch -> Byte] : Hash(s) \in Buckets

-----------------------------------------------------------------------------
(* The encoder's search, _lz4_compress_inner.                              *)

Sequence == [lits : Seq(Byte), dist : Nat, len : Nat]

Searches == [sp : Nat, anchor : Nat, skip : Nat, table : [Buckets -> Int], seqs : Seq(Sequence)]

Common(src, a, b, n) == Max({k \in 0 .. n : \A i \in 1 .. k : src[a + i] = src[b + i]})

AtLeast0(n) == Max({0, n})

MatchLimit(src) == AtLeast0(Len(src) - LastLiterals)

\* Mutant: a match may begin anywhere before the last literals.
BeginsAnywhere(src, sp) == sp <= Len(src)

MayBegin(src, sp) == sp <= AtLeast0(Len(src) - MfLimit)

Hashable(src, sp) == sp + MinMatch <= MatchLimit(src)
HashAt(src, sp)   == Hash(SubSeq(src, sp + 1, sp + MinMatch))

\* Does the table's entry lead to a match at s.sp?
Leads(src, s, entry) ==
    /\ entry >= 0 /\ MayBegin(src, s.sp)
    /\ s.sp - entry \in 1 .. MaxOffset
    /\ \A i \in 1 .. MinMatch : src[entry + i] = src[s.sp + i]

\* The loop finds a match.  Only the position behind it is entered.
Matched(src, s, table, entry) ==
    LET len  == Common(src, entry, s.sp, MatchLimit(src) - s.sp)
        past == s.sp + len
    IN  [sp |-> past, anchor |-> past, skip |-> 0,
         table |-> IF Hashable(src, past) THEN [table EXCEPT ![HashAt(src, past)] = past] ELSE table,
         seqs |-> Append(s.seqs, [lits |-> SubSeq(src, s.anchor + 1, s.sp),
                                  dist |-> s.sp - entry, len |-> len])]

Missed(s, table) ==
    [s EXCEPT !.table = table, !.skip = @ + 1, !.sp = @ + 1 + (s.skip + 1) \div 2 ^ SkipShift]

Turn(src, s) ==
    LET h     == HashAt(src, s.sp)
        table == [s.table EXCEPT ![h] = s.sp]
    IN  IF Leads(src, s, s.table[h]) THEN Matched(src, s, table, s.table[h]) ELSE Missed(s, table)

LastRun(src, from) == IF from = Len(src) THEN <<>>
                      ELSE <<[lits |-> SubSeq(src, from + 1, Len(src)), dist |-> 0, len |-> 0]>>

SequencesOf(src) ==
    LET from[s \in Searches] ==
            IF Hashable(src, s.sp) THEN from[Turn(src, s)] ELSE s.seqs \o LastRun(src, s.anchor)
    IN  from[[sp |-> 0, anchor |-> 0, skip |-> 0, seqs |-> <<>>, table |-> [h \in Buckets |-> -1]]]

-----------------------------------------------------------------------------
(* _lz4_emit.  Every byte of it needs room, so that an output buffer is    *)
(* too small exactly if it is smaller than the whole.                      *)

Extension(n) == [i \in 1 .. n \div Ext |-> Ext] \o <<n % Ext>>

Token(l, m) == Min({l, Nibble}) * (Nibble + 1) + Min({m, Nibble})

Long(n) == IF n >= Nibble THEN Extension(n - Nibble) ELSE <<>>

MatchPart(s) == IF s.len = 0 THEN <<>>
                ELSE <<s.dist % 256, s.dist \div 256>> \o Long(s.len - MinMatch)

Emit(s) == <<Token(Len(s.lits), IF s.len = 0 THEN 0 ELSE s.len - MinMatch)>>
           \o Long(Len(s.lits)) \o s.lits \o MatchPart(s)

\* What _lz4_compress_inner writes, given room.
Compressed(src) ==
    LET All(seqs) == FlattenSeq([k \in 1 .. Len(seqs) |-> Emit(seqs[k])])
    IN  All(SequencesOf(src))

-----------------------------------------------------------------------------
(* The decoder, _lz4_dec_block: the bytes of a block behind the output so  *)
(* far, of which a match may reach back to position lo; cap and lim are    *)
(* positions too.  The answer is the whole output, or an error.            *)

Errors == {"none", "CORRUPT_DATA", "MATCH_OUT_OF_RANGE", "BUFFER_TOO_SMALL", "CHECKSUM_MISMATCH"}

Answers == [sp : Nat, out : Seq(Byte), err : Errors]

Wrong(a, e) == [a EXCEPT !.err = e]

\* A length that begins with n: the token's share and the bytes behind it, and
\* where they end; beyond the block if it is cut there.
Length(src, sp, n) ==
    LET stops == {k \in sp + 1 .. Len(src) : src[k] # Ext}
        k     == Min(stops)
    IN  IF n # Nibble THEN [len |-> n, sp |-> sp]
        ELSE IF stops = {} THEN [len |-> 0, sp |-> Len(src) + 1]
        ELSE [len |-> n + (k - sp - 1) * Ext + src[k], sp |-> k]

Overflow(n, cap, lim, limErr) ==
    IF n > cap THEN "BUFFER_TOO_SMALL" ELSE IF n > lim THEN limErr ELSE "none"

Repeat(out, dist, len) == [i \in 1 .. len |-> out[Len(out) - dist + 1 + ((i - 1) % dist)]]

DecMatch(src, a, n, lo, cap, lim, limErr) ==
    IF a.sp + 2 > Len(src) THEN Wrong(a, "CORRUPT_DATA")
    ELSE LET dist == src[a.sp + 1] + 256 * src[a.sp + 2]
             l    == Length(src, a.sp + 2, n)
             over == Overflow(Len(a.out) + l.len + MinMatch, cap, lim, limErr)
         IN  IF dist = 0 THEN Wrong(a, "CORRUPT_DATA")
             ELSE IF dist > Len(a.out) - lo THEN Wrong(a, "MATCH_OUT_OF_RANGE")
             ELSE IF l.sp > Len(src) THEN Wrong(a, "CORRUPT_DATA")
             ELSE IF over # "none" THEN Wrong(a, over)
             ELSE [a EXCEPT !.sp = l.sp, !.out = @ \o Repeat(@, dist, l.len + MinMatch)]

DecSequence(src, a, lo, cap, lim, limErr) ==
    LET token == src[a.sp + 1]
        l     == Length(src, a.sp + 1, (token \div (Nibble + 1)) % (Nibble + 1))
        over  == Overflow(Len(a.out) + l.len, cap, lim, limErr)
        b     == [a EXCEPT !.sp = l.sp + l.len,
                           !.out = @ \o SubSeq(src, l.sp + 1, l.sp + l.len)]
    IN  IF l.sp > Len(src) THEN Wrong(a, "CORRUPT_DATA")
        ELSE IF over # "none" THEN Wrong(a, over)
        ELSE IF l.sp + l.len > Len(src) THEN Wrong(a, "CORRUPT_DATA")
        ELSE IF b.sp = Len(src) THEN b
        ELSE DecMatch(src, b, token % (Nibble + 1), lo, cap, lim, limErr)

DecBlock(src, out, lo, cap, lim, limErr) ==
    LET from[a \in Answers] ==
            IF a.sp >= Len(src) \/ a.err # "none" THEN a
            ELSE from[DecSequence(src, a, lo, cap, lim, limErr)]
    IN  from[[sp |-> 0, out |-> out, err |-> "none"]]
=============================================================================
