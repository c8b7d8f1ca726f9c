------------------------------ MODULE Inflate ------------------------------
(***************************************************************************)
(* DEFLATE decompression in one call: the batch decoder of                 *)
(* src/src/deflate.cyr as a function of its input.  bs is the compressed   *)
(* stream as bits, dict the preset dictionary, out0 what earlier members   *)
(* of a concatenation left in the output buffer (a match cannot reach into *)
(* it), lim the three ceilings: cap (the buffer), out (DECOMPRESS_MAX_     *)
(* OUTPUT or the caller's) and ratio (0 for none), all counted from the    *)
(* start of the buffer.                                                    *)
(***************************************************************************)
EXTENDS Bits, Huffman

Has(bs, p, n)  == p + n <= Len(bs)
Read(bs, p, n) == Value(Window(bs, p, n))

\* RFC 1951's base values and extra bits, as _deflate_init_tables stores them.
LenExtra(i)  == IF i < 8 \/ i = 28 THEN 0 ELSE (i - 4) \div 4
LenBase(i)   == IF i < 8 THEN 3 + i
                ELSE IF i = 28 THEN 258 ELSE 3 + (4 + (i % 4)) * 2 ^ LenExtra(i)
DistExtra(i) == IF i < 4 THEN 0 ELSE (i - 2) \div 2
DistBase(i)  == IF i < 4 THEN 1 + i ELSE 1 + (2 + (i % 2)) * 2 ^ DistExtra(i)

FixedLit ==
    HuffBuild([i \in 1 .. 288 |-> IF i <= 144 THEN 8 ELSE IF i <= 256 THEN 9
                                  ELSE IF i <= 280 THEN 7 ELSE 8])
FixedDist == HuffBuild([i \in 1 .. 32 |-> 5])

ClOrder == <<16, 17, 18, 0, 8, 7, 9, 6, 10, 5, 11, 4, 12, 3, 13, 2, 14, 1, 15>>

\* The code-length code's lengths, from the 3-bit fields in stream order.
ClLengths(fields) ==
    [i \in 1 .. 19 |-> LET k == CHOOSE k \in 1 .. 19 : ClOrder[k] = i - 1
                       IN  IF k <= Len(fields) THEN fields[k] ELSE 0]

RepeatBits(sym) == CASE sym = 16 -> 2 [] sym = 17 -> 3 [] OTHER -> 7
RepeatBase(sym) == IF sym = 18 THEN 11 ELSE 3

\* Which ceiling an output of this size breaks, in the order the code tests.
Refused(size, lim) ==
    IF size > lim.cap THEN "BUFFER_TOO_SMALL"
    ELSE IF size > lim.out THEN "OUTPUT_LIMIT"
    ELSE IF lim.ratio # 0 /\ size > lim.ratio THEN "RATIO_LIMIT"
    ELSE "none"

\* Copied byte by byte, so a match may overlap what it writes.
MatchCopy(history, distance, length) ==
    [i \in 1 .. length |->
        history[Len(history) - distance + 1 + ((i - 1) % distance)]]

\* What a decode with too few bits left, or with no such code, returns.
NoSymbol(bs, p) == IF Has(bs, p, MaxBits) THEN "INVALID_HUFFMAN" ELSE "CORRUPT_DATA"

-----------------------------------------------------------------------------
(* The header of a dynamic block.                                          *)

\* The run-length coded lengths of "due" codes, from p on.
CodeLengths(bs, p0, cl, due) ==
    LET from[p \in Nat, lens \in Seq(0 .. 15)] ==
        LET End(e) == [err |-> e, pos |-> p, lens |-> lens]
            Repeat(sym, q, n) ==
                IF \/ sym = 16 /\ lens = <<>>
                   \/ ~Has(bs, q, RepeatBits(sym))
                   \/ Len(lens) + n > due
                  THEN End("CORRUPT_DATA")
                  ELSE from[q + RepeatBits(sym),
                            lens \o [i \in 1 .. n |-> IF sym = 16 THEN lens[Len(lens)] ELSE 0]]
            Code(c, q) ==
                IF c.used = 0 THEN End(NoSymbol(bs, p))
                ELSE IF c.sym <= 15 THEN from[q, Append(lens, c.sym)]
                ELSE Repeat(c.sym, q, Read(bs, q, RepeatBits(c.sym)) + RepeatBase(c.sym))
            At(c) == Code(c, p + c.used)
        IN  IF Len(lens) >= due THEN End("none")
            ELSE At(HuffDecode(cl, Window(bs, p, MaxBits)))
    IN  from[p0, <<>>]

\* A block's tables and where its codes start.
BlockHead(e, pos, lit, dist) == [err |-> e, pos |-> pos, lit |-> lit, dist |-> dist]
NoHead(e) == BlockHead(e, 0, NoTable, NoTable)

BuildBoth(pos, lit, dist) ==
    IF ValidLengths(lit, FALSE) /\ ValidLengths(dist, FALSE)
      THEN BlockHead("none", pos, HuffBuild(lit), HuffBuild(dist))
      ELSE NoHead("INVALID_HUFFMAN")

SplitLengths(all, hlit) ==
    IF all.err # "none" THEN NoHead(all.err)
    ELSE BuildBoth(all.pos, SubSeq(all.lens, 1, hlit),
                   SubSeq(all.lens, hlit + 1, Len(all.lens)))

ReadLengths(bs, p, cl, hlit, hdist) ==
    IF ~ValidLengths(cl, TRUE) THEN NoHead("INVALID_HUFFMAN")
    ELSE SplitLengths(CodeLengths(bs, p, HuffBuild(cl), hlit + hdist), hlit)

ReadDynamic(bs, p) ==
    LET hlit  == Read(bs, p, 5) + 257
        hdist == Read(bs, p + 5, 5) + 1
        hclen == Read(bs, p + 10, 4) + 4
    IN  IF \/ ~Has(bs, p, 14)
           \/ hlit > 286 \/ hdist > 30
           \/ ~Has(bs, p + 14, 3 * hclen)
          THEN NoHead("CORRUPT_DATA")
          ELSE ReadLengths(bs, p + 14 + 3 * hclen,
                   ClLengths([k \in 1 .. hclen |-> Read(bs, p + 14 + 3 * (k - 1), 3)]),
                   hlit, hdist)

-----------------------------------------------------------------------------
(* The blocks.  Each gives an error or none, where it ended and the output. *)

\* The match whose length code i ends before p: the distance code d is read
\* behind the length's extra bits, and ends before q.
MatchAt(bs, p, i, d, q) ==
    IF d.used = 0 THEN [err |-> NoSymbol(bs, q)]
    ELSE IF d.sym >= 30 \/ ~Has(bs, q, DistExtra(d.sym)) THEN [err |-> "CORRUPT_DATA"]
    ELSE [err |-> "none", next |-> q + DistExtra(d.sym),
          length   |-> LenBase(i) + Read(bs, p, LenExtra(i)),
          distance |-> DistBase(d.sym) + Read(bs, q, DistExtra(d.sym))]

Match(bs, p, i, dist) ==
    LET Behind(q, d) == MatchAt(bs, p, i, d, q + d.used)
        Here(q) == Behind(q, HuffDecode(dist, Window(bs, q, MaxBits)))
    IN  IF i >= 29 \/ ~Has(bs, p, LenExtra(i)) THEN [err |-> "CORRUPT_DATA"]
        ELSE Here(p + LenExtra(i))

\* What a match adds to the output, if nothing forbids it.
Copied(m, dict, start, lim, out) ==
    LET Fail(e) == [err |-> e, out |-> out]
    IN  IF m.err # "none" THEN Fail(m.err)
        ELSE IF m.distance > Len(dict) + Len(out) - start THEN Fail("MATCH_OUT_OF_RANGE")
        ELSE IF Refused(Len(out) + m.length, lim) # "none"
          THEN Fail(Refused(Len(out) + m.length, lim))
        ELSE [err |-> "none", next |-> m.next,
              out |-> out \o MatchCopy(dict \o out, m.distance, m.length)]

\* A compressed block, appending to out0; this member's output is behind start.
DecodeBlock(bs, dict, start, lim, head, out0) ==
    LET from[p \in Nat, out \in Seq(Byte)] ==
        LET End(e, q) == [err |-> e, pos |-> q, out |-> out]
            Grow(m) == IF m.err # "none" THEN End(m.err, p) ELSE from[m.next, m.out]
            Code(c, q) ==
                IF c.used = 0 THEN End(NoSymbol(bs, p), p)
                ELSE IF c.sym = 256 THEN End("none", q)
                ELSE IF c.sym > 256
                  THEN Grow(Copied(Match(bs, q, c.sym - 257, head.dist), dict, start, lim, out))
                ELSE IF Refused(Len(out) + 1, lim) # "none"
                  THEN End(Refused(Len(out) + 1, lim), p)
                ELSE from[q, Append(out, c.sym)]
            At(c) == Code(c, p + c.used)
        IN  At(HuffDecode(head.lit, Window(bs, p, MaxBits)))
    IN  IF head.err # "none" THEN [err |-> head.err, pos |-> 0, out |-> out0]
        ELSE from[head.pos, out0]

\* A stored block whose LEN field is at p.
StoredBlock(bs, p, lim, out) ==
    LET len == Read(bs, p, 16)
        End(e, o) == [err |-> e, pos |-> p + 32 + 8 * len, out |-> o]
    IN  IF ~Has(bs, p, 32) THEN End("CORRUPT_DATA", out)
        ELSE IF len + Read(bs, p + 16, 16) # 65535 THEN End("CORRUPT_DATA", out)
        ELSE IF Refused(Len(out) + len, lim) # "none"
          THEN End(Refused(Len(out) + len, lim), out)
        ELSE IF ~Has(bs, p + 32, 8 * len) THEN End("CORRUPT_DATA", out)
        ELSE End("none", out \o [k \in 1 .. len |-> Read(bs, p + 24 + 8 * k, 8)])

OneBlock(bs, dict, start, lim, p, out) ==
    LET btype == Read(bs, p + 1, 2)
        head  == CASE btype = 1 -> BlockHead("none", p + 3, FixedLit, FixedDist)
                   [] btype = 2 -> ReadDynamic(bs, p + 3)
                   [] OTHER     -> NoHead("INVALID_BLOCK_TYPE")
    IN  IF ~Has(bs, p, 3) THEN [err |-> "CORRUPT_DATA", pos |-> p, out |-> out]
        ELSE IF btype = 0 THEN StoredBlock(bs, 8 * Bytes(p + 3), lim, out)
        ELSE DecodeBlock(bs, dict, start, lim, head, out)

\* The whole stream: blocks up to the final one.  "used" is
\* deflate_bytes_consumed, the place where an envelope's trailer starts.
InflateStream(bs, dict, out0, lim) ==
    LET block[p \in Nat, out \in Seq(Byte)] ==
            LET Then(b) == IF b.err = "none" /\ bs[p + 1] = 0 THEN block[b.pos, b.out]
                           ELSE [err |-> b.err, used |-> Bytes(b.pos), out |-> b.out]
            IN  Then(OneBlock(bs, dict, Len(out0), lim, p, out))
    IN  block[0, out0]

\* What the batch decoder makes of the member that starts at byte "from",
\* whose output goes behind that of the earlier members.  It stages the
\* dictionary in the buffer, in front of the output.
Batch(bytes, from, dict, done, lim) ==
    LET Answer(r) == [err |-> r.err, out |-> r.out, trailer |-> from + r.used,
                      start |-> Len(done)]
        rest == BitsOf(SubSeq(bytes, from + 1, Len(bytes)))
    IN  IF Len(dict) > lim.cap
          THEN Answer([err |-> "BUFFER_TOO_SMALL", out |-> done, used |-> 0])
          ELSE Answer(InflateStream(rest, dict, done, [lim EXCEPT !.cap = @ - Len(dict)]))

\* The room it needs to have as much for the output as the streaming decoder,
\* which keeps the dictionary where the caller has it.
Roomy(lim, dict) == [lim EXCEPT !.cap = @ + Len(dict)]
=============================================================================
