------------------------------- MODULE Lz4Frame -------------------------------
(***************************************************************************)
(* LZ4 frames: magic number, descriptor (FLG, BD, content size, dictionary *)
(* id) and its checksum, blocks behind their sizes, the end mark, the      *)
(* checksum of the content.  Here are the parts of a frame and the batch   *)
(* functions _lz4f_compress_inner (src/src/lz4.cyr) and lz4f_decompress    *)
(* (lz4_decode.cyr).  xxHash32 is any function.                            *)
(***************************************************************************)
EXTENDS Lz4Block

CONSTANTS
    SmallBlock,   \* LZ4F_BLOCK_MAX, the block maximum of id 4
    Xxh32(_, _)   \* byte i of the xxHash32 of a sequence of bytes

ASSUME Lz4FrameAssumption == SmallBlock \in 1 .. 65536

Magic == <<4, 34, 77, 24>>

Checksum(s) == [i \in 1 .. 4 |-> Xxh32(s, i)]

\* The third header byte, bits 8 to 15 of the checksum.
HeaderSum(desc) == Xxh32(desc, 2)

\* Four times as much for each id from 4 to 7.
BlockMax(id) == SmallBlock * <<1, 4, 16, 64>>[id - 3]

Little(n) == <<n % 256, (n \div 256) % 256, (n \div 65536) % 256, (n \div 16777216) % 256>>

\* The size field of a block: 31 bits, and the one that says it is stored raw.
SizeField(n, stored) == [Little(n) EXCEPT ![4] = IF stored THEN @ + 128 ELSE @]

SizeOf(f) == f[1] + 256 * f[2] + 65536 * f[3] + 16777216 * (f[4] % 128)
IsRaw(f)  == f[4] >= 128

EndMark == <<0, 0, 0, 0>>

\* The flags of the FLG byte, each by the value of its bit.
Flag(flg, bit) == (flg \div bit) % 2 = 1
Linked(flg)          == ~Flag(flg, 32)
HasBlockSums(flg)    == Flag(flg, 16)
HasContentSize(flg)  == Flag(flg, 8)
HasContentSum(flg)   == Flag(flg, 4)
HasDictId(flg)       == Flag(flg, 1)

\* What is wrong with a FLG or a BD byte.
FlgFault(b) == IF b \div 64 # 1 THEN "UNSUPPORTED_FORMAT"
               ELSE IF Flag(b, 2) THEN "CORRUPT_DATA" ELSE "none"
BdFault(b)  == IF b >= 128 \/ b % 16 # 0 \/ b \div 16 < 4 THEN "CORRUPT_DATA" ELSE "none"

-----------------------------------------------------------------------------
(* Encoding.                                                               *)

Header(id, sums) ==
    LET desc == <<IF sums THEN 116 ELSE 100, id * 16>>
    IN  Magic \o desc \o <<HeaderSum(desc)>>

\* One block with its size and, if there is to be one, its checksum.  What does
\* not shrink is stored raw.
BlockBytes(packed, data, sums) ==
    LET raw  == Len(packed) >= Len(data)
        body == IF raw THEN data ELSE packed
    IN  SizeField(Len(body), raw) \o body \o (IF sums THEN Checksum(body) ELSE <<>>)

SumBytes(sums) == IF sums THEN 4 ELSE 0

\* There is room for so many more bytes, eight of which are for the end mark and
\* the content checksum.  The encoder compresses into the output buffer: also
\* what it then stores raw has to fit there compressed.
Fits(packed, data, sums, room) ==
    LET space == room - 4 - SumBytes(sums) - 8
    IN  Len(packed) <= space /\ (Len(packed) >= Len(data) => Len(data) <= space)

Pieces(src) ==
    [k \in 1 .. (Len(src) + SmallBlock - 1) \div SmallBlock |->
        SubSeq(src, (k - 1) * SmallBlock + 1, Min({k * SmallBlock, Len(src)}))]

TooSmall == [err |-> "BUFFER_TOO_SMALL", wire |-> <<>>]

\* The frame f with one more block.
Added(f, data, cap) ==
    IF f.err # "none" THEN f
    ELSE IF ~Fits(Compressed(data), data, FALSE, cap - Len(f.wire)) THEN TooSmall
    ELSE [f EXCEPT !.wire = @ \o BlockBytes(Compressed(data), data, FALSE)]

\* lz4f_compress: the frame, or an error if the buffer of cap bytes is too small.
Frame(src, cap) ==
    LET pieces == Pieces(src)
        upto[k \in 0 .. Len(pieces)] ==
            IF k = 0 THEN [err |-> "none", wire |-> Header(4, FALSE)]
            ELSE Added(upto[k - 1], pieces[k], cap)
        all == upto[Len(pieces)]
    IN  IF cap < 19 THEN TooSmall
        ELSE IF all.err # "none" THEN all
        ELSE [all EXCEPT !.wire = @ \o EndMark \o Checksum(src)]

-----------------------------------------------------------------------------
(* Decoding.                                                               *)

Failure(e) == [err |-> e, out |-> <<>>]

\* The end of the descriptor, behind the optional fields.
DescEnd(flg) == 6 + (IF HasContentSize(flg) THEN 8 ELSE 0) + (IF HasDictId(flg) THEN 4 ELSE 0)

HeaderFault(src) ==
    LET flg == src[5]
    IN  IF Len(src) < 11 THEN "INVALID_INPUT"
        ELSE IF SubSeq(src, 1, 4) # Magic THEN "CORRUPT_DATA"
        ELSE IF FlgFault(flg) # "none" THEN FlgFault(flg)
        ELSE IF BdFault(src[6]) # "none" THEN BdFault(src[6])
        ELSE IF DescEnd(flg) + 1 > Len(src) THEN "CORRUPT_DATA"
        ELSE IF HeaderSum(SubSeq(src, 5, DescEnd(flg))) # src[DescEnd(flg) + 1]
          THEN "CHECKSUM_MISMATCH"
        ELSE "none"

Part(src, sp, n) == SubSeq(src, sp + 1, sp + n)

\* The blocks: sp is where the next one begins.
Stages == [sp : Nat, out : Seq(Byte), err : Errors, done : BOOLEAN]

Refuses(s, e) == [s EXCEPT !.err = e]

DataOf(src, s, size, raw, linked, cap, max) ==
    IF raw THEN [err |-> Overflow(Len(s.out) + size, cap, cap, "none"),
                 out |-> s.out \o Part(src, s.sp + 4, size)]
    ELSE DecBlock(Part(src, s.sp + 4, size), s.out, IF linked THEN 0 ELSE Len(s.out),
                  cap, Len(s.out) + max, "CORRUPT_DATA")

Block(src, s, flg, cap, max) ==
    LET size  == SizeOf(Part(src, s.sp, 4))
        raw   == IsRaw(Part(src, s.sp, 4))
        past  == s.sp + 4 + size
        data  == DataOf(src, s, size, raw, Linked(flg), cap, max)
        given == Part(src, past, 4)
        next  == [s EXCEPT !.out = data.out, !.sp = past + SumBytes(HasBlockSums(flg))]
    IN  IF s.sp + 4 > Len(src) THEN Refuses(s, "CORRUPT_DATA")
        ELSE IF Part(src, s.sp, 4) = EndMark THEN [s EXCEPT !.sp = @ + 4, !.done = TRUE]
        ELSE IF size > max \/ past > Len(src) THEN Refuses(s, "CORRUPT_DATA")
        ELSE IF data.err # "none" THEN Refuses(s, data.err)
        ELSE IF ~HasBlockSums(flg) THEN next
        ELSE IF past + 4 > Len(src) THEN Refuses(s, "CORRUPT_DATA")
        ELSE IF given # Checksum(Part(src, s.sp + 4, size)) THEN Refuses(s, "CHECKSUM_MISMATCH")
        ELSE next

\* The checks behind the end mark.
Closing(src, s, flg) ==
    IF s.err # "none" THEN Failure(s.err)
    ELSE IF HasContentSize(flg) /\ Part(src, 6, 8) # Little(Len(s.out)) \o EndMark
      THEN Failure("CORRUPT_DATA")
    ELSE IF ~HasContentSum(flg) THEN [err |-> "none", out |-> s.out]
    ELSE IF s.sp + 4 > Len(src) THEN Failure("CORRUPT_DATA")
    ELSE IF Part(src, s.sp, 4) # Checksum(s.out) THEN Failure("CHECKSUM_MISMATCH")
    ELSE [err |-> "none", out |-> s.out]

\* lz4f_decompress.
Unframe(src, cap) ==
    LET flg == src[5]
        max == BlockMax(src[6] \div 16)
        from[s \in Stages] ==
            IF s.done \/ s.err # "none" THEN Closing(src, s, flg)
            ELSE from[Block(src, s, flg, cap, max)]
    IN  IF HeaderFault(src) # "none" THEN Failure(HeaderFault(src))
        ELSE from[[sp |-> DescEnd(flg) + 1, out |-> <<>>, err |-> "none", done |-> FALSE]]
=============================================================================
