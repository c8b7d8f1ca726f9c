------------------------------ MODULE Envelope ------------------------------
(***************************************************************************)
(* The batch gzip and zlib decoders (src/src/gzip.cyr, zlib.cyr) as        *)
(* functions of their input.  The checksums are parameters: four bytes for *)
(* a sequence of bytes, in the order the envelope stores them.             *)
(***************************************************************************)
EXTENDS Inflate

CONSTANTS Crc(_), Adler(_)

\* A number from its bytes, least significant first, and back.
Little(bs) == LET at[k \in 0 .. Len(bs)] ==
                      IF k = 0 THEN 0 ELSE at[k - 1] + bs[k] * 256 ^ (k - 1)
              IN  at[Len(bs)]
LittleBytes(n) == [k \in 1 .. 4 |-> (n \div 256 ^ (k - 1)) % 256]

Bit(b, k) == (b \div 2 ^ k) % 2 = 1

Answer(e, o) == [err |-> e, out |-> o]

-----------------------------------------------------------------------------
(* gzip.                                                                   *)

\* The k-th byte of the fixed header.
HeaderError(k, b) ==
    CASE k = 1 /\ b # 31        -> "CORRUPT_DATA"
      [] k = 2 /\ b # 139       -> "CORRUPT_DATA"
      [] k = 3 /\ b # 8         -> "UNSUPPORTED_FORMAT"
      [] k = 4 /\ b \div 32 # 0 -> "CORRUPT_DATA"
      [] OTHER                  -> "none"

\* The optional parts in their order on the wire, with their FLG bits.
OptionalBit  == <<2, 3, 4, 1>>
OptionalPart == <<"HDR_FEXTRA_LEN", "HDR_FNAME", "HDR_FCOMMENT", "HDR_FHCRC">>

\* The first part from the k-th on that the header announces.
NextPart(f, k) ==
    LET present == {i \in k .. 4 : Bit(f, OptionalBit[i])}
    IN  IF present = {} THEN "DEFLATE" ELSE OptionalPart[Min(present)]

\* Where each optional part of the header of m ends, -1 if it does not.
SkipExtra(m, p) ==
    IF p + 2 > Len(m) \/ p + 2 + Little(SubSeq(m, p + 1, p + 2)) > Len(m) THEN -1
    ELSE p + 2 + Little(SubSeq(m, p + 1, p + 2))
SkipZeroEnded(m, p) ==
    LET zeros == {k \in p + 1 .. Len(m) : m[k] = 0}
    IN  IF zeros = {} THEN -1 ELSE Min(zeros)

\* How many bytes precede FHCRC.
OptionalEnd(m) ==
    LET f == m[4]
        After(p, bit, Skip(_, _)) == IF p >= 0 /\ Bit(f, bit) THEN Skip(m, p) ELSE p
    IN  After(After(After(10, 2, SkipExtra), 3, SkipZeroEnded), 4, SkipZeroEnded)

\* A member whose payload starts at p: "next" is where it ends.
GzipPayload(m, p, lim) ==
    LET Fail(e) == [err |-> e, out |-> <<>>, next |-> 0]
        Trailer(r) == SubSeq(m, r.trailer + 1, r.trailer + 8)
        Of(r) ==
            IF r.err # "none" THEN Fail(r.err)
            ELSE IF r.trailer + 8 > Len(m) THEN Fail("CORRUPT_DATA")
            ELSE IF Trailer(r) # Crc(r.out) \o LittleBytes(Len(r.out))
              THEN Fail("CHECKSUM_MISMATCH")
            ELSE [err |-> "none", out |-> r.out, next |-> r.trailer + 8]
    IN  IF p + 8 > Len(m) THEN Fail("CORRUPT_DATA")
        ELSE Of(Batch(m, p, <<>>, <<>>, lim))

GzipMember(m, lim) ==
    LET Fail(e) == [err |-> e, out |-> <<>>, next |-> 0]
        bad == {k \in 1 .. 4 : HeaderError(k, m[k]) # "none"}
        At(p) ==
            IF p < 0 THEN Fail("CORRUPT_DATA")
            ELSE IF ~Bit(m[4], 1) THEN GzipPayload(m, p, lim)
            ELSE IF p + 2 > Len(m) THEN Fail("CORRUPT_DATA")
            ELSE IF SubSeq(m, p + 1, p + 2) # SubSeq(Crc(SubSeq(m, 1, p)), 1, 2)
              THEN Fail("CHECKSUM_MISMATCH")
            ELSE GzipPayload(m, p + 2, lim)
    IN  IF Len(m) < 18 THEN Fail("INVALID_INPUT")
        ELSE IF bad # {} THEN Fail(HeaderError(Min(bad), m[Min(bad)]))
        ELSE At(OptionalEnd(m))

\* What is left of the ceilings for a member behind "done" bytes; a spent
\* ratio leaves no room at all.
MemberLim(lim, done) ==
    IF lim.ratio # 0 /\ done >= lim.ratio THEN [lim EXCEPT !.cap = 0, !.ratio = 1]
    ELSE [lim EXCEPT !.cap = @ - done, !.ratio = IF @ = 0 THEN 0 ELSE @ - done]

Magic(bytes, p) == p + 2 <= Len(bytes) /\ bytes[p + 1] = 31 /\ bytes[p + 2] = 139

\* The members, up to anything that is not one.
Gunzip(bytes, lim) ==
    LET from[p \in Nat, out \in Seq(Byte)] ==
        LET spent == lim.ratio # 0 /\ Len(out) >= lim.ratio
            Then(m) ==
                IF m.err = "none" THEN from[p + m.next, out \o m.out]
                ELSE IF spent /\ m.err = "BUFFER_TOO_SMALL" THEN Answer("RATIO_LIMIT", out)
                ELSE Answer(m.err, out)
        IN  IF ~Magic(bytes, p)
              THEN Answer(IF p = 0 THEN "INVALID_INPUT" ELSE "none", out)
              ELSE Then(GzipMember(SubSeq(bytes, p + 1, Len(bytes)), MemberLim(lim, Len(out))))
    IN  from[0, <<>>]

-----------------------------------------------------------------------------
(* zlib.                                                                   *)

ZlibHeaderError(cmf, f) ==
    IF (cmf * 256 + f) % 31 # 0 THEN "CORRUPT_DATA"
    ELSE IF cmf % 16 # 8 \/ cmf \div 16 > 7 THEN "UNSUPPORTED_FORMAT"
    ELSE "none"

ZlibPayload(bytes, p, dict, lim) ==
    LET Trailer(r) == SubSeq(bytes, r.trailer + 1, r.trailer + 4)
        Of(r) ==
            IF r.err # "none" THEN Answer(r.err, <<>>)
            ELSE IF r.trailer + 4 > Len(bytes) THEN Answer("CORRUPT_DATA", <<>>)
            ELSE IF Trailer(r) # Adler(r.out) THEN Answer("CHECKSUM_MISMATCH", <<>>)
            ELSE Answer("none", r.out)
    IN  Of(Batch(bytes, p, dict, <<>>, lim))

Unzlib(bytes, dict, lim) ==
    IF Len(bytes) < 6 THEN Answer("INVALID_INPUT", <<>>)
    ELSE IF ZlibHeaderError(bytes[1], bytes[2]) # "none"
      THEN Answer(ZlibHeaderError(bytes[1], bytes[2]), <<>>)
    ELSE IF ~Bit(bytes[2], 5) THEN ZlibPayload(bytes, 2, dict, lim)
    ELSE IF dict = <<>> THEN Answer("INVALID_INPUT", <<>>)
    ELSE IF SubSeq(bytes, 3, 6) # Adler(dict) THEN Answer("CHECKSUM_MISMATCH", <<>>)
    ELSE ZlibPayload(bytes, 6, dict, lim)
=============================================================================
