---------------------------- MODULE EnvelopeDec ----------------------------
(***************************************************************************)
(* The streaming gzip and zlib decoders (src/src/gzip.cyr, zlib.cyr): a    *)
(* header, a DEFLATE stream handed to the inner decoder, a trailer with a  *)
(* checksum, and in gzip any number of such members.  One step is one turn *)
(* of the loop in gzip_dec_write or zlib_dec_write.  The inner decoder is  *)
(* what StreamDecoder promises; the checksums are any functions.           *)
(*                                                                         *)
(* What they must agree with are Gunzip and Unzlib, the batch decoders.    *)
(***************************************************************************)
EXTENDS Envelope, StreamDecoder

CONSTANTS
    Inputs,   \* what may be decoded: records [kind, bytes, dict, lim]
    Chunks    \* the chunk sizes tried; the rest of the stream always is

ASSUME EnvelopeDecAssumption ==
    /\ \A i \in Inputs : i.kind \in {"gzip", "zlib"}
    /\ \A i \in Inputs : i.bytes \in Seq(Byte) /\ i.dict \in Seq(Byte)
    /\ Chunks \subseteq Nat \ {0}

VARIABLES
    input,    \* the caller's stream, dictionary and ceilings
    end,      \* where the chunk being written ends
    cp,       \* the next byte to read
    pc,       \* "out": in the caller; "in": inside *_dec_write
    state,    \* GDEC_STATE_* / ZDEC_STATE_*
    idx,      \* hdr_idx: bytes read of the field in hand
    flg,      \* the FLG byte
    acc,      \* gzip: var_remaining; zlib: CMF
    dictid,   \* the bytes of dictid_acc
    trailer,  \* the trailer's bytes so far (trailer_idx and its accumulators)
    hdrsum,   \* the bytes folded into the header CRC
    sum,      \* the bytes folded into the content checksum
    err,      \* sticky error, or "none"
    verdict   \* what *_dec_finish returned

header == <<idx, flg, acc, dictid, hdrsum>>
caller == <<input, end, verdict>>
vars   == <<input, end, cp, pc, state, idx, flg, acc, dictid, trailer,
            hdrsum, sum, err, verdict, decoder>>

Unread == [err |-> "none", out |-> <<>>, trailer |-> 0, start |-> 0]

Init ==
    /\ input \in Inputs
    /\ end = 0 /\ cp = 0 /\ pc = "out"
    /\ state = IF input.kind = "gzip" THEN "HDR_FIXED" ELSE "HEADER"
    /\ idx = 0 /\ flg = 0 /\ acc = 0 /\ dictid = <<>>
    /\ trailer = <<>> /\ hdrsum = <<>> /\ sum = <<>>
    /\ err = "none" /\ verdict = "open"
    /\ Fresh /\ ref = Unread /\ total = Len(input.bytes)

-----------------------------------------------------------------------------
(* Helpers of the handlers.                                                *)

In(s)    == pc = "in" /\ state = s

\* As much of n bytes as the chunk has.
Upto(n)   == IF n < end - cp THEN n ELSE end - cp
Coming(n) == SubSeq(input.bytes, cp + 1, cp + n)
Take(n)   == cp' = cp + n
Poison(e) == err' = e /\ pc' = "out"

\* Stay in the loop once the field is complete, otherwise the chunk ran out.
GoOnIf(complete) == pc' = (IF complete THEN "in" ELSE "out") /\ UNCHANGED err

\* The inner context, as new, at its DEFLATE stream: ref is what the batch
\* decoder makes of that.
EnterDeflate(at) ==
    /\ ref' = Batch(input.bytes, at, input.dict, out, Roomy(input.lim, input.dict))
    /\ taken' = at /\ ahead' = 0
    /\ UNCHANGED <<total, out, status>>

\* Into the next part of the header, or, behind the last, into the stream.
Enter(s) ==
    /\ state' = s
    /\ IF s = "DEFLATE" THEN EnterDeflate(cp') ELSE UNCHANGED decoder

-----------------------------------------------------------------------------
(* The caller.                                                             *)

\* zlib_dec_write does not know that the context was finished.
Writable == err = "none" /\ state \notin {"DONE", "CLOSED"}

Write(n) ==
    /\ pc = "out" /\ Writable
    /\ n \in 1 .. Len(input.bytes) - cp
    /\ n \in Chunks \/ cp + n = Len(input.bytes)
    /\ end' = cp + n
    /\ pc' = "in"
    /\ UNCHANGED <<input, cp, state, header, trailer, sum, err, verdict, decoder>>

WriteInvalid ==
    /\ pc = "out" /\ err = "none" /\ state # "CLOSED"
    /\ err' = "INVALID_INPUT"
    /\ UNCHANGED <<caller, cp, pc, state, header, trailer, sum, decoder>>

\* What deflate_dec_finish says of the inner stream.
InnerVerdict == IF status = "done" THEN "ok"
                ELSE IF status = "open" THEN "CORRUPT_DATA" ELSE status

\* A gzip context may be finished where another member could start.
Complete == state = "DONE" \/ state = "AFTER_TRAILER"

\* Mutant: only the inner context is closed, as in zlib_dec_finish.
NothingCloses(s) == s

\* The state after finish: a zlib context has no CLOSED state of its own.
Closes(s) == IF input.kind = "gzip" THEN "CLOSED" ELSE s

Finish ==
    /\ pc = "out" /\ verdict = "open"
    /\ verdict' = IF err # "none" THEN err
                  ELSE IF Complete THEN InnerVerdict ELSE "CORRUPT_DATA"
    /\ state' = Closes(state)
    /\ Close
    /\ UNCHANGED <<input, end, cp, pc, header, trailer, sum, err>>

-----------------------------------------------------------------------------
(* gzip_dec_write: the header.                                             *)

FixedHeader ==
    /\ In("HDR_FIXED")
    /\ LET n == Upto(10 - idx)
           bad == {k \in 1 .. n : HeaderError(idx + k, Coming(n)[k]) # "none"}
       IN  IF bad # {}
             THEN /\ Poison(HeaderError(idx + Min(bad), Coming(n)[Min(bad)]))
                  /\ UNCHANGED <<cp, state, idx, flg, hdrsum, decoder>>
             ELSE /\ Take(n)
                  /\ flg' = IF idx < 4 /\ idx + n >= 4 THEN Coming(n)[4 - idx] ELSE flg
                  /\ hdrsum' = hdrsum \o Coming(n)
                  /\ GoOnIf(idx + n = 10)
                  /\ IF idx + n < 10
                       THEN idx' = idx + n /\ UNCHANGED <<state, decoder>>
                       ELSE /\ idx' = IF NextPart(flg', 1) = "DEFLATE" THEN 10 ELSE 0
                            /\ Enter(NextPart(flg', 1))
    /\ UNCHANGED <<caller, acc, dictid, trailer, sum>>

FextraLen ==
    /\ In("HDR_FEXTRA_LEN")
    /\ LET n == Upto(2 - idx)
       IN  /\ Take(n)
           /\ acc' = acc + Little(Coming(n)) * 256 ^ idx
           /\ hdrsum' = hdrsum \o Coming(n)
           /\ idx' = IF idx + n = 2 THEN 0 ELSE idx + n
           /\ state' = IF idx + n = 2 THEN "HDR_FEXTRA_DATA" ELSE state
           /\ GoOnIf(idx + n = 2)
    /\ UNCHANGED <<caller, flg, dictid, trailer, sum, decoder>>

\* Mutant: the length of the field stays behind in its slot.
FextraKeepsLength(skip) == acc

FextraLeft(skip) == acc - skip

FextraData ==
    /\ In("HDR_FEXTRA_DATA")
    /\ LET skip == Upto(acc)
       IN  /\ Take(skip)
           /\ acc' = FextraLeft(skip)
           /\ hdrsum' = hdrsum \o Coming(skip)
           /\ GoOnIf(skip = acc)
           /\ IF skip < acc
                THEN UNCHANGED <<state, idx, decoder>>
                ELSE /\ idx' = IF NextPart(flg, 2) = "DEFLATE" THEN idx ELSE 0
                     /\ Enter(NextPart(flg, 2))
    /\ UNCHANGED <<caller, flg, dictid, trailer, sum>>

\* FNAME and FCOMMENT: up to a NUL.
ZeroEnded(s, k) ==
    /\ In(s)
    /\ LET zeros == {i \in 1 .. end - cp : input.bytes[cp + i] = 0}
           n == IF zeros = {} THEN end - cp ELSE Min(zeros)
       IN  /\ Take(n)
           /\ hdrsum' = hdrsum \o Coming(n)
           /\ GoOnIf(zeros # {})
           /\ IF zeros = {}
                THEN UNCHANGED <<state, idx, decoder>>
                ELSE /\ idx' = IF NextPart(flg, k) = "DEFLATE" THEN idx ELSE 0
                     /\ Enter(NextPart(flg, k))
    /\ UNCHANGED <<caller, flg, acc, dictid, trailer, sum>>

Fname    == ZeroEnded("HDR_FNAME", 3)
Fcomment == ZeroEnded("HDR_FCOMMENT", 4)

Fhcrc ==
    /\ In("HDR_FHCRC")
    /\ LET n == Upto(2 - idx)
       IN  /\ Take(n)
           /\ acc' = acc + Little(Coming(n)) * 256 ^ idx
           /\ idx' = idx + n
           /\ IF idx + n < 2
                THEN GoOnIf(FALSE) /\ UNCHANGED <<state, decoder>>
              ELSE IF acc' # Little(SubSeq(Crc(hdrsum), 1, 2))
                THEN Poison("CHECKSUM_MISMATCH") /\ UNCHANGED <<state, decoder>>
                ELSE GoOnIf(TRUE) /\ Enter("DEFLATE")
    /\ UNCHANGED <<caller, flg, dictid, trailer, hdrsum, sum>>

-----------------------------------------------------------------------------
(* zlib_dec_write: the header.                                             *)

ZlibHeader ==
    /\ In("HEADER")
    /\ LET n == Upto(2 - idx)
           both == idx + n = 2
           cmf == IF idx = 0 THEN Coming(n)[1] ELSE acc
           e == ZlibHeaderError(cmf, Coming(n)[n])
           fdict == Bit(Coming(n)[n], 5)
       IN  /\ Take(n)
           /\ flg' = IF both THEN Coming(n)[n] ELSE flg
           /\ acc' = cmf
           /\ idx' = IF both /\ e = "none" /\ fdict /\ input.dict # <<>> THEN 0 ELSE idx + n
           /\ IF ~both THEN GoOnIf(FALSE) /\ UNCHANGED <<state, decoder>>
              ELSE IF e # "none" THEN Poison(e) /\ UNCHANGED <<state, decoder>>
              ELSE IF fdict /\ input.dict = <<>>
                THEN Poison("UNSUPPORTED_FORMAT") /\ UNCHANGED <<state, decoder>>
              ELSE GoOnIf(TRUE) /\ Enter(IF fdict THEN "DICTID" ELSE "DEFLATE")
    /\ UNCHANGED <<caller, dictid, trailer, hdrsum, sum>>

DictId ==
    /\ In("DICTID")
    /\ LET n == Upto(4 - idx)
       IN  /\ Take(n)
           /\ dictid' = dictid \o Coming(n)
           /\ idx' = idx + n
           /\ IF idx + n < 4
                THEN GoOnIf(FALSE) /\ UNCHANGED <<state, decoder>>
              ELSE IF dictid' # Adler(input.dict)
                THEN Poison("CHECKSUM_MISMATCH") /\ UNCHANGED <<state, decoder>>
                ELSE GoOnIf(TRUE) /\ Enter("DEFLATE")
    /\ UNCHANGED <<caller, flg, acc, trailer, hdrsum, sum>>

-----------------------------------------------------------------------------
(* Both: the stream and the trailer.                                       *)

DeflateDrained ==
    /\ In("DEFLATE") /\ cp = end
    /\ GoOnIf(FALSE)
    /\ UNCHANGED <<caller, cp, state, header, trailer, sum, decoder>>

\* Mutant: the bytes the inner decoder pulled too many are lost.
NoRewind == 0

\* hold >> 3: the whole bytes left in the inner accumulator.
Overpull == ahead'

\* One deflate_dec_write on the rest of the chunk.  No member of Inputs reaches
\* back into an earlier one.  That the inner stream is done on entry does not
\* happen: the state is TRAILER by then.
InflateChunk ==
    /\ In("DEFLATE") /\ cp < end /\ status = "open"
    /\ \E k \in Len(out) .. Len(ref.out) : out' = SubSeq(ref.out, 1, k)
    /\ \/ Drained(end - cp) \/ Completed(end - cp) \/ Failed(end - cp)
    /\ sum' = sum \o SubSeq(out', Len(out) + 1, Len(out'))
    /\ cp' = IF status' = "done" THEN taken' - Overpull ELSE taken'
    /\ CASE status' = "done" -> state' = "TRAILER" /\ GoOnIf(TRUE)
         [] status' = "open" -> GoOnIf(FALSE) /\ UNCHANGED state
         [] OTHER            -> Poison(status') /\ UNCHANGED state
    /\ UNCHANGED <<caller, header, trailer>>

\* A zlib context that was finished in the middle of its stream.
InflateClosed ==
    /\ In("DEFLATE") /\ cp < end /\ status = "closed"
    /\ Poison("INVALID_INPUT")
    /\ UNCHANGED <<caller, cp, state, header, trailer, sum, decoder>>

\* The output of the member that started at dp = ref.start.
Expected == IF input.kind = "gzip" THEN Crc(sum) \o LittleBytes(Len(out) - ref.start)
            ELSE Adler(sum)

Trailer ==
    /\ In("TRAILER")
    /\ LET size == IF input.kind = "gzip" THEN 8 ELSE 4
           n == Upto(size - Len(trailer))
       IN  /\ Take(n)
           /\ trailer' = trailer \o Coming(n)
           /\ IF Len(trailer') < size THEN GoOnIf(FALSE) /\ UNCHANGED state
              ELSE IF trailer' # Expected
                THEN Poison("CHECKSUM_MISMATCH") /\ UNCHANGED state
              ELSE IF input.kind = "gzip" THEN state' = "AFTER_TRAILER" /\ GoOnIf(TRUE)
              ELSE state' = "DONE" /\ GoOnIf(FALSE)
    /\ UNCHANGED <<caller, header, sum, decoder>>

\* Mutant: the next member's checksum goes on from the last one's.
SumGoesOn == sum

NewMemberSum == <<>>

AfterTrailer ==
    /\ In("AFTER_TRAILER")
    /\ IF cp = end THEN GoOnIf(FALSE) /\ UNCHANGED <<state, header, trailer, sum, decoder>>
       ELSE IF input.bytes[cp + 1] # 31
         THEN state' = "DONE" /\ GoOnIf(FALSE) /\ UNCHANGED <<header, trailer, sum, decoder>>
         ELSE /\ state' = "HDR_FIXED"
              /\ idx' = 0 /\ flg' = 0 /\ acc' = 0
              /\ UNCHANGED dictid
              /\ trailer' = <<>> /\ hdrsum' = <<>> /\ sum' = NewMemberSum
              /\ status' = IF status = "closed" THEN status ELSE "open"
              /\ ahead' = 0
              /\ UNCHANGED <<ref, total, taken, out>>
              /\ GoOnIf(TRUE)
    /\ UNCHANGED <<caller, cp>>

Step ==
    \/ FixedHeader \/ FextraLen \/ FextraData \/ Fname \/ Fcomment \/ Fhcrc
    \/ ZlibHeader \/ DictId
    \/ DeflateDrained \/ InflateChunk \/ InflateClosed \/ Trailer \/ AfterTrailer

Next ==
    \/ \E n \in 1 .. Len(input.bytes) : Write(n)
    \/ WriteInvalid
    \/ Finish
    \/ Step

Spec == Init /\ [][Next]_vars

-----------------------------------------------------------------------------
(* Properties.                                                             *)

Answers == [i \in Inputs |-> IF i.kind = "gzip" THEN Gunzip(i.bytes, i.lim)
                             ELSE Unzlib(i.bytes, i.dict, Roomy(i.lim, i.dict))]

\* The caller handed over all that decides the matter.
Told == /\ err # "INVALID_INPUT"
        /\ err # "none" \/ state = "DONE" \/ cp = Len(input.bytes)

\* Two streams the batch decoder takes and the streaming one does not: bytes
\* behind the last member that start with 0x1f and are no member, and members
\* that are each, but not together, below the output ceiling.
Stricter(v) ==
    \/ v = "CORRUPT_DATA" /\ state = "HDR_FIXED" /\ ref # Unread
    \/ v = "OUTPUT_LIMIT" /\ ref.start > 0

Agrees(v, b) ==
    /\ v = "ok" => b.err = "none" /\ b.out = out
    /\ b.err \notin {"CORRUPT_DATA", "INVALID_INPUT"} =>
          v = (IF b.err = "none" THEN "ok" ELSE b.err) \/ Stricter(v)

\* However the stream is cut into chunks, finish says of it what the batch
\* decoder says: the same output, or that it is refused, and for what reason
\* unless it was cut short (gzip_dec_* against gzip_decompress, zlib_dec_*
\* against zlib_decompress, which has to be given the dictionary's room too).
AgreesWithBatch ==
    [][verdict' # verdict /\ Told => Agrees(verdict', Answers[input])]_vars

\* The checksum compared with the trailer is that of this member's output and
\* of nothing else, in spite of overpulled bytes and earlier members.
SumCoversMember ==
    state = "TRAILER" => sum = SubSeq(ref.out, ref.start + 1, Len(ref.out))

TakesNothing == UNCHANGED <<cp, state, header, trailer, sum, out>>

\* README.md:203, "a context finishes once": a write after it is refused, for
\* the context no longer holds the lock.  (Not so of a zlib context finished in
\* its header, whose finish closes only the inner decoder.)
GzipFinishedIsFinal ==
    [][verdict # "open" /\ input.kind = "gzip" => TakesNothing]_vars
=============================================================================
