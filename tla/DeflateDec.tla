----------------------------- MODULE DeflateDec -----------------------------
(***************************************************************************)
(* The streaming DEFLATE decoder of src/src/deflate.cyr: deflate_dec_init, *)
(* deflate_dec_write, deflate_dec_reset, deflate_dec_finish.  The caller   *)
(* hands the compressed stream over in chunks of any size; the decoder     *)
(* keeps the bits it has not used in an accumulator and may suspend at     *)
(* every point where a chunk can end.                                      *)
(*                                                                         *)
(* One step is one turn of the loop in _deflate_dec_write_inner.  What the *)
(* decoder must agree with is InflateStream, the batch decoder.            *)
(***************************************************************************)
EXTENDS Inflate, Integers

CONSTANTS
    Inputs,      \* what may be decoded: records [bytes, dict, lim]
    Chunks,      \* the chunk sizes tried; the rest of the stream always is
    MaxMembers,  \* bound on the concatenated members of one stream
    Breaks       \* bound: where a stream is given up before its end

ASSUME DeflateDecAssumption ==
    /\ \A i \in Inputs : i.bytes \in Seq(Byte) /\ i.dict \in Seq(Byte)
    /\ \A i \in Inputs : i.lim \in [cap : Nat, out : Nat, ratio : Nat]
    /\ Chunks \subseteq Nat \ {0}
    /\ MaxMembers \in Nat \ {0} /\ Breaks \subseteq Nat

VARIABLES
    input,    \* the caller's stream, dictionary and ceilings
    base,     \* where in the stream the chunk being written starts
    before,   \* dp when the call began
    cp,       \* the next byte to pull
    end,      \* where the chunk ends
    pc,       \* "out": in the caller; "in": inside deflate_dec_write
    state,    \* DDEC_STATE_*
    hold,     \* the accumulator; its length is the ctx's bits
    final,    \* bfinal of the current block
    slen,     \* stored_len
    left,     \* stored_remaining
    err,      \* sticky error, or "none"
    match,    \* cur_length, cur_distance, cur_extra_count
    hdr,      \* the dynamic header as far as it is parsed
    huff,     \* the shared tables, and _huff_fixed_built
    out,      \* dst[0 .. dp)
    members,  \* how many members were started
    ref,      \* the batch decoder's answer for the current member
    verdict   \* what deflate_dec_finish returned

chunk  == <<input, base, before, end>>
block  == <<final, slen, left>>
caller == <<members, ref, verdict>>
vars   == <<input, base, before, cp, end, pc, state, hold, final, slen, left, err,
            match, hdr, huff, out, members, ref, verdict>>

NoMatch  == [length |-> 0, distance |-> 0, extra |-> 0]
NoHeader == [hlit |-> 0, hdist |-> 0, hclen |-> 0, fields |-> <<>>,
             lens |-> <<>>, prev |-> 0, rep |-> 0]

\* What _huff_build_fixed_inner leaves in the shared tables.
FixedTables(h) ==
    IF h.fixed THEN h
    ELSE [h EXCEPT !.lit = FixedLit, !.dist = FixedDist, !.fixed = TRUE]

Init ==
    /\ input \in Inputs
    /\ base = 0 /\ cp = 0 /\ end = 0 /\ before = 0
    /\ pc = "out" /\ state = "HEADER" /\ hold = <<>>
    /\ final = 0 /\ slen = 0 /\ left = 0
    /\ err = "none"
    /\ match = NoMatch /\ hdr = NoHeader
    /\ huff = FixedTables([lit |-> NoTable, dist |-> NoTable, cl |-> NoTable,
                           fixed |-> FALSE])
    /\ out = <<>>
    /\ members = 1
    /\ ref = Batch(input.bytes, 0, input.dict, <<>>, Roomy(input.lim, input.dict))
    /\ verdict = "open"

-----------------------------------------------------------------------------
(* The accumulator: how many bits the current state asks _ddec_fill for,   *)
(* and what it holds once the chunk has given what it can.                 *)

CodesRead == Len(hdr.lens)
CodesDue  == hdr.hlit + hdr.hdist

\* The states that decode a Huffman symbol, and the table they use.
Coded == state \in {"DECODE_SYM", "DECODE_DIST"}
         \/ (state = "DYN_AL_SYM" /\ CodesRead < CodesDue)

Table == CASE state = "DECODE_SYM"  -> huff.lit
           [] state = "DECODE_DIST" -> huff.dist
           [] OTHER                 -> huff.cl

\* A maximum-length code and one bit more, so that a failure is conclusive.
CodeWindow == MaxBits + 1

Wanted ==
    CASE Coded -> CodeWindow
      [] state = "HEADER" -> 3
      [] state \in {"STORED_LEN", "STORED_NLEN"} -> 16
      [] state \in {"LEN_EXTRA", "DIST_EXTRA"} -> match.extra
      [] state \in {"DYN_HLIT", "DYN_HDIST"} -> 5
      [] state = "DYN_HCLEN" -> 4
      [] state = "DYN_CL_LENS" -> IF Len(hdr.fields) < hdr.hclen THEN 3 ELSE 0
      [] state = "DYN_AL_EXTRA" -> RepeatBits(hdr.rep)
      [] OTHER -> 0

Pulled == Min({Bytes(Max({Wanted - Len(hold), 0})), end - cp})

Avail == hold \o BitsOf(SubSeq(input.bytes, cp + 1, cp + Pulled))

\* _ddec_decode_huff reads from a buffer of whole bytes, padded with zeros: a
\* code found in the padding, or none in too few bits, waits for more input.
Bridged(bits) ==
    HuffDecode(Table, bits \o Zeros(8 * Bytes(Len(bits)) - Len(bits)))

\* Mutant: a code found in the padding counts.
NeedMoreOnlyOnFailure(bits) == Bridged(bits).used = 0 /\ Len(bits) < MaxBits

NeedMore(bits) ==
    LET c == Bridged(bits)
    IN  IF c.used = 0 THEN Len(bits) < MaxBits ELSE c.used > Len(bits)

\* Mutant: no symbol is tried before the window is full.
StarvedUntilFull == Len(Avail) < Wanted

Starved == IF Coded THEN NeedMore(Avail) ELSE Len(Avail) < Wanted

In(s)    == pc = "in" /\ state = s
Field    == Value(SubSeq(Avail, 1, Wanted))
Symbol   == Bridged(Avail)
Take(n)  == hold' = SubSeq(Avail, n + 1, Len(Avail)) /\ cp' = cp + Pulled

\* Poison the context and leave the call.
Poison(e) == err' = e /\ pc' = "out"
Stay      == UNCHANGED <<err, pc>>

\* Which ceiling n more bytes would break.
Grows(n) == Refused(Len(out) + n, input.lim)

\* Leave the call; deflate_dec_write asserts that a call which did not finish
\* the stream consumed its whole chunk.
Leave(c, finished) ==
    /\ pc' = "out"
    /\ err' = IF c < end /\ ~finished THEN "CORRUPT_DATA" ELSE err

-----------------------------------------------------------------------------
(* The caller.                                                             *)

Writable == err = "none" /\ state \notin {"DONE", "CLOSED"}

Write(n) ==
    /\ pc = "out" /\ Writable
    /\ n \in 1 .. Len(input.bytes) - cp
    /\ n \in Chunks \/ cp + n = Len(input.bytes)
    /\ base' = cp /\ end' = cp + n /\ before' = Len(out)
    /\ pc' = "in"
    /\ UNCHANGED <<input, cp, state, hold, block, err, match, hdr, huff, out, caller>>

\* A negative length or a null chunk.
WriteInvalid ==
    /\ pc = "out" /\ err = "none" /\ state # "CLOSED"
    /\ err' = "INVALID_INPUT"
    /\ UNCHANGED <<chunk, cp, pc, state, hold, block, match, hdr, huff, out, caller>>

\* The whole bytes read ahead of the end of the stream.
Ahead == IF state = "DONE" /\ err = "none" THEN Len(hold) \div 8 ELSE 0

\* A fresh stream on the same context, whatever became of the last one: all is
\* reset but dst and dp.  The caller goes back over the bytes read ahead.
Reset ==
    /\ pc = "out" /\ state # "CLOSED" /\ members < MaxMembers
    /\ state = "DONE" \/ cp \in Breaks
    /\ LET from == cp - Ahead
       IN  /\ base' = from /\ cp' = from /\ end' = from
           /\ ref' = Batch(input.bytes, from, <<>>, out, input.lim)
    /\ before' = Len(out)
    /\ input' = [input EXCEPT !.dict = <<>>]
    /\ members' = members + 1
    /\ state' = "HEADER" /\ hold' = <<>>
    /\ final' = 0 /\ slen' = 0 /\ left' = 0
    /\ err' = "none"
    /\ match' = NoMatch /\ hdr' = NoHeader
    /\ UNCHANGED <<pc, huff, out, verdict>>

Finish ==
    /\ pc = "out" /\ state # "CLOSED"
    /\ verdict' = IF err # "none" THEN err
                  ELSE IF state # "DONE" THEN "CORRUPT_DATA" ELSE "ok"
    /\ state' = "CLOSED"
    /\ UNCHANGED <<chunk, cp, pc, hold, block, err, match, hdr, huff, out, members, ref>>

-----------------------------------------------------------------------------
(* Inside deflate_dec_write.                                               *)

\* The chunk ran out before the current state could make a step.
Suspend ==
    /\ pc = "in" /\ Starved
    /\ Take(0)
    /\ Leave(cp + Pulled, FALSE)
    /\ UNCHANGED <<chunk, state, block, match, hdr, huff, out, caller>>

\* The bits _ddec_align drops after the header of a stored block.
Padding == (Len(Avail) - 3) % 8

ReadHeader ==
    /\ In("HEADER") /\ ~Starved
    /\ final' = Field % 2
    /\ LET btype == Field \div 2
       IN  /\ state' = CASE btype = 0 -> "STORED_LEN" [] btype = 1 -> "DECODE_SYM"
                         [] btype = 2 -> "DYN_HLIT" [] OTHER -> state
           /\ huff' = IF btype = 1 THEN FixedTables(huff) ELSE huff
           /\ IF btype = 3 THEN Poison("INVALID_BLOCK_TYPE") ELSE Stay
           /\ Take(IF btype = 0 THEN 3 + Padding ELSE 3)
    /\ UNCHANGED <<chunk, slen, left, match, hdr, out, caller>>

ReadStoredLen ==
    /\ In("STORED_LEN") /\ ~Starved
    /\ Take(16)
    /\ slen' = Field /\ left' = Field
    /\ state' = "STORED_NLEN"
    /\ UNCHANGED <<chunk, pc, final, err, match, hdr, huff, out, caller>>

ReadStoredNlen ==
    /\ In("STORED_NLEN") /\ ~Starved
    /\ Take(16)
    /\ LET e == IF slen + Field # 65535 THEN "CORRUPT_DATA"
                ELSE Grows(slen)
       IN  IF e # "none" THEN Poison(e) /\ UNCHANGED state
                         ELSE Stay /\ state' = "STORED_DATA"
    /\ UNCHANGED <<chunk, block, match, hdr, huff, out, caller>>

\* Mutant: the copy is repeated until the block is complete.
AfterCopySpins(n) == IF left = n /\ final = 1 THEN Leave(cp + n, TRUE) ELSE Stay

\* The next block, if this one is complete and not the last.
AfterCopy(n) == IF left = n /\ final = 0 THEN Stay ELSE Leave(cp + n, left = n)

\* Copies straight from the chunk: the accumulator must be empty here.
CopyStored ==
    /\ In("STORED_DATA")
    /\ LET n == IF left < end - cp THEN left ELSE end - cp
       IN  /\ out' = out \o SubSeq(input.bytes, cp + 1, cp + n)
           /\ cp' = cp + n
           /\ left' = left - n
           /\ state' = IF left > n THEN state
                       ELSE IF final = 1 THEN "DONE" ELSE "HEADER"
           /\ AfterCopy(n)
    /\ UNCHANGED <<chunk, hold, final, slen, match, hdr, huff, caller>>

EmitLiteral ==
    /\ In("DECODE_SYM") /\ ~Starved /\ Symbol.used > 0 /\ Symbol.sym < 256
    /\ Take(Symbol.used)
    /\ LET e == Grows(1)
       IN  IF e # "none" THEN Poison(e) /\ UNCHANGED out
                         ELSE Stay /\ out' = Append(out, Symbol.sym)
    /\ UNCHANGED <<chunk, state, block, match, hdr, huff, caller>>

EndOfBlock ==
    /\ In("DECODE_SYM") /\ ~Starved /\ Symbol.sym = 256
    /\ Take(Symbol.used)
    /\ IF final = 1 THEN state' = "DONE" /\ Leave(cp + Pulled, TRUE)
                    ELSE state' = "HEADER" /\ Stay
    /\ UNCHANGED <<chunk, block, match, hdr, huff, out, caller>>

LengthCodes == 29

LengthCode ==
    /\ In("DECODE_SYM") /\ ~Starved /\ Symbol.sym > 256
    /\ Take(Symbol.used)
    /\ LET i == Symbol.sym - 257
       IN  IF i >= LengthCodes
             THEN Poison("CORRUPT_DATA") /\ UNCHANGED <<state, match>>
             ELSE /\ match' = [match EXCEPT !.length = LenBase(i), !.extra = LenExtra(i)]
                  /\ state' = "LEN_EXTRA"
                  /\ Stay
    /\ UNCHANGED <<chunk, block, hdr, huff, out, caller>>

LengthExtra ==
    /\ In("LEN_EXTRA") /\ ~Starved
    /\ Take(match.extra)
    /\ match' = [match EXCEPT !.length = @ + Field]
    /\ state' = "DECODE_DIST"
    /\ UNCHANGED <<chunk, pc, block, err, hdr, huff, out, caller>>

DistanceCode ==
    /\ In("DECODE_DIST") /\ ~Starved /\ Symbol.used > 0
    /\ Take(Symbol.used)
    /\ LET i == Symbol.sym
       IN  IF i >= 30
             THEN Poison("CORRUPT_DATA") /\ UNCHANGED <<state, match>>
             ELSE /\ match' = [match EXCEPT !.distance = DistBase(i), !.extra = DistExtra(i)]
                  /\ state' = "DIST_EXTRA"
                  /\ Stay
    /\ UNCHANGED <<chunk, block, hdr, huff, out, caller>>

\* The last field of a match, and the copy.
CopyMatch ==
    /\ In("DIST_EXTRA") /\ ~Starved
    /\ Take(match.extra)
    /\ LET distance == match.distance + Field
           history  == input.dict \o out
           e == IF distance > Len(history) THEN "MATCH_OUT_OF_RANGE"
                ELSE Grows(match.length)
       IN  /\ match' = [match EXCEPT !.distance = distance]
           /\ IF e # "none"
                THEN Poison(e) /\ UNCHANGED <<state, out>>
                ELSE /\ out' = out \o MatchCopy(history, distance, match.length)
                     /\ state' = "DECODE_SYM"
                     /\ Stay
    /\ UNCHANGED <<chunk, block, hdr, huff, caller>>

-----------------------------------------------------------------------------
(* The header of a dynamic block.                                          *)

ReadHlit ==
    /\ In("DYN_HLIT") /\ ~Starved
    /\ Take(5)
    /\ IF Field + 257 > 286
         THEN Poison("CORRUPT_DATA") /\ UNCHANGED <<state, hdr>>
         ELSE Stay /\ state' = "DYN_HDIST" /\ hdr' = [hdr EXCEPT !.hlit = Field + 257]
    /\ UNCHANGED <<chunk, block, match, huff, out, caller>>

ReadHdist ==
    /\ In("DYN_HDIST") /\ ~Starved
    /\ Take(5)
    /\ IF Field + 1 > 30
         THEN Poison("CORRUPT_DATA") /\ UNCHANGED <<state, hdr>>
         ELSE Stay /\ state' = "DYN_HCLEN" /\ hdr' = [hdr EXCEPT !.hdist = Field + 1]
    /\ UNCHANGED <<chunk, block, match, huff, out, caller>>

ReadHclen ==
    /\ In("DYN_HCLEN") /\ ~Starved
    /\ Take(4)
    /\ hdr' = [hdr EXCEPT !.hclen = Field + 4, !.fields = <<>>]
    /\ state' = "DYN_CL_LENS"
    /\ UNCHANGED <<chunk, pc, block, err, match, huff, out, caller>>

ReadClLength ==
    /\ In("DYN_CL_LENS") /\ ~Starved /\ Len(hdr.fields) < hdr.hclen
    /\ Take(3)
    /\ hdr' = [hdr EXCEPT !.fields = Append(@, Field)]
    /\ UNCHANGED <<chunk, pc, state, block, err, match, huff, out, caller>>

BuildClTable ==
    /\ In("DYN_CL_LENS") /\ Len(hdr.fields) = hdr.hclen
    /\ LET lens == ClLengths(hdr.fields)
       IN  /\ huff' = [huff EXCEPT !.cl = BuiltOrEmpty(lens, TRUE)]
           /\ IF ~ValidLengths(lens, TRUE)
                THEN Poison("INVALID_HUFFMAN") /\ UNCHANGED <<state, hdr>>
                ELSE /\ hdr' = [hdr EXCEPT !.lens = <<>>, !.prev = 0]
                     /\ state' = "DYN_AL_SYM"
                     /\ Stay
    /\ UNCHANGED <<chunk, cp, hold, block, match, out, caller>>

ReadCodeLength ==
    /\ In("DYN_AL_SYM") /\ Coded /\ ~Starved /\ Symbol.used > 0
    /\ Take(Symbol.used)
    /\ LET sym == Symbol.sym
       IN  IF sym <= 15
             THEN /\ hdr' = [hdr EXCEPT !.lens = Append(@, sym), !.prev = sym]
                  /\ UNCHANGED state /\ Stay
             ELSE IF sym = 16 /\ CodesRead = 0
             THEN Poison("CORRUPT_DATA") /\ UNCHANGED <<state, hdr>>
             ELSE /\ hdr' = [hdr EXCEPT !.rep = sym]
                  /\ state' = "DYN_AL_EXTRA" /\ Stay
    /\ UNCHANGED <<chunk, block, match, huff, out, caller>>

RepeatLength ==
    /\ In("DYN_AL_EXTRA") /\ ~Starved
    /\ Take(RepeatBits(hdr.rep))
    /\ LET n == Field + RepeatBase(hdr.rep)
           v == IF hdr.rep = 16 THEN hdr.prev ELSE 0
       IN  IF CodesRead + n > CodesDue
             THEN Poison("CORRUPT_DATA") /\ UNCHANGED <<state, hdr>>
             ELSE /\ hdr' = [hdr EXCEPT !.lens = @ \o [i \in 1 .. n |-> v], !.prev = v]
                  /\ state' = "DYN_AL_SYM"
                  /\ Stay
    /\ UNCHANGED <<chunk, block, match, huff, out, caller>>

BuildTables ==
    /\ In("DYN_AL_SYM") /\ CodesRead >= CodesDue
    /\ LET lit  == SubSeq(hdr.lens, 1, hdr.hlit)
           dist == SubSeq(hdr.lens, hdr.hlit + 1, CodesDue)
           ok   == ValidLengths(lit, FALSE)
       IN  /\ huff' = [huff EXCEPT !.fixed = FALSE,
                          !.lit  = BuiltOrEmpty(lit, FALSE),
                          !.dist = IF ok THEN BuiltOrEmpty(dist, FALSE) ELSE @]
           /\ IF ok /\ ValidLengths(dist, FALSE)
                THEN state' = "DECODE_SYM" /\ Stay
                ELSE Poison("INVALID_HUFFMAN") /\ UNCHANGED state
    /\ UNCHANGED <<chunk, cp, hold, block, match, hdr, out, caller>>

\* A maximum-length window of bits that matches no code.
NoSuchCode ==
    /\ pc = "in" /\ Coded /\ ~Starved /\ Symbol.used = 0
    /\ Take(0)
    /\ Poison("INVALID_HUFFMAN")
    /\ UNCHANGED <<chunk, state, block, match, hdr, huff, out, caller>>

-----------------------------------------------------------------------------
Step ==
    \/ Suspend \/ NoSuchCode
    \/ ReadHeader \/ ReadStoredLen \/ ReadStoredNlen \/ CopyStored
    \/ EmitLiteral \/ EndOfBlock \/ LengthCode \/ LengthExtra
    \/ DistanceCode \/ CopyMatch
    \/ ReadHlit \/ ReadHdist \/ ReadHclen \/ ReadClLength \/ BuildClTable
    \/ ReadCodeLength \/ RepeatLength \/ BuildTables

Next ==
    \/ \E n \in 1 .. Len(input.bytes) : Write(n)
    \/ WriteInvalid
    \/ Reset
    \/ Finish
    \/ Step

Spec == Init /\ [][Next]_vars

\* A call, once started, runs to its end.
FairSpec == Spec /\ WF_vars(Step)

-----------------------------------------------------------------------------
(* Properties.                                                             *)

\* However the stream is cut into chunks, the decoder says of it what the
\* batch decoder says: same output, same error, same end of the stream
\* (deflate_dec_write against _deflate_decompress_inner, which has to be given
\* the room for the dictionary too).  A later member that
\* reaches back into an earlier one is the exception: the batch decoder refuses
\* it, and deflate_dec_reset keeps what the copy compares the distance with.
AgreesWithBatch ==
    \/ ref.err = "MATCH_OUT_OF_RANGE" /\ ref.start > 0
    \/ /\ ref.err = "none" => IsPrefix(out, ref.out)
       /\ state = "DONE" =>
            ref.err = "none" /\ out = ref.out /\ cp - Len(hold) \div 8 = ref.trailer
       /\ err \notin {"none", "INVALID_INPUT"} => ref.err = err /\ out = ref.out
       /\ pc = "out" /\ err = "none" /\ cp = Len(input.bytes)
            /\ state \notin {"DONE", "CLOSED"} => ref.err = "CORRUPT_DATA"
       /\ verdict = "ok" => out = ref.out

\* No call spins: the mutex is held, so it would hang every other caller.
CallReturns == pc = "in" ~> pc = "out"

\* What the envelopes see: a call happens at once, its working is hidden.
Seen == INSTANCE StreamDecoder WITH
    total  <- Len(input.bytes),
    taken  <- IF pc = "in" THEN base ELSE cp,
    ahead  <- Ahead,
    out    <- IF pc = "in" THEN SubSeq(out, 1, before) ELSE out,
    status <- IF state = "CLOSED" THEN "closed"
              ELSE IF err # "none" THEN err
              ELSE IF state = "DONE" THEN "done" ELSE "open"

\* deflate_dec_* keeps what gzip_dec_write and zlib_dec_write rely on.
KeepsPromise == Seen!Promise
=============================================================================
