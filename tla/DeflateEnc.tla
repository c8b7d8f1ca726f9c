------------------------------ MODULE DeflateEnc ------------------------------
(***************************************************************************)
(* The streaming DEFLATE encoder of src/src/deflate.cyr: deflate_enc_init, *)
(* _write, _flush, _reset_context, _finish.  Input is copied into a window *)
(* of two times Window bytes; when it is full its last half slides down.   *)
(* Matches are looked for up to Lookahead bytes before the end of what has *)
(* arrived, so that one may still grow with the next write.                *)
(*                                                                         *)
(* The fixed path (levels 1-3) writes symbols as it finds them, into one   *)
(* open block; the dynamic path (levels 4-9) collects them and writes a    *)
(* block whenever the buffer is nearly full.  Which code a block of the    *)
(* dynamic path gets, fixed or its own, is the matter of DynamicBlock.     *)
(*                                                                         *)
(* One step is one turn of a loop, or what is done between two loops.      *)
(***************************************************************************)
EXTENDS Lz77, BlockStream

CONSTANTS
    Jobs,        \* what is encoded: records [bytes, dict, dynamic, cap]
    Chunks,      \* the sizes of writes tried; the rest of the bytes always is
    SymMax,      \* DYN_SYM_MAX
    MaxFlushes   \* bound on deflate_enc_flush calls

\* DENC_WINDOW_CAP, DENC_SLIDE_RETAIN, DENC_LOOKAHEAD.
WindowCap == 2 * Window
Retain    == Window
Lookahead == MaxMatch

\* What the encoder writes.
Written ==
    [t : {"block"}, final : BOOLEAN, kind : {"coded", "stored"}]
    \cup [t : {"literal"}, byte : Byte]
    \cup [t : {"match"}, len : MinMatch .. MaxMatch, dist : 1 .. Window]
    \cup {Eob, Align, Lengths}

\* A dictionary fits the window, whose distances a decoder can follow, and the
\* length fields of a stored block are whole bytes.
ASSUME DeflateEncAssumption ==
    /\ \A j \in Jobs : /\ j.bytes \in Seq(Byte) /\ j.dict \in Seq(Byte)
                       /\ Len(j.dict) <= Window
                       /\ j.dynamic \in BOOLEAN /\ j.cap \in Nat
    /\ Chunks \subseteq Nat \ {0}
    /\ SymMax \in Nat /\ SymMax > 5 /\ MaxFlushes \in Nat
    /\ MaxDistance \in Nat /\ Window <= MaxDistance
    /\ \A x \in Written : Cost(x) \in Nat
    /\ Cost(Lengths) % 8 = 0

VARIABLES
    job,       \* what the caller wants encoded
    sent,      \* how many of its bytes were handed over
    rest,      \* how many of those the write in progress has not copied yet
    window,    \* the window up to wptr
    cptr,      \* up to where the window was turned into symbols
    table,     \* the match finder's hash table
    state,     \* DENC_STATE_*
    err,       \* sticky error, or "none"
    open,      \* fixed_header_written
    syms,      \* _dyn_sym_buf
    bits,      \* how many bits the writer was given
    reader,    \* and what a decoder makes of them
    pc,        \* "out": in the caller; or the place inside a call
    upto,      \* how far the current run over the window goes
    then,      \* and what comes after it
    flushes,   \* how often the caller flushed
    flushed,   \* sent at the last flush, -1 if something was done since
    verdict    \* what deflate_enc_finish returned

caller == <<job, sent, flushes, flushed>>
writer == <<bits, reader>>
run    == <<upto, then>>
vars   == <<job, sent, rest, window, cptr, table, state, err, open, syms,
            bits, reader, pc, upto, then, flushes, flushed, verdict>>

\* The dictionary is put in the window and every position of it in the table.
Preloaded(d) == InsertAll(Cleared, d, 0, Len(d))

Init ==
    /\ job \in Jobs
    /\ sent = 0 /\ rest = 0 /\ flushes = 0 /\ flushed = -1
    /\ window = job.dict /\ cptr = Len(job.dict) /\ table = Preloaded(job.dict)
    /\ state = "INIT" /\ err = "none" /\ open = FALSE
    /\ syms = <<>> /\ bits = 0 /\ reader = Start(job.dict)
    /\ pc = "out" /\ upto = 0 /\ then = "out"
    /\ verdict = "open"

-----------------------------------------------------------------------------
(* Helpers.                                                                *)

\* Hand items to the writer, and go on with the call if they all fit.  (What a
\* failing finish returns is kept in err too, where the code just returns it:
\* the context is then done.)
Put(items, next) ==
    LET fit == Fitting(bits, items, job.cap)
        n   == fit.items
    IN  /\ reader' = Read(reader, SubSeq(items, 1, n))
        /\ bits' = fit.bits
        /\ IF n = Len(items) THEN UNCHANGED err ELSE err' = "BUFFER_TOO_SMALL"
        /\ pc' = IF n = Len(items) THEN next
                 ELSE IF then = "finish" THEN "close" ELSE "out"

\* A run over the window, up to offset e and on to s.
Consume(e, s) == pc' = "consume" /\ upto' = e /\ then' = s

\* All but the lookahead.
ProcessEnd(w) == IF Len(w) > Lookahead THEN Len(w) - Lookahead ELSE 0

\* A symbol takes one slot of the buffer, a match two.
SlotsOf(items) == Len(items) + Cardinality({k \in DOMAIN items : items[k].t = "match"})

Slots == SlotsOf(syms)

\* Mutant: no slack for the two slots of a match and the end of the block.
FullWithoutSlack == Slots >= SymMax

Full == Slots >= SymMax - 3

\* A block of the dynamic path around the collected symbols.
Collected(final) == <<Block(final, "coded")>> \o syms \o <<Eob>>

\* The symbol for the next byte of the window, and how far it reaches.
Found  == FindMatch(table, window, cptr)
Symbol == IF Found.len > 0 THEN Copy(Found) ELSE Literal(window[cptr + 1])
Stride == IF Found.len > 0 THEN Found.len ELSE 1

Advance ==
    /\ table' = InsertAll(table, window, cptr, cptr + Stride)
    /\ cptr' = cptr + Stride

-----------------------------------------------------------------------------
(* The caller.                                                             *)

Writable == pc = "out" /\ err = "none" /\ state # "DONE"

Write(n) ==
    /\ Writable
    /\ n \in 1 .. Len(job.bytes) - sent
    /\ n \in Chunks \/ sent + n = Len(job.bytes)
    /\ sent' = sent + n /\ rest' = n
    /\ state' = "WRITING"
    /\ pc' = "room"
    /\ flushed' = -1
    /\ UNCHANGED <<job, flushes, window, cptr, table, err, open, syms, writer, run, verdict>>

\* Mutant: a flush holds the lookahead back, like a write.
FlushLikeWrite == ProcessEnd(window)

FlushEnd == Len(window)

Flush ==
    /\ Writable /\ flushes < MaxFlushes
    /\ flushes' = flushes + 1 /\ flushed' = sent
    /\ Consume(FlushEnd, "flush")
    /\ UNCHANGED <<job, sent, rest, window, cptr, table, state, err, open, syms,
                   writer, verdict>>

\* Mutant: window and table stay as they are.
KeptHistory == <<window, table>>

ForgottenHistory == <<<<>>, Cleared>>

\* Only with the block sequence closed and nothing pending.
ResetContext ==
    /\ Writable
    /\ cptr = Len(window)
    /\ IF job.dynamic THEN syms = <<>> ELSE ~open
    /\ window' = ForgottenHistory[1] /\ table' = ForgottenHistory[2]
    /\ cptr' = Len(window')
    /\ reader' = [reader EXCEPT !.floor = Len(reader.plain)]
    /\ UNCHANGED <<caller, rest, state, err, open, syms, bits, pc, run, verdict>>

Finish ==
    /\ pc = "out" /\ state # "DONE"
    /\ flushed' = -1
    /\ IF err # "none" THEN pc' = "close" /\ UNCHANGED run
                       ELSE Consume(Len(window), "finish")
    /\ UNCHANGED <<job, sent, flushes, rest, window, cptr, table, state, err,
                   open, syms, writer, verdict>>

-----------------------------------------------------------------------------
(* Inside deflate_enc_write.                                               *)

Room ==
    /\ pc = "room"
    /\ IF rest = 0 THEN pc' = "out" /\ UNCHANGED run
       ELSE IF Len(window) + rest > WindowCap THEN Consume(ProcessEnd(window), "slide")
       ELSE pc' = "copy" /\ UNCHANGED run
    /\ UNCHANGED <<caller, rest, window, cptr, table, state, err, open, syms, writer, verdict>>

\* Mutant: the slide makes no room.
SlideByNothing == 0

\* Mutant: the slide leaves less than the lookahead.
SlideTooFar == Max({0, Len(window) - Retain + 1})

SlideBy == Max({0, Len(window) - Retain})

Slide ==
    /\ pc = "slide"
    /\ LET delta == SlideBy
       IN  /\ window' = SubSeq(window, delta + 1, Len(window))
           /\ cptr' = Max({0, cptr - delta})
           /\ table' = Rebase(table, delta)
    /\ pc' = "copy"
    /\ UNCHANGED <<caller, rest, state, err, open, syms, writer, run, verdict>>

CopyIn ==
    /\ pc = "copy"
    /\ LET n    == Min({rest, WindowCap - Len(window)})
           from == sent - rest
       IN  /\ window' = window \o SubSeq(job.bytes, from + 1, from + n)
           /\ rest' = rest - n
    /\ Consume(ProcessEnd(window'), "room")
    /\ UNCHANGED <<caller, cptr, table, state, err, open, syms, writer, verdict>>

-----------------------------------------------------------------------------
(* _denc_consume.                                                          *)

In(s) == pc = s
Running == In("consume") /\ cptr < upto

Consumed ==
    /\ In("consume") /\ cptr >= upto
    /\ pc' = then
    /\ UNCHANGED <<caller, rest, window, cptr, table, state, err, open, syms,
                   writer, run, verdict>>

\* The dynamic path.
WriteFullBlock ==
    /\ Running /\ job.dynamic /\ Full
    /\ Put(Collected(FALSE), "consume")
    /\ syms' = IF err' = "none" THEN <<>> ELSE syms
    /\ UNCHANGED <<caller, rest, window, cptr, table, state, open, run, verdict>>

Collect ==
    /\ Running /\ job.dynamic /\ ~Full
    /\ syms' = Append(syms, Symbol)
    /\ Advance
    /\ UNCHANGED <<caller, rest, window, state, err, open, writer, pc, run, verdict>>

\* The fixed path.
OpenBlock ==
    /\ Running /\ ~job.dynamic /\ ~open
    /\ Put(<<Block(FALSE, "coded")>>, "consume")
    /\ open' = (err' = "none")
    /\ UNCHANGED <<caller, rest, window, cptr, table, state, syms, run, verdict>>

WriteSymbol ==
    /\ Running /\ ~job.dynamic /\ open
    /\ Put(<<Symbol>>, "consume")
    /\ IF err' = "none" THEN Advance ELSE UNCHANGED <<table, cptr>>
    /\ UNCHANGED <<caller, rest, window, state, open, syms, run, verdict>>

-----------------------------------------------------------------------------
(* deflate_enc_flush and deflate_enc_finish, once all is consumed.         *)

\* What ends the block in hand, if there is anything in it.
Ending == IF job.dynamic THEN IF syms = <<>> THEN <<>> ELSE Collected(FALSE)
          ELSE IF open THEN <<Eob>> ELSE <<>>

FlushBlock ==
    /\ In("flush")
    /\ Put(Ending \o EmptyStored(FALSE), "out")
    /\ IF err' = "none" THEN syms' = <<>> /\ open' = FALSE ELSE UNCHANGED <<syms, open>>
    /\ UNCHANGED <<caller, rest, window, cptr, table, state, run, verdict>>

\* Mutant: nothing is written if no symbol is pending.
LastBlockIfAny == IF job.dynamic THEN IF syms = <<>> THEN <<>> ELSE Collected(TRUE)
                  ELSE Ending \o EmptyStored(TRUE)

LastBlock == IF job.dynamic THEN Collected(TRUE) ELSE Ending \o EmptyStored(TRUE)

FinishBlock ==
    /\ In("finish")
    /\ Put(LastBlock, "close")
    /\ UNCHANGED <<caller, rest, window, cptr, table, state, open, syms, run, verdict>>

\* bw_finish does not look at what the alignment of the last byte returns.
CloseContext ==
    /\ In("close")
    /\ state' = "DONE"
    /\ verdict' = IF err = "none" THEN "ok" ELSE err
    /\ pc' = "out"
    /\ UNCHANGED <<caller, rest, window, cptr, table, err, open, syms, writer, run>>

-----------------------------------------------------------------------------
Step ==
    \/ Room \/ Slide \/ CopyIn \/ Consumed
    \/ WriteFullBlock \/ Collect \/ OpenBlock \/ WriteSymbol
    \/ FlushBlock \/ FinishBlock \/ CloseContext

Next ==
    \/ \E n \in 1 .. Len(job.bytes) : Write(n)
    \/ Flush \/ ResetContext \/ Finish
    \/ Step

Spec == Init /\ [][Next]_vars

-----------------------------------------------------------------------------
(* Properties.                                                             *)

Given == job.dict \o SubSeq(job.bytes, 1, sent)

\* The bytes given, in order: what is written, then what the collected symbols
\* stand for, what of the window is to be turned into symbols, and what the write
\* in progress has yet to copy.  A slide, a match across the end of a run or a
\* block that could not be written drops and repeats none of them, and the
\* symbols never fill their buffer: the end of a block is a slot of its own.
NothingLost ==
    err = "none" /\ state # "DONE" /\ pc # "close" =>
        LET pending == IF job.dynamic THEN Collected(FALSE) ELSE <<>>
        IN  /\ Slots < SymMax
            /\ Len(window) <= WindowCap
            /\ Read(reader, pending).plain \o SubSeq(window, cptr + 1, Len(window))
                 = SubSeq(Given, 1, Len(Given) - rest)

\* Whatever has been written so far is a well-formed beginning of a stream,
\* and what it decodes to is what was given: no match reaches behind the
\* decoder's window or to bytes the slide or a stale chain entry mixed up.
Faithful == reader.ok /\ IsPrefix(reader.plain, Given)

\* README.md, RFC 7692: a sync flush gives the receiver everything written so
\* far, ends on a byte, and leaves the stream open for more.
FlushDelivers ==
    pc = "out" /\ flushed >= 0 /\ err = "none" =>
        /\ reader.plain = Given /\ reader.block = "none" /\ ~reader.done
        /\ bits % 8 = 0

\* The writer stored its last, partial byte.
Stored == bits <= 8 * job.cap

\* A stream that was finished without an error is complete.
FinishDelivers ==
    verdict = "ok" /\ Stored => reader.done /\ reader.plain = Given

\* deflate.cyr:2870: after deflate_enc_reset_context no match reaches what came
\* before it (no_context_takeover).
ForgetsContext == ~reader.crossed

\* What a call still has to do: input to copy, bytes to turn into symbols,
\* and the places of one turn of the loop in their order.
Place == CASE pc = "room" -> 9
           [] pc = "consume" /\ then = "slide" -> 8
           [] pc = "slide" -> 7
           [] pc = "copy" -> 6
           [] pc = "consume" /\ then = "room" -> 10
           [] pc = "consume" /\ then \in {"flush", "finish"} -> 3
           [] pc \in {"flush", "finish"} -> 2
           [] OTHER -> 1

Work == 20 * rest + 4 * (Len(window) - cptr) + Place
        + (IF Full THEN 1 ELSE 0) + (IF open THEN 0 ELSE 1)

\* Every call ends: each of its steps leaves it less to do.  A slide makes
\* room for some of the input, and a run gets to its end.
CallEnds == [][pc # "out" /\ pc' # "out" => Work' < Work]_vars

\* deflate.cyr:2912: finish returns the length of the stream or an error.
FinishIsWhole == verdict = "ok" => Stored
=============================================================================
