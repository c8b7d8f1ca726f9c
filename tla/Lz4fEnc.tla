-------------------------------- MODULE Lz4fEnc --------------------------------
(***************************************************************************)
(* The streaming LZ4 frame encoder of src/src/lz4.cyr, lz4f_enc_*.  It     *)
(* collects a block, compresses it when it is full, and always leaves room *)
(* in the output buffer for what lz4f_enc_finish writes.                   *)
(***************************************************************************)
EXTENDS Lz4Frame

CONSTANTS
    Jobs,        \* what is encoded: records [bytes, id, sums, cap]
    EncChunks    \* the sizes of a write; the rest of the bytes always is one

ASSUME Lz4fEncAssumption ==
    /\ \A j \in Jobs : /\ j.bytes \in Seq(Byte) /\ j.id \in 4 .. 7
                       /\ j.sums \in BOOLEAN /\ j.cap \in Nat /\ j.cap >= 19
    /\ EncChunks \subseteq Nat \ {0}

VARIABLES
    job,        \* the caller's bytes, and the arguments of lz4f_enc_init_ex
    sent,       \* how many bytes were handed over
    rest,       \* how many of them the call in progress has not copied yet
    staged,     \* block_buf up to block_buf_len
    wire,       \* dst up to dp
    hashed,     \* the bytes folded into the content checksum
    encErr,     \* sticky error, or "none"
    encClosed,  \* lz4f_enc_finish ran
    encPc,      \* "out": in the caller; "in": inside lz4f_enc_write
    encVerdict  \* what lz4f_enc_finish returned

encVars == <<job, sent, rest, staged, wire, hashed, encErr, encClosed, encPc, encVerdict>>

Full == BlockMax(job.id)

EncInit ==
    /\ job \in Jobs
    /\ sent = 0 /\ rest = 0
    /\ staged = <<>> /\ hashed = <<>>
    /\ wire = Header(job.id, job.sums)
    /\ encErr = "none" /\ encClosed = FALSE
    /\ encPc = "out" /\ encVerdict = "open"

-----------------------------------------------------------------------------
\* Mutant of FitsHere: no room is kept for the end mark and the checksum.
FitsUnreserved(packed, data) ==
    /\ Len(packed) <= job.cap - Len(wire) - 4 - SumBytes(job.sums)
    /\ Len(data) <= job.cap - Len(wire) - 4 - SumBytes(job.sums)

FitsHere(packed, data) == Fits(packed, data, job.sums, job.cap - Len(wire))

\* Mutant of EmitBlock: the block stays in the buffer.
EmitKeepsBlock(data) ==
    IF FitsHere(Compressed(data), data)
      THEN /\ wire' = wire \o BlockBytes(Compressed(data), data, job.sums)
           /\ staged' = data
           /\ UNCHANGED encErr
      ELSE /\ encErr' = "BUFFER_TOO_SMALL"
           /\ staged' = data
           /\ UNCHANGED wire

\* _lz4f_enc_emit_block.
EmitBlock(data) ==
    IF FitsHere(Compressed(data), data)
      THEN /\ wire' = wire \o BlockBytes(Compressed(data), data, job.sums)
           /\ staged' = <<>>
           /\ UNCHANGED encErr
      ELSE /\ encErr' = "BUFFER_TOO_SMALL"
           /\ staged' = data
           /\ UNCHANGED wire

\* A closed or failed encoder, and an empty write, change nothing.
EncWrite(n) ==
    /\ encPc = "out" /\ ~encClosed /\ encErr = "none"
    /\ n \in EncChunks \cup {Len(job.bytes) - sent} /\ n \in 1 .. Len(job.bytes) - sent
    /\ hashed' = hashed \o SubSeq(job.bytes, sent + 1, sent + n)
    /\ sent' = sent + n /\ rest' = n
    /\ encPc' = "in"
    /\ UNCHANGED <<job, staged, wire, encErr, encClosed, encVerdict>>

\* One turn of the loop: copy what fits into the block, write it if it is full.
Stage ==
    /\ encPc = "in" /\ rest > 0 /\ encErr = "none"
    /\ LET space == Full - Len(staged)
           take == IF rest > space THEN space ELSE rest
           from == sent - rest
           data == staged \o SubSeq(job.bytes, from + 1, from + take)
       IN  /\ rest' = rest - take
           /\ IF Len(data) = Full THEN EmitBlock(data)
              ELSE staged' = data /\ UNCHANGED <<wire, encErr>>
    /\ UNCHANGED <<job, sent, hashed, encClosed, encPc, encVerdict>>

EncReturn ==
    /\ encPc = "in" /\ (rest = 0 \/ encErr # "none")
    /\ encPc' = "out" /\ rest' = 0
    /\ UNCHANGED <<job, sent, staged, wire, hashed, encErr, encClosed, encVerdict>>

\* lz4f_enc_finish: the last block, the end mark, the content checksum.
LastBlock == IF encErr = "none" /\ staged # <<>> THEN EmitBlock(staged)
             ELSE UNCHANGED <<wire, staged, encErr>>

EncFlushLast ==
    /\ encPc = "out" /\ ~encClosed
    /\ LastBlock
    /\ encPc' = "close"
    /\ UNCHANGED <<job, sent, rest, hashed, encClosed, encVerdict>>

EncClose ==
    /\ encPc = "close"
    /\ IF encErr # "none" THEN encVerdict' = encErr /\ UNCHANGED wire
       ELSE IF Len(wire) + 8 > job.cap
         THEN encVerdict' = "BUFFER_TOO_SMALL" /\ UNCHANGED wire
         ELSE encVerdict' = "ok" /\ wire' = wire \o EndMark \o Checksum(hashed)
    /\ encClosed' = TRUE
    /\ encPc' = "out"
    /\ UNCHANGED <<job, sent, rest, staged, hashed, encErr>>

EncNext ==
    \/ \E n \in 1 .. Len(job.bytes) : EncWrite(n)
    \/ Stage \/ EncReturn
    \/ EncFlushLast \/ EncClose

EncSpec == EncInit /\ [][EncNext]_encVars

-----------------------------------------------------------------------------
(* Properties.                                                             *)

Given == SubSeq(job.bytes, 1, sent)

\* lz4.cyr:384: every block leaves room for the end mark and the content
\* checksum, so that finish cannot fail for want of space: what was accepted by
\* the writes is delivered.
ReserveKept ==
    /\ encVerdict = "open" => Len(wire) + 8 <= job.cap
    /\ Len(wire) <= job.cap
    /\ encVerdict = "BUFFER_TOO_SMALL" => encErr = "BUFFER_TOO_SMALL"

\* With the default arguments the streaming encoder writes the bytes that
\* lz4f_compress writes, however the input is cut, and fails where it fails.
SameAsBatch ==
    encVerdict # "open" /\ job.id = 4 /\ ~job.sums =>
        Frame(Given, job.cap) = IF encErr = "none" THEN [err |-> "none", wire |-> wire]
                                ELSE [err |-> encErr, wire |-> <<>>]

\* The block format asks that a block end in literals, LastLiterals of them at
\* least, and that the last match begin MfLimit before its end: decoders copy in
\* larger steps because of it (lz4.cyr:159).
EndsInLiterals ==
    LET seqs == SequencesOf(staged)
        n    == Len(seqs)
    IN  n > 1 => /\ seqs[n].len = 0 /\ Len(seqs[n].lits) >= LastLiterals
                 /\ seqs[n - 1].len + Len(seqs[n].lits) >= MfLimit
=============================================================================
