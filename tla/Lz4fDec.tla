-------------------------------- MODULE Lz4fDec --------------------------------
(***************************************************************************)
(* The streaming LZ4 frame decoder of src/src/lz4.cyr, lz4f_dec_*.  One    *)
(* action is one turn of the loop in lz4f_dec_write; Suspend is the turn   *)
(* that runs out of input, in whatever state.  Unframe of Lz4Frame is the  *)
(* batch decoder it has to agree with.                                     *)
(***************************************************************************)
EXTENDS Lz4Frame

CONSTANTS
    DecChunks,    \* the sizes of a write; the rest of the frame always is one
    MaxOutput     \* DECOMPRESS_MAX_OUTPUT

ASSUME Lz4fDecAssumption == DecChunks \subseteq Nat \ {0} /\ MaxOutput \in Nat

VARIABLES
    frame,      \* the bytes the caller hands over
    room,       \* dst_cap
    end,        \* where the chunk being written ends
    cp,         \* the next byte to read
    pc,         \* "out": in the caller; "in": inside lz4f_dec_write; "none": no context
    state,      \* LDEC_STATE_*
    flg,        \* the FLG byte
    desc,       \* the descriptor as read
    field,      \* the bytes of the field in hand (idx and acc)
    max,        \* block_max, the bytes allocated to block_buf
    block,      \* block_buf up to the bytes read
    size, raw,  \* block_size, block_uncomp
    out,        \* dst up to dp
    folded,     \* the bytes folded into the content checksum
    err,        \* sticky error, or "none"
    verdict     \* what lz4f_dec_finish returned

caller  == <<frame, room, end, verdict>>
reading == <<max, block, size, raw>>
written == <<out, folded>>
decVars == <<frame, room, end, cp, pc, state, flg, desc, field, max, block, size, raw,
             out, folded, err, verdict>>

\* lz4f_dec_init.
Opened(f, r) ==
    /\ frame' = f /\ room' = r
    /\ end' = 0 /\ cp' = 0 /\ pc' = "out"
    /\ state' = "MAGIC" /\ flg' = 0 /\ desc' = <<>> /\ field' = <<>>
    /\ max' = SmallBlock /\ block' = <<>> /\ size' = 0 /\ raw' = FALSE
    /\ out' = <<>> /\ folded' = <<>>
    /\ err' = "none" /\ verdict' = "open"

DecInit ==
    /\ frame = <<>> /\ room = 0
    /\ end = 0 /\ cp = 0 /\ pc = "none"
    /\ state = "MAGIC" /\ flg = 0 /\ desc = <<>> /\ field = <<>>
    /\ max = SmallBlock /\ block = <<>> /\ size = 0 /\ raw = FALSE
    /\ out = <<>> /\ folded = <<>>
    /\ err = "none" /\ verdict = "open"

-----------------------------------------------------------------------------
(* The caller.                                                             *)

DecWrite(n) ==
    /\ pc = "out" /\ err = "none" /\ state \notin {"DONE", "CLOSED"}
    /\ n \in DecChunks \cup {Len(frame) - cp} /\ n \in 1 .. Len(frame) - cp
    /\ end' = cp + n
    /\ pc' = "in"
    /\ UNCHANGED <<frame, room, verdict, cp, state, flg, desc, field, reading, written, err>>

\* A negative length or a null chunk, in any state but CLOSED.
DecMisuse ==
    /\ pc = "out" /\ err = "none" /\ state # "CLOSED"
    /\ err' = "INVALID_INPUT"
    /\ UNCHANGED <<caller, cp, pc, state, flg, desc, field, reading, written>>

DecFinish ==
    /\ pc = "out" /\ state # "CLOSED"
    /\ verdict' = IF err # "none" THEN err
                  ELSE IF state # "DONE" THEN "CORRUPT_DATA" ELSE "ok"
    /\ state' = "CLOSED"
    /\ UNCHANGED <<frame, room, end, cp, pc, flg, desc, field, reading, written, err>>

-----------------------------------------------------------------------------
(* A turn of the loop.                                                     *)

FieldSize == [MAGIC |-> 4, FLG |-> 1, BD |-> 1, CONTENT_SIZE |-> 8, DICT_ID |-> 4, HC |-> 1,
              BLOCK_SIZE |-> 4, BLOCK_CHECKSUM |-> 4, CONTENT_CHECKSUM |-> 4]

\* How many bytes the state still waits for.
Missing == IF state = "BLOCK_DATA" THEN size - Len(block) ELSE FieldSize[state] - Len(field)

Left == end - cp

Coming(n) == SubSeq(frame, cp + 1, cp + n)

Short == Left < Missing

In(s) == pc = "in" /\ state = s /\ ~Short /\ cp' = cp + Missing

\* The field in hand, complete.
Whole == field \o Coming(Missing)

\* The fields that are part of the descriptor go there as they come.
Described(n) == IF state \in {"CONTENT_SIZE", "DICT_ID"} THEN desc \o Coming(n) ELSE desc

\* Mutant of Suspend: a block that is not complete is read again from its start.
SuspendForgetsBlock ==
    /\ pc = "in" /\ Short
    /\ cp' = end /\ pc' = "out"
    /\ IF state = "BLOCK_DATA" THEN block' = Coming(Left) /\ UNCHANGED field
       ELSE field' = field \o Coming(Left) /\ UNCHANGED block
    /\ desc' = Described(Left)
    /\ UNCHANGED <<caller, state, flg, max, size, raw, written, err>>

Suspend ==
    /\ pc = "in" /\ Short
    /\ cp' = end /\ pc' = "out"
    /\ IF state = "BLOCK_DATA" THEN block' = block \o Coming(Left) /\ UNCHANGED field
       ELSE field' = field \o Coming(Left) /\ UNCHANGED block
    /\ desc' = Described(Left)
    /\ UNCHANGED <<caller, state, flg, max, size, raw, written, err>>

Poison(e) == err' = e /\ pc' = "out" /\ UNCHANGED state

GoTo(s) == state' = s /\ field' = <<>> /\ UNCHANGED <<err, pc>>

ReadMagic ==
    /\ In("MAGIC")
    /\ IF Whole # Magic THEN Poison("CORRUPT_DATA") /\ UNCHANGED field ELSE GoTo("FLG")
    /\ UNCHANGED <<caller, flg, desc, reading, written>>

ReadFlg ==
    /\ In("FLG")
    /\ IF FlgFault(Whole[1]) # "none"
         THEN Poison(FlgFault(Whole[1])) /\ UNCHANGED <<flg, desc, field>>
         ELSE GoTo("BD") /\ flg' = Whole[1] /\ desc' = desc \o Whole
    /\ UNCHANGED <<caller, reading, written>>

\* _ldec_after_bd: which optional field comes next.
AfterBd(done) ==
    IF HasContentSize(flg) /\ "size" \notin done THEN "CONTENT_SIZE"
    ELSE IF HasDictId(flg) /\ "dict" \notin done THEN "DICT_ID" ELSE "HC"

\* The block buffer grows to what the frame declares, if there is memory.
ReadBd ==
    /\ In("BD")
    /\ LET b == Whole[1]
       IN  \/ /\ BdFault(b) # "none"
              /\ Poison("CORRUPT_DATA") /\ UNCHANGED <<field, max>>
              /\ desc' = IF b >= 128 \/ b % 16 # 0 THEN desc ELSE desc \o Whole
           \/ /\ BdFault(b) = "none"
              /\ GoTo(AfterBd({}))
              /\ max' = IF BlockMax(b \div 16) > max THEN BlockMax(b \div 16) ELSE max
              /\ desc' = desc \o Whole
           \/ /\ BdFault(b) = "none" /\ BlockMax(b \div 16) > max
              /\ Poison("BUFFER_TOO_SMALL") /\ UNCHANGED <<field, max>>
              /\ desc' = desc \o Whole
    /\ UNCHANGED <<caller, flg, block, size, raw, written>>

ReadContentSize ==
    /\ In("CONTENT_SIZE")
    /\ GoTo(AfterBd({"size"}))
    /\ desc' = Described(Missing)
    /\ UNCHANGED <<caller, flg, reading, written>>

ReadDictId ==
    /\ In("DICT_ID")
    /\ GoTo(AfterBd({"size", "dict"}))
    /\ desc' = Described(Missing)
    /\ UNCHANGED <<caller, flg, reading, written>>

ReadHc ==
    /\ In("HC")
    /\ IF HeaderSum(desc) # Whole[1]
         THEN Poison("CHECKSUM_MISMATCH") /\ UNCHANGED field ELSE GoTo("BLOCK_SIZE")
    /\ UNCHANGED <<caller, flg, desc, reading, written>>

\* The content size is bytes 3 to 10 of the descriptor.
SizeHolds == HasContentSize(flg) => SubSeq(desc, 3, 10) = Little(Len(out)) \o EndMark

\* The write that reads the end mark of a frame without a content checksum ends.
ReadEndMark ==
    /\ In("BLOCK_SIZE") /\ Whole = EndMark
    /\ IF ~SizeHolds THEN Poison("CORRUPT_DATA") /\ UNCHANGED field
       ELSE IF HasContentSum(flg) THEN GoTo("CONTENT_CHECKSUM")
       ELSE state' = "DONE" /\ field' = <<>> /\ pc' = "out" /\ UNCHANGED err
    /\ UNCHANGED <<caller, flg, desc, reading, written>>

\* Mutant of TooLarge: a block stored raw may be of any size.
PackedTooLarge == ~IsRaw(Whole) /\ SizeOf(Whole) > max

TooLarge == SizeOf(Whole) > max

ReadBlockSize ==
    /\ In("BLOCK_SIZE") /\ Whole # EndMark
    /\ IF TooLarge THEN Poison("CORRUPT_DATA") /\ UNCHANGED <<field, reading>>
       ELSE /\ GoTo("BLOCK_DATA")
            /\ size' = SizeOf(Whole) /\ raw' = IsRaw(Whole) /\ block' = <<>>
            /\ UNCHANGED max
    /\ UNCHANGED <<caller, flg, desc, written>>

\* Mutant of HistoryFloor: blocks of any frame may match into earlier ones.
HistoryAlways == 0

\* How far back a match of this block may reach.
HistoryFloor == IF Linked(flg) THEN 0 ELSE Len(out)

\* What a block stands for behind the output so far.
Decoded(data) ==
    IF raw THEN [err |-> Overflow(Len(out) + size, room, MaxOutput, "OUTPUT_LIMIT"),
                 out |-> out \o data]
    ELSE DecBlock(data, out, HistoryFloor, room, Len(out) + max, "CORRUPT_DATA")

\* _ldec_emit_block.
EmitDecoded(data) ==
    LET d == Decoded(data)
    IN  IF d.err # "none" THEN Poison(d.err) /\ UNCHANGED <<field, written>>
        ELSE /\ GoTo("BLOCK_SIZE")
             /\ out' = d.out
             /\ folded' = IF HasContentSum(flg)
                            THEN folded \o SubSeq(d.out, Len(out) + 1, Len(d.out)) ELSE folded

ReadBlockData ==
    /\ In("BLOCK_DATA")
    /\ block' = block \o Coming(Missing)
    /\ IF HasBlockSums(flg) THEN GoTo("BLOCK_CHECKSUM") /\ UNCHANGED written
       ELSE EmitDecoded(block')
    /\ UNCHANGED <<caller, flg, desc, max, size, raw>>

ReadBlockChecksum ==
    /\ In("BLOCK_CHECKSUM")
    /\ IF Whole # Checksum(block)
         THEN Poison("CHECKSUM_MISMATCH") /\ UNCHANGED <<field, written>>
         ELSE EmitDecoded(block)
    /\ UNCHANGED <<caller, flg, desc, reading>>

ReadContentChecksum ==
    /\ In("CONTENT_CHECKSUM")
    /\ IF Whole # Checksum(folded) THEN Poison("CHECKSUM_MISMATCH") /\ UNCHANGED field
       ELSE state' = "DONE" /\ field' = <<>> /\ pc' = "out" /\ UNCHANGED err
    /\ UNCHANGED <<caller, flg, desc, reading, written>>

DecStep ==
    \/ Suspend
    \/ ReadMagic \/ ReadFlg \/ ReadBd \/ ReadContentSize \/ ReadDictId \/ ReadHc
    \/ ReadEndMark \/ ReadBlockSize \/ ReadBlockData \/ ReadBlockChecksum
    \/ ReadContentChecksum

DecNext ==
    \/ \E n \in 1 .. Len(frame) : DecWrite(n)
    \/ DecMisuse
    \/ DecStep
    \/ DecFinish

-----------------------------------------------------------------------------
(* Properties.                                                             *)

States == (DOMAIN FieldSize) \cup {"BLOCK_DATA", "DONE", "CLOSED"}

\* The two buffers of the context are never outgrown: 16 bytes for the descriptor
\* (lz4.cyr:616 counts on 14), block_max for a block, whatever the frame declares
\* and however it is cut.
BuffersHold == Len(desc) <= 14 /\ Len(block) <= max

\* The frame as far as it was handed over.
Received == SubSeq(frame, 1, end)

\* What only the streaming decoder refuses: raw blocks beyond the ceiling, and a
\* frame whose blocks it has no memory for.
OnlyHere(v) == \/ v = "OUTPUT_LIMIT" /\ raw
               \/ v = "BUFFER_TOO_SMALL" /\ state = "BD"

\* What both refuse, but for a different reason: less than the shortest frame,
\* and a block that has a checksum, which the batch decoder decodes before it
\* looks at the checksum.
Otherwise == end < 11 \/ HasBlockSums(flg)

Agree(v, b) ==
    IF v = "ok" THEN b = [err |-> "none", out |-> out]
    ELSE b.err = v \/ OnlyHere(v) \/ (Otherwise /\ b.err # "none")

\* However a frame is cut into chunks and wherever it ends, lz4f_dec_finish says
\* of it what lz4f_decompress says of the bytes handed over, with the same output.
SaysWhatBatchSays ==
    [][verdict' # verdict /\ err # "INVALID_INPUT" =>
         Agree(verdict', Unframe(Received, room))]_decVars
=============================================================================
