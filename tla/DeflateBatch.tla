---------------------------- MODULE DeflateBatch ----------------------------
(***************************************************************************)
(* The batch DEFLATE encoder of src/src/deflate.cyr, deflate_compress_level *)
(* and what it calls, as a function from the input to the items written.   *)
(* It cuts the input into chunks of BlockSize, but matches look into the   *)
(* whole input, so that the last match of a chunk may go past its end: the *)
(* next chunk begins where the encoder stopped.                            *)
(***************************************************************************)
EXTENDS DeflateEnc

CONSTANT BlockSize   \* DEFLATE_BLOCK_SIZE

ASSUME DeflateBatchAssumption == BlockSize \in Nat \ {0}

-----------------------------------------------------------------------------
(* The fixed path.  "held" is a match found one byte back and not yet      *)
(* written, because a longer one may begin here (levels 2 and 3).          *)

Steps ==
    {s \in [sp : Nat, table : HashTables, items : Seq(Items),
            held : {NoMatch} \cup [len : MinMatch .. MaxMatch, dist : 1 .. Window]] :
        s.held # NoMatch => s.sp > 0}

At(sp, t) == [sp |-> sp, table |-> t, held |-> NoMatch, items |-> <<>>]

\* One turn of the loop, with m the match found at s.sp and t the table that
\* has s.sp in it.
Turned(src, lazy, s, m, t) ==
    CASE s.held # NoMatch /\ m.len > s.held.len ->
            [s EXCEPT !.sp = @ + 1, !.table = t, !.held = m,
                      !.items = Append(@, Literal(src[s.sp]))]
      [] s.held # NoMatch /\ m.len <= s.held.len ->
            LET past == s.sp - 1 + s.held.len
            IN  [sp |-> past, table |-> InsertAll(t, src, s.sp, past), held |-> NoMatch,
                 items |-> Append(s.items, Copy(s.held))]
      [] s.held = NoMatch /\ m.len > 0 /\ lazy ->
            [s EXCEPT !.sp = @ + 1, !.table = t, !.held = m]
      [] s.held = NoMatch /\ m.len > 0 /\ ~lazy ->
            [s EXCEPT !.sp = @ + m.len, !.table = InsertAll(t, src, s.sp + 1, s.sp + m.len),
                      !.items = Append(@, Copy(m))]
      [] OTHER ->
            [s EXCEPT !.sp = @ + 1, !.table = t, !.items = Append(@, Literal(src[s.sp + 1]))]

Turn(src, lazy, s) ==
    Turned(src, lazy, s, FindMatch(s.table, src, s.sp), InsertAll(s.table, src, s.sp, s.sp + 1))

\* A match still held at the end began one byte back.
Settled(s) == IF s.held = NoMatch THEN s
              ELSE [s EXCEPT !.sp = @ - 1 + s.held.len, !.items = Append(@, Copy(s.held))]

Bracketed(s, final) == [s EXCEPT !.items = <<Block(final, "coded")>> \o @ \o <<Eob>>]

FixedChunk(src, s, end, final, lazy) ==
    LET from[u \in Steps] == IF u.sp >= end THEN u ELSE from[Turn(src, lazy, u)]
    IN  Bracketed(Settled(from[s]), final)

-----------------------------------------------------------------------------
(* The dynamic path: a block whenever the buffer is nearly full.           *)

SubBlock(src, s, end) ==
    LET from[u \in Steps] ==
            IF u.sp >= end \/ SlotsOf(u.items) >= SymMax - 3 THEN u
            ELSE from[Turn(src, FALSE, u)]
    IN  from[s]

DynamicChunk(src, s, end, final) ==
    LET from[d \in [block : Steps, written : Seq(Items)]] ==
            LET u == d.block
                all(last) == d.written \o Bracketed(u, last).items
            IN  IF u.sp >= end THEN [u EXCEPT !.items = all(final)]
                ELSE from[[block |-> SubBlock(src, At(u.sp, u.table), end), written |-> all(FALSE)]]
    IN  from[[block |-> SubBlock(src, s, end), written |-> <<>>]]

-----------------------------------------------------------------------------
(* _deflate_compress_level_inner.                                          *)

Chunk(src, s, final, dynamic, lazy) ==
    LET end == Min({s.sp + BlockSize, Len(src)})
    IN  IF dynamic THEN DynamicChunk(src, s, end, final)
                   ELSE FixedChunk(src, s, end, final, lazy)

\* Mutants: the next chunk begins where this one was to end; no block is added
\* when a match of the last chunk but one reached the end of the input.
ResumeAtEnd(src, sp, reached) == Min({sp + BlockSize, Len(src)})
NothingMissing(sp)            == <<>>

Resume(src, sp, reached) == reached

\* The empty final block.
Missing(sp) == <<Block(TRUE, "coded"), Eob>>

BatchItems(src, dynamic, lazy) ==
    LET from[s \in Steps] ==
            LET last  == s.sp + BlockSize >= Len(src)
                chunk == Chunk(src, At(s.sp, s.table), last, dynamic, lazy)
                all   == s.items \o chunk.items
            IN  IF s.sp >= Len(src) /\ s.sp # 0 THEN s.items \o Missing(s.sp)
                ELSE IF last THEN all
                ELSE from[[At(Resume(src, s.sp, chunk.sp), chunk.table) EXCEPT !.items = all]]
    IN  from[At(0, Cleared)]

-----------------------------------------------------------------------------
(* Property.                                                               *)

Decodes(items, src) ==
    LET r == Read(Start(<<>>), items)
    IN  r.ok /\ r.done /\ r.plain = src

\* Every byte is encoded once and the last block is marked as such, wherever
\* the chunks are cut and however far a match goes past the cut, on the greedy,
\* the lazy and the dynamic path.  (Said of the job before it is begun.)
BatchIsFaithful ==
    pc = "out" /\ sent = 0 /\ flushes = 0 =>
        \A lazy \in BOOLEAN, dynamic \in BOOLEAN :
            Decodes(BatchItems(job.bytes, dynamic, lazy), job.bytes)
=============================================================================
