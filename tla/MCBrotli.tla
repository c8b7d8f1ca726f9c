------------------------------ MODULE MCBrotli -------------------------------
(* Brotli on the corpus, and what the oracle, the writer and the wrong readings *)
(* of RFC 7932 say of each stream.                                              *)
EXTENDS Brotli

M == INSTANCE BrotliCorpus

\* A code whose long words share second levels of one to seven bits: 65 words of
\* nine bits, 65 of ten, one each of eleven to fourteen, two of fifteen.
DeepLens == (97 :> 1) @@ (98 :> 2) @@ [s \in 0 .. 63 |-> 9] @@ [s \in 128 .. 191 |-> 10]
              @@ [s \in 200 .. 210 |-> s - 195] @@ (211 :> 15)
Deep == M!Stream("deep", M!Lits(<<97, 98, 0, 63, 128, 191>> \o [i \in 1 .. 12 |-> 199 + i],
                     [M!Simple(16) EXCEPT !.litStyle = [M!Plain EXCEPT !.lens = DeepLens, !.rle = TRUE]]), {})

Streams == {M!bad_wbits_largewin_marker, M!bad_trailing_padding_bits, M!bad_no_last_block, Deep}
             \cup {M!empty_wbits(w) : w \in {10, 16, 17, 18, 24}}
             \cup M!MetadataStreams \cup M!UncompressedStreams \cup M!CodeStreams \cup M!ContextStreams
             \cup M!DistanceStreams \cup M!LengthStreams \cup M!DictionaryStreams \cup M!SwitchStreams
             \cup M!Nsym1Streams \cup M!RingStreams \cup M!ImtfStreams

\* The calls: a stream whole or changed, and the room it is given.
Whole(s, cap)        == [data |-> s.data, cap |-> cap, max |-> 0, capped |-> FALSE, intact |-> TRUE]
Capped(s, cap, max)  == [Whole(s, cap) EXCEPT !.capped = TRUE, !.max = max]

Given(s, how, k) ==
    CASE how = "exact"   -> Whole(s, IF s.bad THEN 900 ELSE Len(s.text))
      [] how = "capped"  -> Capped(s, Len(s.text) + 8, Len(s.text))
      [] how = "tight"   -> Whole(s, Len(s.text) - 1)
      [] how = "limit"   -> Capped(s, Len(s.text) - 1, Len(s.text) - 2)
      [] how = "clamped" -> Capped(s, Len(s.text) - 1, Len(s.text) + 8)
      [] how = "adrift"  -> [Whole(s, 900) EXCEPT !.intact = FALSE]
      [] how = "cut"     -> [Whole(s, 900) EXCEPT !.data = SubSeq(@, 1, 8 * k)]
      [] how = "flip"    -> [Whole(s, 900) EXCEPT !.data = M!flipped(@, k)]

Changes(s) ==
    LET n == Len(s.data)
        Short == ~s.bad /\ n <= 264
        Asked(names) == s.name \in names
    IN  {<<"exact", 0>>}
        \cup (IF Short /\ s.text # <<>> THEN {<<"tight", 0>>, <<"limit", 0>>, <<"clamped", 0>>} ELSE {})
        \cup (IF Len(s.text) > 1000 THEN {<<"capped", 0>>} ELSE {})
        \cup (IF Asked({"dict_ring_short_code_6", "dict_transform_120_valid"}) THEN {<<"adrift", 0>>} ELSE {})
        \cup (IF Short /\ n <= 136 THEN {<<"cut", k>> : k \in 0 .. n \div 8 - 1} ELSE {})
        \cup (IF Asked({"bswitch_i3_code0_first", "cmap_rle_imtf_valid"})
                THEN {<<"cut", 4 * k>> : k \in 1 .. n \div 32 - 1} ELSE {})
        \cup (IF Asked({"complex_rle_16_17"}) THEN {<<"flip", 2 * k>> : k \in 1 .. n \div 2} ELSE {})

\* With what the reference decoder says of the bits, and the wrong readings that
\* read them the same.
MCJobs ==
    LET Judged(s, c) == [how     |-> c[1],
                         good    |-> ~s.bad,
                         text    |-> s.text,
                         ref     |-> M!ref(Given(s, c[1], c[2]).data),
                         survive |-> IF c[1] = "exact" THEN s.kills \ M!mutant_kills(s.data, s.kills) ELSE {}]
                        @@ Given(s, c[1], c[2])
    IN  UNION {{Judged(s, c) : c \in Changes(s)} : s \in Streams}

-----------------------------------------------------------------------------
Returned  == pc = "done"
OwnErrors == {"ERR_OUTPUT_LIMIT", "ERR_BUFFER_TOO_SMALL", "ERR_INVALID_INPUT", "ERR_OOM",
              "ERR_CHECKSUM_MISMATCH"}

\* An independent reading of RFC 7932 gives the same bytes, or rejects the stream
\* with the same class of error (brotli-manifest.py, REASONS), whatever bit is
\* wrong in it.
AgreesWithOracle ==
    /\ Returned /\ verdict \notin OwnErrors => verdict = job.ref.expect
    /\ verdict = "ok" => out = job.ref.out

\* What the writer of the corpus played is what comes out, given just the room for
\* it, and a stream that is there to tell a wrong reading of the RFC apart does
\* (check_kills).
CorpusHolds ==
    Returned /\ job.good /\ (job.how = "capped" \/ (job.how = "exact" /\ Len(job.text) <= MAX_OUTPUT))
        => verdict = "ERR_OOM" \/ (verdict = "ok" /\ out = job.text /\ job.survive = {})

\* "a prefix of any valid stream therefore fails exactly with ERR_CORRUPT_DATA
\* (never a truncated success, never an invented byte)"; the slab may be missing.
TruncationIsCorrupt ==
    Returned /\ job.how = "cut" /\ job.data # <<>> => verdict \in {"ERR_CORRUPT_DATA", "ERR_OOM"}

\* Nothing is written past either bound, whatever the block writes, because MLEN is
\* tested once against both; and a good stream without room fails with the tighter
\* one, so that a caller who grows dst on ERR_BUFFER_TOO_SMALL does not retry in vain.
WithinBounds ==
    LET n == Len(job.ref.out)
    IN  /\ pc \notin {"call", "wbits"} => Len(out) + Owed <= omax /\ Len(out) + Owed <= job.cap
        /\ Returned /\ job.ref.expect = "ok" /\ verdict \in {"ERR_OUTPUT_LIMIT", "ERR_BUFFER_TOO_SMALL"}
             => IF omax < job.cap THEN verdict = "ERR_OUTPUT_LIMIT" /\ n > omax
                ELSE verdict = "ERR_BUFFER_TOO_SMALL" /\ n > job.cap

\* What the header leaves can be looked up by any bits. _brd_build fills every entry
\* of the table it opened, each once, so that no lookup meets an entry left from
\* another code; the types and trees a symbol is looked up by exist ("Entries are
\* < NTREES by construction").
LookupsHit ==
    /\ pc = "built" => code.table.written = code.table.used
    /\ \A c \in DOMAIN cat : cat[c].type < cat[c].n
    /\ pc = "tree" => \A k \in {1, 2} : \A i \in DOMAIN hdr.maps[k] : hdr.maps[k][i] < hdr.ntrees[k]
=============================================================================
