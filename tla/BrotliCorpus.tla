---------------------------- MODULE BrotliCorpus ----------------------------
(***************************************************************************)
(* Streams of the crafted set of scripts/brotli-craft.py, the texts cut    *)
(* short: what each exercises stays.  A stream is [name, data, text,       *)
(* kills]: its bits, the text its writer played, and the wrong readings it *)
(* must tell apart.  The names of streams to be rejected begin with bad.   *)
(***************************************************************************)
EXTENDS BrotliCraft

Stream(name, w, kills) ==
    [name |-> name, bad |-> FALSE, data |-> ToBytes(w.bits, 0), text |-> w.out, kills |-> kills]
Bad(name, bits) ==
    [name |-> name, bad |-> TRUE, data |-> bits, text |-> <<>>, kills |-> {}]

\* A text over an alphabet; which one does not matter.
Text(n, seed, alphabet) ==
    [i \in 1 .. n |-> alphabet[((seed * i + (i * i) \div 3) % Len(alphabet)) + 1]]

Letters == <<97, 98, 99, 100, 101>>
Typical == <<32, 101, 116, 97, 111, 105, 110, 115, 104>>

\* The first n bytes of a stream, and n zero bytes after one.
Cut(bits, n)    == SubSeq(bits, 1, 8 * n)
Longer(bits, n) == ToBytes(bits, 0) \o Zeros(8 * n)

-----------------------------------------------------------------------------
(* Framing, metadata, uncompressed meta-blocks.                            *)

empty_wbits(wb) == Stream("empty_wbits", mb_last_empty(Start(wb)), {})

bad_wbits_largewin_marker ==
    Bad("bad_wbits_largewin_marker",
        LET w == [Start(16) EXCEPT !.bits = w_wbits(LARGE_WIN) \o W(0, 1) \o W(16, 6)]
        IN  ToBytes(mb_last_empty(mb_uncompressed(w, <<76, 87>>, 4, 0)).bits, 0))

bad_trailing_padding_bits ==
    Bad("bad_trailing_padding_bits", ToBytes(mb_last_empty(Start(16)).bits, 1))

bad_no_last_block ==
    Bad("bad_no_last_block", ToBytes(mb_uncompressed(Start(16), <<97, 98, 99>>, 4, 0).bits, 0))

Metadata(payload) == [reserved |-> 0, nbytes |-> SkipBytes(Len(payload)), fill |-> 0]

\* A metadata block of this payload and these oddities, ended by an empty block.
bad_metadata(name, payload, opt) ==
    Bad(name, ToBytes(mb_last_empty(mb_metadata(Start(16), payload, FALSE, opt)).bits, 0))

MetadataStreams ==
    LET Skip(w, payload, islast) == mb_metadata(w, payload, islast, Metadata(payload))
        Copy(w, data) == mb_uncompressed(w, data, 4, 0)
        long == [i \in 1 .. 260 |-> i % 256]
        tail == <<116, 97>>
    IN  {Stream("metadata_1byte_then_empty",
                mb_last_empty(Skip(Start(16), <<222, 173, 190, 239, 0>>, FALSE)), {}),
         Stream("metadata_empty_then_data",
                mb_last_empty(Copy(Skip(Start(22), <<>>, FALSE), <<120, 121, 122>>)), {}),
         Stream("metadata_2byte_len_260",
                mb_last_empty(Copy(Skip(Copy(Start(16), <<97, 98>>), long, FALSE), <<99, 100>>)), {}),
         Stream("metadata_is_last", Skip(Copy(Start(16), <<81>>), tail, TRUE), {}),
         bad_metadata("bad_metadata_reserved_bit", <<120>>,
                      [reserved |-> 1, nbytes |-> 1, fill |-> 0]),
         bad_metadata("bad_metadata_exuberant_byte", <<120, 120, 120, 120, 120>>,
                      [reserved |-> 0, nbytes |-> 2, fill |-> 0]),
         bad_metadata("bad_metadata_padding", <<120>>, [reserved |-> 0, nbytes |-> 1, fill |-> 1]),
         Bad("bad_metadata_truncated",
             Cut(Skip(Start(16), [i \in 1 .. 20 |-> 120], FALSE).bits, 12))}

uncompressed_then_empty ==
    Stream("uncompressed_then_empty",
           mb_last_empty(mb_uncompressed(Start(10), <<72, 101, 108, 108, 111>>, 4, 0)), {})

\* Odd headers of an uncompressed block, then an empty block.
bad_uncompressed(name, nibbles, fill) ==
    Bad(name, ToBytes(mb_last_empty(mb_uncompressed(Start(16), <<97, 98, 99>>, nibbles, fill)).bits, 0))

UncompressedStreams ==
    {uncompressed_then_empty,
     bad_uncompressed("bad_uncompressed_padding", 4, 1),
     bad_uncompressed("bad_exuberant_nibble_mlen", 5, 0),
     Bad("bad_uncompressed_truncated",
         Cut(mb_uncompressed(Start(16), [i \in 1 .. 20 |-> 122], 4, 0).bits, 12))}

-----------------------------------------------------------------------------
(* Prefix codes.                                                           *)

One(wbits, cmds, opt) == mb_compressed(Start(wbits), cmds, TRUE, opt, <<>>, 0)
Lits(text, opt)       == One(opt.wbits, <<End(text)>>, opt)

simple_lit(name, n, tsel, order) ==
    Stream(name, Lits([i \in 1 .. 10 |-> 65 + ((7 * i + i \div 3) % n)],
                      [Simple(16) EXCEPT !.litStyle = [Plain EXCEPT !.tsel = tsel, !.order = order]]), {})

\* The header of a last compressed block, up to its literal code.
OneTreeHeader(wbits, mlen) ==
    w_wbits(wbits) \o LastBits(TRUE) \o w_mlen(mlen, 4)
    \o Joined(Times(3, w_var256(1))) \o W(0, 2) \o W(0, 4) \o W(0, 2) \o w_var256(1) \o w_var256(1)

bad_simple_duplicate_symbol ==
    Bad("bad_simple_duplicate_symbol",
        Longer(OneTreeHeader(16, 4) \o w_simple(<<65, 65>>, 256, 0).bits, 8))

bad_simple_symbol_ge_alphabet ==
    Bad("bad_simple_symbol_ge_alphabet",
        Longer(OneTreeHeader(16, 4) \o w_simple(<<65>>, 256, 0).bits
               \o w_simple(<<1000>>, 704, 0).bits, 8))

complex_block(name, codeBits) == Bad(name, Longer(OneTreeHeader(16, 12) \o codeBits, 16))

Lens(lens) == w_complex(lens, 256, [Plain EXCEPT !.toEnd = TRUE, !.rle = TRUE]).bits

bad_clc(name, clc) ==
    complex_block(name, w_complex(97 :> 1 @@ 98 :> 1, 256, [Plain EXCEPT !.clc = clc]).bits)

\* 250 lengths of zero, then a run of ten of them in an alphabet of 256.
bad_clc_repeat_past_alphabet ==
    LET clc == 0 :> 1 @@ 17 :> 1
        tab == canonical(clc)
    IN  complex_block("bad_clc_repeat_past_alphabet",
                      W(0, 2) \o ClcBits(clc, 1, 32)
                      \o Items(tab, rle_zeros(249) \o << <<0, 0, 0>>, <<17, 7, 3>> >>))

CodeStreams ==
    LET three == <<67, 65, 66>>
        many  == [s \in 90 .. 105 |-> 4]
        all   == [s \in 0 .. 255 |-> 8]
        text  == Text(12, 3, <<97, 98, 99, 100, 101>>)
    IN  {simple_lit("simple_nsym1_literal", 1, 0, <<>>), simple_lit("simple_nsym2_literal", 2, 0, <<>>),
         simple_lit("simple_nsym3_literal", 3, 0, three),
         simple_lit("simple_nsym4_tsel0", 4, 0, <<68, 66, 65, 67>>),
         simple_lit("simple_nsym4_tsel1", 4, 1, <<66, 68, 67, 65>>),
         bad_simple_duplicate_symbol, bad_simple_symbol_ge_alphabet,
         Stream("complex_balanced_literals", Lits(Text(20, 3, Typical), Simple(16)), {}),
         Stream("complex_rle_16_17",
                Lits(text, [Simple(18) EXCEPT !.litStyle = [Plain EXCEPT !.lens = many, !.rle = TRUE]]), {}),
         Stream("complex_hskip3_and_single_clc",
                Lits(text, [Simple(16) EXCEPT !.litStyle = [Plain EXCEPT !.lens = all, !.hskip = 3]]), {}),
         complex_block("bad_complex_oversubscribed", Lens(97 :> 1 @@ 98 :> 2 @@ 99 :> 1)),
         complex_block("bad_complex_incomplete", Lens(97 :> 1 @@ 98 :> 2)),
         complex_block("bad_complex_single_symbol", Lens(97 :> 1)),
         bad_clc("bad_clc_oversubscribed", 1 :> 2 @@ 2 :> 1 @@ 3 :> 1),
         bad_clc("bad_clc_incomplete", 1 :> 2 @@ 0 :> 2),
         bad_clc_repeat_past_alphabet}

-----------------------------------------------------------------------------
(* Context modes and maps.                                                 *)

Mixed == <<66, 114, 111, 32, 48, 57, 195, 169, 226, 130, 172, 10, 45, 43, 90>>

ctx_vec(name, mode) ==
    Stream(name, Lits(Text(30, 11, Mixed),
                      [Simple(16) EXCEPT !.cmodes = <<mode>>, !.ntreesL = 3,
                                         !.mapL = [c \in 1 .. 64 |-> (5 * (c - 1) + (c - 1) \div 7) % 3]]), {})

\* A block whose context map is written by hand.
bad_cmap(name, ntrees, bits) ==
    Bad(name, Longer(mb_compressed(Start(16), <<End(Text(8, 3, Letters))>>, TRUE,
                                   [Simple(16) EXCEPT !.ntreesL = ntrees], bits, 0).bits, 8))

\* Runs of zeros and the move-to-front of four trees.
cmap_rle_imtf_valid ==
    LET target == Zeros(20) \o Times(12, 1) \o [i \in 1 .. 16 |-> 2 + ((i - 1) % 2)] \o Zeros(16)
    IN  Stream("cmap_rle_imtf_valid",
               mb_blocks(Start(16), <<End(Text(30, 5, Mixed))>>, TRUE,
                         [Simple(16) EXCEPT !.ntreesL = 4, !.mapL = target, !.fmtL = <<3, TRUE>>]), {})

ContextStreams ==
    LET out  == w_simple(<<0, 3>>, 3, 0).bits
        run  == w_simple(<<0, 1, 2>>, 3, 0)
        past == W(1, 1) \o W(0, 4) \o run.bits \o Joined(Times(62, run.tab[0]))
                \o run.tab[1] \o W(1, 1) \o W(0, 1)
    IN  {ctx_vec("ctxmode_lsb6_3trees", 0), ctx_vec("ctxmode_msb6_3trees", 1),
         ctx_vec("ctxmode_utf8_3trees", 2), ctx_vec("ctxmode_signed_3trees", 3),
         bad_cmap("bad_cmap_tree_index_out_of_range", 3, W(0, 1) \o out),
         bad_cmap("bad_cmap_rle_past_end", 2, past),
         cmap_rle_imtf_valid}

-----------------------------------------------------------------------------
(* Distances and lengths.                                                  *)

\* A compressed last block that is to be rejected, with the MLEN it claims.
bad_block(name, wbits, cmds, mlen) ==
    Bad(name, Longer(mb_compressed(Start(wbits), cmds, TRUE, Simple(wbits), <<>>, mlen).bits, 4))

distance_short_codes_all16 ==
    LET far   == <<Lz(Text(40, 9, Typical), 5, 10), Lz(<<>>, 6, 20), Lz(<<120>>, 7, 30), Lz(<<121>>, 8, 38)>>
        codes == [i \in 1 .. 16 |-> Short(<<45>>, 4 + ((i - 1) % 5), i - 1)]
    IN  Stream("distance_short_codes_all16",
               One(16, far \o codes \o <<Again(<<122>>, 9), Again(<<>>, 12), End(<<33>>)>>, Simple(16)), {})

npostfix_ndirect(name, np, nd) ==
    LET dists == <<1, 2, 7, nd - 1, nd, nd + 1, nd + 2, nd + 7, 40, 150>>
        cmds  == [i \in DOMAIN dists |-> Lz(<<64 + i>>, 2 + i, dists[i])]
    IN  Stream(name, One(16, <<Lz(Text(30, 13, Typical), 140, 30)>> \o cmds \o <<End(<<46>>)>>,
                         [Simple(16) EXCEPT !.npostfix = np, !.ndirect = nd]), {})

\* More than the 1,008 bytes of the smallest window.
WindowFull == Lz(Text(20, 17, Typical), 1080, 20)

window_edge_wbits10 ==
    Stream("window_edge_wbits10",
           One(10, <<WindowFull, Lz(<<>>, 10, 1008), Lz(<<>>, 10, 1009), End(<<35>>)>>, Simple(10)), {})

DistanceStreams ==
    {distance_short_codes_all16, window_edge_wbits10,
     npostfix_ndirect("npostfix1_ndirect30", 1, 30), npostfix_ndirect("npostfix2_ndirect60", 2, 60),
     npostfix_ndirect("npostfix3_ndirect120", 3, 120),
     bad_block("bad_distance_beyond_window_len3", 16, <<Lz(Letters, 3, 6)>>, 8),
     bad_block("bad_distance_beyond_window_len25", 16, <<Lz(Letters, 25, 6)>>, 30),
     bad_block("bad_distance_wbits10_1009_len3", 10, <<WindowFull, Lz(<<>>, 3, 1009)>>, 1103),
     bad_block("bad_distance_zero_short_code", 16,
               <<Lz(<<97, 98>>, 4, 1), Short(<<99>>, 4, 4), End(<<100>>)>>, 12)}

\* Raw, compressed, skipped and compressed again: copies and contexts span them.
multiblock_cross_references ==
    LET w0 == mb_uncompressed(Start(12), Text(50, 21, Typical), 4, 0)
        w1 == mb_compressed(w0, <<Lz(<<60, 60>>, 40, 45), End(<<62, 62>>)>>, FALSE,
                            [Simple(12) EXCEPT !.cmodes = <<2>>], <<>>, 0)
        w2 == mb_metadata(w1, <<109, 101>>, FALSE, Metadata(<<109, 101>>))
    IN  Stream("multiblock_cross_references",
               mb_compressed(w2, <<Short(<<>>, 30, 0), Lz(<<124>>, 16, 53), End(<<46>>)>>, TRUE,
                             [Simple(12) EXCEPT !.cmodes = <<1>>], <<>>, 0), {})

LengthStreams ==
    {multiblock_cross_references,
     bad_block("bad_insert_exceeds_mlen", 16, <<End(Text(8, 1, Letters))>>, 5),
     bad_block("bad_copy_exceeds_mlen", 16, <<Lz(Letters, 8, 1)>>, 10),
     bad_block("bad_dict_word_exceeds_mlen", 16, <<DictWord(<<>>, 4, 0, 0)>>, 3)}

-----------------------------------------------------------------------------
(* The static dictionary and its transforms.                               *)

dict(name, cmds) == Stream(name, One(16, cmds, Simple(16)), {})

\* The transforms of a type.
OfType(t) == {tid \in 0 .. 120 : TransformType[tid + 1] = t}

\* One transform of each type, on words of every length.
dict_all_transforms_all_lengths ==
    LET types == Sorted(Range(TransformType))
        Ref(t) == LET L == 4 + t
                  IN  DictWord(IF t % 4 = 0 THEN <<>> ELSE <<126>>, L,
                               CASE t % 3 = 0 -> 0 [] t % 3 = 1 -> 2 ^ NDBITS[L + 1] - 1
                                 [] OTHER -> 2 ^ (NDBITS[L + 1] - 1) + t, Max(OfType(t)))
    IN  dict("dict_all_121_transforms_all_lengths", [i \in DOMAIN types |-> Ref(types[i])])

\* Upper case of a two-byte character, and of one that the word's end cuts.
dict_uppercase_utf8_edges ==
    LET first == Min(OfType(10))
        bare  == Min({tid \in OfType(11) : TransformSuffix[tid + 1] = 49})
        tail  == Min({tid \in OfType(11) : TransformSuffix[tid + 1] # 49})
        refs  == << <<4, 3, first>>, <<6, 7, Max(OfType(10))>>, <<4, 3, bare>>, <<9, 2, bare>>,
                    <<4, 2, tail>>, <<5, 6, bare>> >>
    IN  dict("dict_uppercase_utf8_edges",
             [i \in DOMAIN refs |-> DictWord(<<91>>, refs[i][1], refs[i][2], refs[i][3])]
             \o <<End(<<93>>)>>)

\* The first word of a length as it is, the last under the last transform.
dict_word_bounds(L) ==
    dict("dict_word_bounds_all_lengths",
         <<DictWord(<<>>, L, 0, 0), DictWord(<<124>>, L, 2 ^ NDBITS[L + 1] - 1, 120), End(<<46>>)>>)

DictionaryStreams ==
    {dict_all_transforms_all_lengths, dict_uppercase_utf8_edges,
     dict("dict_transform_120_valid", <<DictWord(<<>>, 4, 0, 120)>>),
     bad_block("bad_dict_transform_121", 16, <<DictWord(<<>>, 4, 0, 121)>>, 20),
     bad_block("bad_dict_transform_121_len24", 16, <<DictWord(Letters, 24, 31, 121)>>, 60)}
    \cup {dict_word_bounds(L) : L \in {4, 10, 24}}

-----------------------------------------------------------------------------
(* The block-switching, command-loop and adversarial streams.  Those with  *)
(* kills are there to tell a wrong reading of RFC 7932 from the right one. *)

Plan(n, counts, codes) == [n |-> n, counts |-> counts, codes |-> codes]

Forced == [Plain EXCEPT !.complex = TRUE]

\* n literals, each from the alphabet of its block's type.
LitsFor(spec, n, alphabets) ==
    LET types == TypeSequence(spec, n)
    IN  [i \in 1 .. n |-> LET a == alphabets[types[i] + 1] IN a[(i % Len(a)) + 1]]

\* A map that gives type t one tree, the t-th, in each of its c contexts.
TreePerType(n, c) == [i \in 1 .. n * c |-> (i - 1) \div c]

\* Copies of the literals of a text in runs of step, then the rest of it.
RECURSIVE Chopped(_, _, _)
Chopped(text, step, k) ==
    IF Len(text) <= step THEN <<End(text)>>
    ELSE <<Lz(SubSeq(text, 1, step), 3 + (k % 5), 1 + (k % step))>>
         \o Chopped(SubSeq(text, step + 1, Len(text)), step, k + 1)

\* The first switch has code 0: the type before the first is 1.
bswitch_l3_code0_first ==
    LET L    == Plan(3, <<4, 3, 2, 5, 3, 30>>, <<0, 1, 1, 4, 0>>)
        lits == LitsFor(L, 19, <<Letters, <<88, 89, 90>>, <<48, 49, 50>> >>)
    IN  Stream("bswitch_l3_code0_first",
               mb_blocks(Start(16), Chopped(lits, 5, 0), TRUE,
                         [Simple(16) EXCEPT !.L = L, !.cmodes = <<0, 0, 0>>, !.ntreesL = 3,
                                            !.mapL = TreePerType(3, 64), !.fmtL = <<4, TRUE>>,
                                            !.litStyle = Forced]), {"M1"})

bswitch_i3_code0_first ==
    LET I     == Plan(3, <<2, 2, 1, 2, 6>>, <<0, 1, 1, 4>>)
        types == TypeSequence(I, 8)
        Cmd(k) == CASE k = 8        -> End(<<46>>)
                    [] types[k] = 0 -> Lz(<<43>>, 4 + (k % 2), 1 + k)
                    [] types[k] = 1 -> Lz(<<45, 42, 47>>, 6, 2 + k)
                    [] OTHER        -> Again(<<60, 61>>, 12)
    IN  Stream("bswitch_i3_code0_first",
               mb_blocks(Start(16), [k \in 1 .. 8 |-> IF k = 1 THEN Lz(Text(16, 5, Typical), 5, 7) ELSE Cmd(k)],
                         TRUE, [Simple(16) EXCEPT !.I = I]), {"M1"})

\* Distance trees picked by block type and copy length; implicit distances,
\* which belong to no block, in between.
bswitch_d3_dctx_implicit ==
    LET D == Plan(3, <<2, 1, 2, 2, 30>>, <<1, 0, 3, 1>>)
        Cmd(k) == IF k % 3 = 1 THEN Again(<<97>>, 3 + (k % 6)) ELSE Lz(<<98>>, 3 + (k % 4), 1 + 2 * k)
    IN  Stream("bswitch_d3_dctx_implicit",
               mb_blocks(Start(16), <<Lz(Text(30, 23, Typical), 6, 25)>> \o [k \in 1 .. 12 |-> Cmd(k)]
                                    \o <<End(<<36>>)>>, TRUE,
                         [Simple(16) EXCEPT !.D = D, !.ntreesD = 3, !.fmtD = <<1, TRUE>>,
                                            !.mapD = <<0, 1, 2, 1, 2, 0, 1, 0, 1, 2, 0, 2>>,
                                            !.distStyle = Forced]), {"E6977"})

\* Two types of literals whose contexts are taken under different modes.
cmode_mixed(name, modes) ==
    LET map(c) == IF c < 64 THEN (7 * c + c \div 8) % 2 ELSE 2 + ((5 * (c % 64) + (c % 64) \div 4) % 2)
    IN  Stream(name,
               mb_blocks(Start(16), Chopped(Text(40, 7, Mixed), 9, 1), TRUE,
                         [Simple(16) EXCEPT !.L = Plan(2, <<7, 9, 6, 40>>, <<1, 0, 1>>), !.cmodes = modes,
                                            !.ntreesL = 4, !.mapL = [i \in 1 .. 128 |-> map(i - 1)],
                                            !.fmtL = <<2, FALSE>>, !.litStyle = Forced]), {"M2"})

\* From a type with one tree to one whose contexts need the two bytes before,
\* in the middle of an insert.
bswitch_trivial_to_utf8_midinsert ==
    LET map(c) == IF c < 64 THEN 0 ELSE 1 + ((5 * (c % 64) + (c % 64) \div 4) % 2)
    IN  Stream("bswitch_trivial_to_utf8_midinsert",
               mb_blocks(Start(16), Chopped(Text(30, 11, Mixed), 12, 0), TRUE,
                         [Simple(16) EXCEPT !.L = Plan(2, <<7, 5, 6, 40>>, <<1, 1, 1>>), !.cmodes = <<0, 2>>,
                                            !.ntreesL = 3, !.mapL = [i \in 1 .. 128 |-> map(i - 1)],
                                            !.litStyle = Forced]), {})

\* Two blocks: the first ends on type 2 in every category, and the second
\* switches with codes 0 and 1.
bswitch_reset_per_metablock ==
    LET alphabets == << <<107, 108>>, <<75, 76>>, <<53, 54>> >>
        P(codes) == Plan(3, <<3, 2, 60>>, codes)
        block(w, codes, last) ==
            mb_blocks(w, Chopped(LitsFor(P(codes), 32, alphabets), 4, 0), last,
                      [Simple(16) EXCEPT !.L = P(codes), !.I = P(codes), !.D = P(codes),
                                         !.cmodes = <<0, 2, 0>>, !.ntreesL = 3, !.ntreesD = 3,
                                         !.mapL = TreePerType(3, 64), !.mapD = TreePerType(3, 4),
                                         !.fmtL = <<3, FALSE>>, !.fmtD = <<0, TRUE>>])
    IN  Stream("bswitch_reset_per_metablock",
               block(block(Start(16), <<1, 1>>, FALSE), <<0, 1>>, TRUE), {"M3"})

SwitchStreams ==
    {bswitch_l3_code0_first, bswitch_i3_code0_first, bswitch_d3_dctx_implicit,
     cmode_mixed("bswitch_cmode_mixed_lsb6_utf8", <<0, 2>>),
     cmode_mixed("bswitch_cmode_mixed_msb6_signed", <<1, 3>>),
     bswitch_trivial_to_utf8_midinsert, bswitch_reset_per_metablock}

-----------------------------------------------------------------------------
(* Codes of one symbol, which take no bits.                                *)

\* The header of a block of such codes, in the form that fills whole bytes.
nsym1_block(mlen, cmd, body) ==
    LET Header(wb, dsyms) == w_wbits(wb) \o SubSeq(OneTreeHeader(16, mlen), 2, Len(OneTreeHeader(16, mlen)))
                             \o w_simple(<<97>>, 256, 0).bits \o w_simple(<<cmd>>, 704, 0).bits
                             \o w_simple(dsyms, 64, 0).bits
        forms == {Header(wb, dsyms) : wb \in {16, 17, 18}, dsyms \in {<<0>>, <<0, 1>>, <<0, 1, 2>>}}
    IN  ToBytes((CHOOSE h \in forms : Len(h) % 8 = 0) \o body, 0)

\* Symbol 64 inserts nothing and copies 10 plus a bit; 56 inserts 8 plus a bit.
nsym1_cmd64_body ==
    LET twice == <<Again(<<>>, 10), Again(<<>>, 11)>>
        text  == Played([Simple(16) EXCEPT !.wbits = 16], Start(16), twice).sim
    IN  [name |-> "nsym1_cmd64_body", bad |-> FALSE, data |-> nsym1_block(21, 64, W(0, 1) \o W(1, 1)),
         text |-> text, kills |-> {}]

Nsym1Streams ==
    {nsym1_cmd64_body, Bad("trunc_nsym1_cmd64_body", nsym1_block(21, 64, <<>>)),
     Bad("trunc_nsym1_insert_extra_body", nsym1_block(5, 56, <<>>))}

-----------------------------------------------------------------------------
(* A word of the dictionary reached through a short distance code leaves   *)
(* the last distances as they are: copies read them back afterwards.       *)

dict_ring_short_codes ==
    Stream("dict_ring_short_codes",
           One(10, <<Short(<<>>, 4, 8), Short(<<>>, 5, 12), Short(<<>>, 4, 10), Short(<<>>, 4, 0),
                     Short(<<>>, 6, 1), Lz(<<>>, 1000, 3), Lz(<<>>, 4, 1008), Short(<<>>, 4, 5),
                     Short(<<>>, 6, 7), Short(<<>>, 8, 9), Short(<<>>, 5, 0), Lz(<<35>>, 4, 500),
                     Short(<<>>, 7, 11), Short(<<>>, 9, 13), Short(<<>>, 11, 15), Short(<<>>, 6, 1),
                     Short(<<>>, 4, 2), Short(<<>>, 5, 0), End(<<33>>)>>, Simple(10)), {"D1", "D2"})

dict_ring_short_code(name, codes) ==
    Stream(name,
           One(16, [i \in DOMAIN codes |-> Short(<<>>, 3 + i, codes[i])]
                   \o <<Short(<<>>, 8, 0), Short(<<>>, 5, 1), Short(<<>>, 6, 0), End(<<33>>)>>,
               Simple(16)), {"D1", "D2"})

RingStreams ==
    {dict_ring_short_codes, dict_ring_short_code("dict_ring_short_codes_4_14", <<4, 14>>),
     dict_ring_short_code("dict_ring_short_code_6", <<6>>)}

-----------------------------------------------------------------------------
(* Many trees, and a map that moves the whole list at every entry.         *)

\* n types and trees of literals (or of distances), each entry the last of them.
adv_imtf(name, n, literals, full) ==
    LET k(c)      == IF c = (IF literals THEN 0 ELSE 2) THEN n ELSE 1
        len       == len_code(16, BL)
        Types(c)  == w_var256(k(c))
                     \o (IF k(c) = 1 THEN <<>>
                         ELSE w_simple(<<2>>, n + 2, 0).bits \o w_simple(<<len[1]>>, 26, 0).bits
                              \o W(len[2], len[3]))
        Map(c)    == w_var256(k(c))
                     \o (IF k(c) = 1 THEN <<>>
                         ELSE W(0, 1) \o w_simple(<<n - 1>>, n, 0).bits \o W(1, 1))
        ins       == len_code(16, INS)
        cpy       == len_code(4, CPY)
        Repeat(m, bits) == Joined(Times(m, bits))
        header    == w_wbits(16) \o LastBits(TRUE) \o w_mlen(16, 4) \o Types(0) \o Types(1) \o Types(2)
                     \o W(0, 6) \o Repeat(k(0), W(0, 2))
        trees     == Repeat(k(0), w_simple(<<65>>, 256, 0).bits)
                     \o w_simple(<<cmd_symbol(ins[1], cpy[1], FALSE)>>, 704, 0).bits
                     \o Repeat(k(2), w_simple(<<0>>, 64, 0).bits)
                     \o W(ins[2], ins[3]) \o W(cpy[2], cpy[3])
    IN  IF full THEN [name |-> name, bad |-> FALSE, data |-> ToBytes(header \o Map(0) \o Map(2) \o trees, 0),
                      text |-> Times(16, 65), kills |-> {}]
        ELSE Bad(name, ToBytes(header \o Map(0), 0))

ImtfStreams ==
    {adv_imtf("adv_imtf_256_trunc", 4, TRUE, FALSE), adv_imtf("adv_imtf_256", 4, TRUE, TRUE),
     adv_imtf("adv_imtf_dist_256", 4, FALSE, TRUE)}

-----------------------------------------------------------------------------
(* What a stream must tell apart: check_kills.                             *)

check_kills(stream) ==
    LET base == Decode(stream.data, "none")
        Killed(m) == LET got == Decode(stream.data, m) IN got.reason # "" \/ got.out # base.out
    IN  base.reason = "" /\ \A m \in stream.kills : Killed(m)
-----------------------------------------------------------------------------
(* The verdicts scripts/brotli-manifest.py writes beside the corpus: the   *)
(* error class of each reason the reference decoder gives, and the wrong   *)
(* readings each stream tells apart.  Its second oracle, the brotli tool,  *)
(* is not part of the repository.                                          *)

REASONS ==
    [ERR_UNSUPPORTED_FORMAT |-> {"invalid WBITS"},
     ERR_INVALID_HUFFMAN    |-> {"simple prefix code symbol", "duplicate symbol in simple prefix code",
                                 "code-length code", "code-length repeat past alphabet", "prefix code "},
     ERR_MATCH_OUT_OF_RANGE |-> {"invalid distance", "invalid dictionary transform id", "distance "},
     ERR_CORRUPT_DATA       |-> {"truncated input", "reserved bit set", "exuberant", "non-zero padding bits",
                                 "trailing bytes", "context map RLE run past end", "insert length exceeds",
                                 "copy length exceeds", "dictionary word exceeds"}]

classify(reason) == CHOOSE err \in DOMAIN REASONS : reason \in REASONS[err]

STAGES == <<"frame", "codes", "cmds", "dict">>

\* Trailing bytes are a rejection too.
ref(data) ==
    LET d == Decode(data, "none")
    IN  CASE d.reason # ""  -> [expect |-> classify(d.reason), out |-> <<>>, needs |-> STAGES[d.phase]]
          [] d.trailing > 0 -> [expect |-> "ERR_CORRUPT_DATA", out |-> <<>>, needs |-> STAGES[d.phase]]
          [] OTHER          -> [expect |-> "ok", out |-> d.out, needs |-> STAGES[d.phase]]

\* The mutants whose verdict or output differs.
mutant_kills(data, mutants) ==
    LET base == ref(data)
        Same(m) == LET d == Decode(data, m)
                   IN  IF d.reason = "" THEN base.expect = "ok" /\ d.trailing = 0 /\ d.out = base.out
                       ELSE base.expect # "ok"
    IN  {m \in mutants : ~Same(m)}

\* flip_digests: the stream with one bit flipped.
flipped(data, i) == [data EXCEPT ![i] = 1 - @]
=============================================================================
