---------------------------- MODULE BrotliCraft -----------------------------
(***************************************************************************)
(* The bit writer and mini-encoder of scripts/brotli-craft.py, which makes *)
(* the crafted streams of the Brotli corpus.  Each w_ function is the bits *)
(* it appends; a meta-block is written onto [bits, out, ring]: the stream  *)
(* so far, the text it stands for and the last four distances.             *)
(***************************************************************************)
EXTENDS BrotliOracle

W(v, n) == [i \in 1 .. n |-> (v \div 2 ^ (i - 1)) % 2]

Pad(bits, fill) == bits \o [i \in 1 .. (8 - (Len(bits) % 8)) % 8 |-> fill]

ToBytes(bits, fill) == Pad(bits, fill)

LARGE_WIN == 99  \* the header RFC 7932 rejects

w_wbits(wb) ==
    CASE wb = LARGE_WIN -> W(1, 1) \o W(0, 3) \o W(1, 3)
      [] wb = 16        -> W(0, 1)
      [] wb \in 18 .. 24 -> W(1, 1) \o W(wb - 17, 3)
      [] wb = 17        -> W(1, 1) \o W(0, 6)
      [] OTHER          -> W(1, 1) \o W(0, 3) \o W(wb - 8, 3)

MlenNibbles(mlen) == IF BitLength(mlen - 1) <= 16 THEN 4 ELSE (BitLength(mlen - 1) + 3) \div 4

w_mlen(mlen, n) == W(n - 4, 2) \o W(mlen - 1, 4 * n)

Start(wbits) == [bits |-> w_wbits(wbits), out |-> <<>>, ring |-> FirstRing, wbits |-> wbits]

Wrote(w, bits) == [w EXCEPT !.bits = @ \o bits]

mb_last_empty(w) == Wrote(w, W(3, 2))

LastBits(islast) == IF islast THEN W(1, 2) ELSE W(0, 1)

SkipBytes(L) == IF L = 0 THEN 0 ELSE IF L = 1 THEN 1 ELSE (BitLength(L - 1) + 7) \div 8

\* opt: the header's reserved bit, its number of length bytes and the padding.
mb_metadata(w, payload, islast, opt) ==
    LET length == W(IF payload = <<>> THEN 0 ELSE Len(payload) - 1, 8 * opt.nbytes)
        head   == LastBits(islast) \o W(3, 2) \o W(opt.reserved, 1) \o W(opt.nbytes, 2) \o length
    IN  [w EXCEPT !.bits = Pad(w.bits \o head, opt.fill) \o BitsOf(payload)]

mb_uncompressed(w, data, nibbles, fill) ==
    LET head == W(0, 1) \o w_mlen(Len(data), nibbles) \o W(1, 1)
    IN  [w EXCEPT !.bits = Pad(w.bits \o head, fill) \o BitsOf(data), !.out = @ \o data]

w_var256(n) ==
    LET k == BitLength(n - 1) - 1
    IN  CASE n = 1 -> W(0, 1)
          [] n = 2 -> W(1, 4)
          [] OTHER -> W(1, 1) \o W(k, 3) \o W(n - 1 - 2 ^ k, k)

-----------------------------------------------------------------------------
(* Prefix codes.  A table is the word of each symbol.                      *)

\* By length, then by symbol; each word the one before plus one, shifted.
canonical(lens) ==
    LET Next(acc, s) ==
            LET code == acc.code * 2 ^ (lens[s] - acc.prev)
            IN  [code |-> code + 1, prev |-> lens[s], tab |-> acc.tab @@ (s :> Word(code, lens[s]))]
        order == Joined([l \in 1 .. 16 |-> SelectSeq(Sorted(DOMAIN lens), LAMBDA s : lens[s] = l - 1)])
    IN  Folded(Next, [code |-> 0, prev |-> 0, tab |-> <<>>], order).tab

balanced_lengths(syms) ==
    LET k == Cardinality(syms)
        n == BitLength(k) - 1
        deep == 2 * (k - 2 ^ n)
    IN  [s \in syms |-> IF Cardinality({t \in syms : t < s}) < k - deep THEN n ELSE n + 1]

\* syms in the order they are listed; a duplicate has no table.
w_simple(syms, alpha, tsel) ==
    LET lens == SimpleLengths(Len(syms), tsel)
    IN  [bits |-> W(1, 2) \o W(Len(syms) - 1, 2)
                  \o Joined([i \in DOMAIN syms |-> W(syms[i], BitLength(alpha - 1))])
                  \o (IF Len(syms) = 4 THEN W(tsel, 1) ELSE <<>>),
         tab  |-> IF IsInjective(syms)
                    THEN canonical([s \in Range(syms) |-> lens[CHOOSE i \in DOMAIN syms : syms[i] = s]])
                    ELSE <<>>]

CLC_VLC == << <<0, 0>>, <<1, 1, 1, 0>>, <<1, 1, 0>>, <<0, 1>>, <<1, 0>>, <<1, 1, 1, 1>> >>

\* A run as repeat codes: sym, base 2^width, the digits most significant first.
RECURSIVE Digits(_, _, _)
Digits(sym, reps, width) ==
    LET here == <<sym, reps % 2 ^ width, width>>
        rest == reps \div 2 ^ width
    IN  IF rest = 0 THEN <<here>> ELSE Append(Digits(sym, rest - 1, width), here)

Times(n, item) == [i \in 1 .. n |-> item]

\* A run of lengths v: v itself where a repeat code would not pay.
Rle(v, first, odd, sym, width, reps0) ==
    LET one  == <<v, 0, 0>>
        n1   == IF first THEN reps0 - 1 ELSE reps0
        n2   == IF n1 = odd THEN n1 - 1 ELSE n1
    IN  Times(reps0 - n2, one) \o (IF n2 < 3 THEN Times(n2, one) ELSE Digits(sym, n2 - 3, width))

rle_zeros(reps)          == Rle(0, FALSE, 11, 17, 3, reps)
rle_value(prev, v, reps) == Rle(v, prev # v, 7, 16, 2, reps)

\* The code lengths as symbols of the code-length alphabet, runs repeated.
RECURSIVE RunLengthCoded(_, _)
RunLengthCoded(L, prev) ==
    LET v   == L[1]
        run == CHOOSE n \in 1 .. Len(L) : /\ \A i \in 1 .. n : L[i] = v
                                          /\ n = Len(L) \/ L[n + 1] # v
        rest == SubSeq(L, run + 1, Len(L))
    IN  IF L = <<>> THEN <<>>
        ELSE IF v = 0 THEN rle_zeros(run) \o RunLengthCoded(rest, prev)
        ELSE rle_value(prev, v, run) \o RunLengthCoded(rest, v)

\* The lengths of the code-length code, in their order, until none is left.
RECURSIVE ClcBits(_, _, _)
ClcBits(clc, i, space) ==
    LET s == CL_ORDER[i]
        l == IF s \in DOMAIN clc THEN clc[s] ELSE 0
    IN  IF i > 18 \/ space <= 0 THEN <<>>
        ELSE CLC_VLC[l + 1] \o ClcBits(clc, i + 1, IF l = 0 THEN space ELSE space - 32 \div 2 ^ l)

SymbolBits(tab, s) == tab[s]

Items(tab, seq) ==
    Joined([i \in DOMAIN seq |-> SymbolBits(tab, seq[i][1]) \o W(seq[i][2], seq[i][3])])

\* style: rle, hskip, toEnd (write the lengths of the whole alphabet) and clc,
\* a code-length code to use instead of a balanced one (<<>> for none).
w_complex(lens, alpha, style) ==
    LET last == Max(DOMAIN lens)
        L    == [i \in 1 .. (IF style.toEnd THEN alpha ELSE last + 1) |->
                    IF i - 1 \in DOMAIN lens THEN lens[i - 1] ELSE 0]
        seq  == IF style.rle THEN RunLengthCoded(L, 8) ELSE [i \in DOMAIN L |-> <<L[i], 0, 0>>]
        used == {seq[i][1] : i \in DOMAIN seq}
        clc  == IF style.clc # <<>> THEN style.clc
                ELSE IF Cardinality(used) = 1 THEN [s \in used |-> 3] ELSE balanced_lengths(used)
        ctab == IF Cardinality(DOMAIN clc) = 1 THEN [s \in DOMAIN clc |-> <<>>] ELSE canonical(clc)
        head == W(style.hskip, 2) \o ClcBits(clc, style.hskip + 1, 32)
    IN  IF used \subseteq DOMAIN clc
          THEN [bits |-> head \o Items(ctab, seq), tab |-> canonical(lens)]
          ELSE [bits |-> head, tab |-> <<>>]

Plain == [lens |-> <<>>, rle |-> FALSE, hskip |-> 0, toEnd |-> FALSE, clc |-> <<>>,
          complex |-> FALSE, order |-> <<>>, tsel |-> 0]

auto_code(syms0, alpha, style) ==
    LET syms  == IF syms0 = {} THEN {0} ELSE syms0
        only  == Max(syms)
        order == IF style.order # <<>> THEN style.order ELSE Sorted(syms)
        two   == IF Cardinality(syms) > 1 THEN syms
                 ELSE syms \cup {IF only + 1 < alpha THEN only + 1 ELSE only - 1}
    IN  CASE style.lens # <<>> -> w_complex(style.lens, alpha, style)
          [] Cardinality(syms) <= 4 /\ ~style.complex -> w_simple(order, alpha, style.tsel)
          [] OTHER -> w_complex(balanced_lengths(two), alpha, style)

\* One code for each set of symbols.
auto_codes(sets, alpha, style) ==
    LET all == [i \in DOMAIN sets |-> auto_code(sets[i], alpha, style)]
    IN  [bits |-> Joined([i \in DOMAIN all |-> all[i].bits]),
         tabs |-> [i \in DOMAIN all |-> all[i].tab]]

-----------------------------------------------------------------------------
(* Symbols for lengths, commands and distances.                            *)

len_code(n, table) ==
    LET c == CHOOSE c \in DOMAIN table.base :
                 table.base[c] <= n /\ n < table.base[c] + 2 ^ table.extra[c]
    IN  <<c - 1, n - table.base[c], table.extra[c]>>

cmd_symbol(ic, cc, dz) ==
    LET Fits(k) == /\ CELLS[k][3] = dz
                   /\ ic \in CELLS[k][1] .. CELLS[k][1] + 7
                   /\ cc \in CELLS[k][2] .. CELLS[k][2] + 7
        cell == CHOOSE k \in DOMAIN CELLS : Fits(k)
    IN  64 * (cell - 1) + 8 * (ic - CELLS[cell][1]) + cc - CELLS[cell][2]

\* The first code whose range holds d, as <<code, extra, number of bits>>.
dist_code(d, np, nd) ==
    LET Ndb(dc)  == 1 + (dc - nd - 16) \div 2 ^ (np + 1)
        Off(dc)  == (2 + (((dc - nd - 16) \div 2 ^ np) % 2)) * 2 ^ Ndb(dc) - 4
        R(dc)    == d - nd - 1 - ((dc - nd - 16) % 2 ^ np)
        Extra(dc) == R(dc) \div 2 ^ np - Off(dc)
        Holds(dc) == /\ R(dc) >= 0 /\ R(dc) % 2 ^ np = 0
                     /\ Extra(dc) \in 0 .. 2 ^ Ndb(dc) - 1
        dc == Min({x \in 16 + nd .. 15 + nd + 48 * 2 ^ np : Holds(x)})
    IN  IF d \in 1 .. nd THEN <<d + 15, 0, 0>> ELSE <<dc, Extra(dc), Ndb(dc)>>

-----------------------------------------------------------------------------
(* Compressed meta-blocks: the commands are first played on the text so    *)
(* far, which says what every symbol will be, then the header is written   *)
(* with codes for just those symbols, then the commands.                   *)

\* A command: literals, then a copy of a kind: "dist" (arg the distance),
\* "short" (a short code), "again" (the last distance, unread), "word" (a
\* dictionary word <<index, transform>>) or "end" (nothing: the text is over).
Command(lits, copy, kind, arg) == [lits |-> lits, copy |-> copy, kind |-> kind, arg |-> arg]
Lz(lits, copy, dist)    == Command(lits, copy, "dist", dist)
Short(lits, copy, code) == Command(lits, copy, "short", code)
Again(lits, copy)       == Command(lits, copy, "again", 0)
DictWord(lits, len, idx, tid) == Command(lits, len, "word", <<idx, tid>>)
End(lits)               == Command(lits, 4, "end", 0)

-----------------------------------------------------------------------------
(* Block plans: [n, counts, codes], the number of types, the length of     *)
(* each block and the code of each switch.                                 *)

OneType == [n |-> 1, counts |-> <<1>>, codes |-> <<>>]

BlockPlan(spec) ==
    [spec |-> spec, type |-> 0, prev |-> 1, k |-> 0, left |-> spec.counts[1]]

\* One more symbol; ev is the switch <<code, count>> to write first, if any.
PlanStep(p) ==
    LET code == p.spec.codes[p.k + 1]
        t0   == CASE code = 0 -> p.prev [] code = 1 -> p.type + 1 [] OTHER -> code - 2
        t    == IF t0 >= p.spec.n THEN t0 - p.spec.n ELSE t0
        size == p.spec.counts[p.k + 2]
    IN  IF p.spec.n < 2 THEN [p |-> p, ev |-> <<>>]
        ELSE IF p.left > 0 THEN [p |-> [p EXCEPT !.left = @ - 1], ev |-> <<>>]
        ELSE [p  |-> [p EXCEPT !.prev = p.type, !.type = t, !.k = @ + 1, !.left = size - 1],
              ev |-> <<code, size>>]

\* The type of each of the first n symbols.
TypeSequence(spec, n) ==
    LET Upto(acc, i) == LET s == PlanStep(acc.p)
                        IN  [p |-> s.p, types |-> Append(acc.types, s.p.type)]
    IN  Folded(Upto, [p |-> BlockPlan(spec), types |-> <<>>], Zeros(n)).types

-----------------------------------------------------------------------------
(* Playing the commands.  opt: wbits, npostfix, ndirect, the plans L, I    *)
(* and D, cmodes, the context maps and their formats, the styles.          *)

PlanLiteral(opt, acc, b) ==
    LET s   == PlanStep(acc.L)
        t   == s.p.type
        ctx == CTX(opt.cmodes[t + 1], Back(acc.sim, 1), Back(acc.sim, 2))
    IN  [acc EXCEPT !.L = s.p, !.sim = Append(@, b),
                    !.lits = Append(@, [ev |-> s.ev, tree |-> opt.mapL[64 * t + ctx + 1], byte |-> b])]

\* Where a copy comes from: its distance, the code for it, what it adds.
Target(opt, c, ring, sim) ==
    LET wsize == 2 ^ opt.wbits - 16
        maxd  == IF Len(sim) < wsize THEN Len(sim) ELSE wsize
        code  == CASE c.kind = "dist"  -> dist_code(c.arg, opt.npostfix, opt.ndirect)
                   [] c.kind = "word"  ->
                        dist_code(maxd + 1 + c.arg[1] + c.arg[2] * 2 ^ NDBITS[c.copy + 1],
                                  opt.npostfix, opt.ndirect)
                   [] c.kind = "short" -> <<c.arg, 0, 0>>
                   [] OTHER            -> <<0, 0, 0>>
        dist  == CASE c.kind = "dist"  -> c.arg
                   [] c.kind = "word"  -> maxd + 1 + c.arg[1] + c.arg[2] * 2 ^ NDBITS[c.copy + 1]
                   [] c.kind = "short" /\ c.arg >= 4 -> Near(ring, c.arg)
                   [] OTHER            -> ring[4 - code[1]]
        wid   == dist - maxd - 1
        tid   == wid \div 2 ^ NDBITS[c.copy + 1]
        lz    == dist \in 1 .. maxd
        word  == dist > maxd /\ c.copy \in 4 .. 24 /\ tid < 121
    IN  [code |-> code,
         ring |-> IF lz /\ code[1] # 0 THEN Append(Tail(ring), dist) ELSE ring,
         adds |-> CASE lz    -> [j \in 1 .. c.copy |-> sim[Len(sim) - dist + 1 + ((j - 1) % dist)]]
                    [] word  -> TransformWord(DICT(c.copy, wid % 2 ^ NDBITS[c.copy + 1]), tid)
                    [] OTHER -> <<>>]

PlanCommand(opt, acc, c) ==
    LET i    == PlanStep(acc.I)
        l    == Folded(LAMBDA a, b : PlanLiteral(opt, a, b),
                         [L |-> acc.L, sim |-> acc.sim, lits |-> <<>>], c.lits)
        ins  == len_code(Len(c.lits), INS)
        cpy  == len_code(c.copy, CPY)
        read == c.kind \notin {"end", "again"}
        d    == IF read THEN PlanStep(acc.D) ELSE [p |-> acc.D, ev |-> <<>>]
        to   == Target(opt, c, acc.ring, l.sim)
        dctx == IF cpy[1] < 3 THEN cpy[1] ELSE 3
        entry == [iev |-> i.ev, itype |-> i.p.type, cmd |-> cmd_symbol(ins[1], cpy[1], c.kind = "again"),
                  ins |-> ins, cpy |-> cpy, lits |-> l.lits, read |-> read, dev |-> d.ev,
                  dtree |-> opt.mapD[4 * d.p.type + dctx + 1],
                  dist |-> IF read THEN to.code ELSE <<0, 0, 0>>]
    IN  [L |-> l.L, I |-> i.p, D |-> d.p, plan |-> Append(acc.plan, entry),
         sim  |-> IF c.kind = "end" THEN l.sim ELSE l.sim \o to.adds,
         ring |-> IF c.kind = "end" THEN acc.ring ELSE to.ring]

Played(opt, w, cmds) ==
    Folded(LAMBDA acc, c : PlanCommand(opt, acc, c),
             [L |-> BlockPlan(opt.L), I |-> BlockPlan(opt.I), D |-> BlockPlan(opt.D),
              plan |-> <<>>, sim |-> w.out, ring |-> w.ring], cmds)

-----------------------------------------------------------------------------
(* Context maps.                                                           *)

MoveToFront(values, ntrees) ==
    Folded(LAMBDA acc, v : LET i == CHOOSE i \in DOMAIN acc.mtf : acc.mtf[i] = v
                             IN  [enc |-> Append(acc.enc, i - 1), mtf |-> ToFront(acc.mtf, i)],
             [enc |-> <<>>, mtf |-> [i \in 1 .. ntrees |-> i - 1]], values).enc

\* A run of zeros in chunks of at most 2^(rlemax+1) - 1.
RECURSIVE ZeroRun(_, _)
ZeroRun(run, rlemax) ==
    LET k    == IF BitLength(run) - 1 < rlemax THEN BitLength(run) - 1 ELSE rlemax
        take == IF run < 2 ^ (k + 1) - 1 THEN run ELSE 2 ^ (k + 1) - 1
    IN  IF run = 0 THEN <<>>
        ELSE IF run = 1 THEN << <<0, 0, 0>> >>
        ELSE << <<k, take - 2 ^ k, k>> >> \o ZeroRun(run - take, rlemax)

\* The symbols of a map, a run of zeros at a time when rlemax allows.
MapItems(enc, rlemax) ==
    LET Run(i) == CHOOSE n \in 1 .. Len(enc) - i + 1 :
                      /\ \A j \in i .. i + n - 1 : enc[j] = 0
                      /\ i + n > Len(enc) \/ enc[i + n] # 0
        Next(x) == IF enc[x.i] = 0 /\ rlemax > 0
                     THEN [i |-> x.i + Run(x.i), items |-> x.items \o ZeroRun(Run(x.i), rlemax)]
                   ELSE [i |-> x.i + 1, items |-> Append(x.items,
                            <<IF enc[x.i] = 0 THEN 0 ELSE enc[x.i] + rlemax, 0, 0>>)]
    IN  Looped(LAMBDA x : x.i <= Len(enc), Next, [i |-> 1, items |-> <<>>]).items

\* fmt is <<rlemax, imtf>>.
w_cmap(values, ntrees, fmt) ==
    LET enc   == IF fmt[2] THEN MoveToFront(values, ntrees) ELSE values
        items == MapItems(enc, fmt[1])
        code  == auto_code({items[i][1] : i \in DOMAIN items}, ntrees + fmt[1], Plain)
    IN  w_var256(ntrees)
        \o (IF ntrees < 2 THEN <<>>
            ELSE (IF fmt[1] > 0 THEN W(1, 1) \o W(fmt[1] - 1, 4) ELSE W(0, 1))
                 \o code.bits \o Items(code.tab, items) \o W(IF fmt[2] THEN 1 ELSE 0, 1))

-----------------------------------------------------------------------------
(* Writing a compressed meta-block.                                        *)

\* NBLTYPES, and with more than one the codes of the switches and the first length.
SwitchHeader(spec) ==
    LET t == auto_code(Range(spec.codes), spec.n + 2, Plain)
        lens == [i \in DOMAIN spec.counts |-> len_code(spec.counts[i], BL)]
        c == auto_code({lens[i][1] : i \in DOMAIN lens}, 26, Plain)
    IN  IF spec.n < 2 THEN [bits |-> w_var256(spec.n), types |-> <<>>, lens |-> <<>>]
        ELSE [bits |-> w_var256(spec.n) \o t.bits \o c.bits \o Items(c.tab, <<lens[1]>>),
              types |-> t.tab, lens |-> c.tab]

Switch(head, ev) ==
    IF ev = <<>> THEN <<>>
    ELSE SymbolBits(head.types, ev[1]) \o Items(head.lens, <<len_code(ev[2], BL)>>)

\* The symbols an entry of the plan needs in the code of tree or type t.
LitUses(e, t)  == {e.lits[k].byte : k \in {k \in DOMAIN e.lits : e.lits[k].tree = t}}
CmdUses(e, t)  == IF e.itype = t THEN {e.cmd} ELSE {}
\* mb_compressed also counts the code of an implicit distance.
DistUses(e, t, implied) == (IF e.read /\ e.dtree = t THEN {e.dist[1]} ELSE {})
                             \cup (IF implied /\ e.cmd < 128 THEN {0} ELSE {})

CommandBits(e, heads, lit, cmd, dist) ==
    Switch(heads.I, e.iev) \o SymbolBits(cmd[e.itype + 1], e.cmd)
    \o W(e.ins[2], e.ins[3]) \o W(e.cpy[2], e.cpy[3])
    \o Joined([k \in DOMAIN e.lits |-> Switch(heads.L, e.lits[k].ev)
                                           \o SymbolBits(lit[e.lits[k].tree + 1], e.lits[k].byte)])
    \o (IF e.read THEN Switch(heads.D, e.dev) \o Items(dist[e.dtree + 1], <<e.dist>>) ELSE <<>>)

\* maps is the two context maps as written; mlen 0 stands for the length played.
Block(w, cmds, islast, opt, maps, mlen, implied) ==
    LET played == Played(opt, w, cmds)
        n      == IF mlen = 0 THEN Len(played.sim) - Len(w.out) ELSE mlen
        heads  == [L |-> SwitchHeader(opt.L), I |-> SwitchHeader(opt.I), D |-> SwitchHeader(opt.D)]
        Needed(trees, Uses(_, _)) ==
            [t \in 1 .. trees |-> UNION {Uses(played.plan[k], t - 1) : k \in DOMAIN played.plan}]
        lit    == auto_codes(Needed(opt.ntreesL, LitUses), 256, opt.litStyle)
        cmd    == auto_codes(Needed(opt.I.n, CmdUses), 704, Plain)
        dist   == auto_codes(Needed(opt.ntreesD, LAMBDA e, t : DistUses(e, t, implied)),
                             16 + opt.ndirect + 48 * 2 ^ opt.npostfix, opt.distStyle)
        header == LastBits(islast) \o w_mlen(n, MlenNibbles(n)) \o (IF islast THEN <<>> ELSE W(0, 1))
                  \o heads.L.bits \o heads.I.bits \o heads.D.bits
                  \o W(opt.npostfix, 2) \o W(opt.ndirect \div 2 ^ opt.npostfix, 4)
                  \o Joined([i \in DOMAIN opt.cmodes |-> W(opt.cmodes[i], 2)])
                  \o maps \o lit.bits \o cmd.bits \o dist.bits
        body   == Joined([k \in DOMAIN played.plan |->
                                CommandBits(played.plan[k], heads, lit.tabs, cmd.tabs, dist.tabs)])
    IN  [w EXCEPT !.bits = @ \o header \o body, !.out = played.sim, !.ring = played.ring]

\* A block without switching, or trees of distances: opt says the rest.
Simple(wbits) ==
    [wbits |-> wbits, npostfix |-> 0, ndirect |-> 0, L |-> OneType, I |-> OneType, D |-> OneType,
     cmodes |-> <<0>>, mapL |-> Zeros(64), mapD |-> Zeros(4), ntreesL |-> 1, ntreesD |-> 1,
     fmtL |-> <<0, FALSE>>, fmtD |-> <<0, FALSE>>, litStyle |-> Plain, distStyle |-> Plain]

mb_blocks(w, cmds, islast, opt) ==
    Block(w, cmds, islast, opt,
          w_cmap(opt.mapL, opt.ntreesL, opt.fmtL) \o w_cmap(opt.mapD, opt.ntreesD, opt.fmtD),
          0, FALSE)

\* The literal context map as mb_compressed writes it: neither runs nor IMTF.
PlainMap(map, ntrees) ==
    LET code == auto_code(Range(map), ntrees, [Plain EXCEPT !.complex = Cardinality(Range(map)) > 4])
    IN  W(0, 1) \o code.bits \o Items(code.tab, [i \in DOMAIN map |-> <<map[i], 0, 0>>]) \o W(0, 1)

\* cmap is the bits of a literal context map to write instead, <<>> for none.
mb_compressed(w, cmds, islast, opt, cmap, mlen) ==
    LET map == IF opt.ntreesL < 2 THEN <<>>
               ELSE IF cmap # <<>> THEN cmap ELSE PlainMap(opt.mapL, opt.ntreesL)
    IN  Block(w, cmds, islast, opt, w_var256(opt.ntreesL) \o map \o w_var256(1), mlen,
              TRUE)
=============================================================================
