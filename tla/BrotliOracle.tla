---------------------------- MODULE BrotliOracle ----------------------------
(***************************************************************************)
(* decode() of the strict reference decoder scripts/brotli_ref_decoder.py: *)
(* what a whole stream means, or why it is rejected.                       *)
(***************************************************************************)
EXTENDS BrotliCodes

ReadWbits(br) ==
    LET large == ReadBits(br, 1)
        n     == ReadBits(large.br, 3)
        m     == ReadBits(n.br, 3)
    IN  CASE large.v = 0 -> [v |-> 16, br |-> large.br]
          [] n.v # 0     -> [v |-> 17 + n.v, br |-> n.br]
          [] m.v = 1     -> [v |-> 0, br |-> Raise(m.br, "invalid WBITS")]
          [] OTHER       -> [v |-> IF m.v = 0 THEN 17 ELSE 8 + m.v, br |-> m.br]

\* A length in n units of "unit" bits: the last must not be a needless zero.
ReadLength(br, n, unit, least) ==
    LET r == ReadBits(br, n * unit)
    IN  [v  |-> r.v,
         br |-> RaiseIf(r.br, n > least /\ r.v < 2 ^ (unit * (n - 1)), "exuberant")]

\* The bytes at the reader, n of them, or too few.
Raw(br, n) ==
    IF Ok(br) /\ br.pos + 8 * n > Len(br.d) THEN [bytes |-> <<>>, br |-> Raise(br, "truncated input")]
    ELSE [bytes |-> [i \in 1 .. n |-> Value(Window(br.d, br.pos + 8 * (i - 1), 8))],
          br    |-> [br EXCEPT !.pos = @ + 8 * n]]

SkipMetadata(br) ==
    LET reserved == ReadBits(br, 1)
        nbytes   == ReadBits(RaiseIf(reserved.br, reserved.v = 1, "reserved bit set"), 2)
        size     == ReadLength(nbytes.br, nbytes.v, 8, 1)
        skip     == IF nbytes.v = 0 THEN 0 ELSE size.v + 1
    IN  Raw(Align(size.br), skip).br

-----------------------------------------------------------------------------
(* A compressed meta-block.                                                *)

\* cmodes, trees and maps; carry is the block switches of the one before.
ReadHeader(br, mutant, carry) ==
    LET Carried(k) == IF carry = <<>> THEN <<>> ELSE carry[k]
        L     == BlockSwitch(br, mutant, Carried(1))
        I     == BlockSwitch(L.br, mutant, Carried(2))
        D     == BlockSwitch(I.br, mutant, Carried(3))
        np    == ReadBits(D.br, 2)
        nd    == ReadBits(np.br, 4)
        Mode(acc, i) == LET r == ReadBits(acc.br, 2) IN [v |-> Append(acc.v, r.v), br |-> r.br]
        cm    == Folded(Mode, [v |-> <<>>, br |-> nd.br], Zeros(L.b.n))
        ntl   == ReadVar256(cm.br)
        mapL  == ReadContextMap(ntl.br, 64 * L.b.n, ntl.v)
        ntd   == ReadVar256(mapL.br)
        mapD  == ReadContextMap(ntd.br, 4 * D.b.n, ntd.v)
        hl    == ReadPrefixCodes(mapD.br, ntl.v, 256)
        hi    == ReadPrefixCodes(hl.br, I.b.n, 704)
        hd    == ReadPrefixCodes(hi.br, ntd.v, 16 + nd.v * 2 ^ np.v + 48 * 2 ^ np.v)
    IN  [h  |-> [L |-> L.b, I |-> I.b, D |-> D.b, npostfix |-> np.v, ndirect |-> nd.v * 2 ^ np.v,
                 cmodes |-> cm.v, mapL |-> mapL.v, mapD |-> mapD.v,
                 hl |-> hl.codes, hi |-> hi.codes, hd |-> hd.codes],
         br |-> hd.br]

\* c is where the command loop stands: the reader, the output, the last four
\* distances, what is left of MLEN and the three block switches.
Back(out, k) == IF Len(out) >= k THEN out[Len(out) - k + 1] ELSE 0

OneLiteral(h, mutant, c) ==
    LET s    == Step(c.L, c.br)
        t    == s.b.type
        tree == h.mapL[64 * t + CTX(h.cmodes[(IF mutant = "M2" THEN 0 ELSE t) + 1],
                                    Back(c.out, 1), Back(c.out, 2)) + 1]
        lit  == DecodeSymbol(s.br, h.hl[tree + 1])
    IN  IF t >= h.L.n THEN [c EXCEPT !.br = Raise(s.br, "index out of range")]
        ELSE [c EXCEPT !.br  = RaiseIf(lit.br, c.rem = 0, "insert length exceeds"),
                       !.out = Append(@, lit.v), !.rem = @ - 1, !.L = s.b]

Literals(h, mutant, c, n) ==
    Folded(LAMBDA acc, i : IF Ok(acc.br) THEN OneLiteral(h, mutant, acc) ELSE acc, c, Zeros(n))

\* Short codes 4..15: the last distance or the one before it, a little off.
Near(ring, dcode) ==
    LET k == IF dcode < 10 THEN dcode - 4 ELSE dcode - 10
        base == IF dcode < 10 THEN ring[4] ELSE ring[3]
    IN  IF k % 2 = 0 THEN base - (k \div 2 + 1) ELSE base + (k \div 2 + 1)

\* The distance a code stands for, with the extra bits it reads.
Distance(br, ring, dcode, npostfix, ndirect) ==
    LET x     == dcode - ndirect - 16
        ndb   == 1 + x \div 2 ^ (npostfix + 1)
        hcode == x \div 2 ^ npostfix
        extra == ReadBits(br, ndb)
        offset == (2 + (hcode % 2)) * 2 ^ ndb - 4
        short == IF dcode < 4 THEN ring[4 - dcode] ELSE Near(ring, dcode)
    IN  IF dcode < 16 THEN [v |-> short, br |-> RaiseIf(br, short <= 0, "invalid distance")]
        ELSE IF dcode < 16 + ndirect THEN [v |-> dcode - 15, br |-> br]
        ELSE [v  |-> (offset + extra.v) * 2 ^ npostfix + (x % 2 ^ npostfix) + ndirect + 1,
              br |-> extra.br]

\* The distance of a command, unread in the first two cells.
ReadDistance(h, mutant, c, clen, dz) ==
    LET counts == ~dz \/ mutant = "E6977"
        s     == IF counts THEN Step(c.D, c.br) ELSE [b |-> c.D, br |-> c.br]
        dctx  == IF clen > 4 THEN 3 ELSE clen - 2
        dcode == DecodeSymbol(s.br, h.hd[h.mapD[4 * s.b.type + dctx + 1] + 1])
        dist  == Distance(dcode.br, c.ring, dcode.v, h.npostfix, h.ndirect)
    IN  IF dz THEN [dist |-> c.ring[4], dcode |-> 0, D |-> s.b, br |-> s.br]
        ELSE IF s.b.type >= h.D.n
          THEN [dist |-> 0, dcode |-> 0, D |-> s.b, br |-> Raise(s.br, "index out of range")]
        ELSE [dist |-> dist.v, dcode |-> dcode.v, D |-> s.b, br |-> dist.br]

\* Upper case from byte i on: n is the width of the character there.
UpperAt(w, i) ==
    LET Flip(j, by) == IF j \in DOMAIN w THEN [w EXCEPT ![j] = by] ELSE w
        Toggle32(b) == IF (b \div 32) % 2 = 1 THEN b - 32 ELSE b + 32
        Toggle5(b)  == b + (IF b % 2 = 1 THEN -1 ELSE 1) + (IF (b \div 4) % 2 = 1 THEN -4 ELSE 4)
    IN  IF w[i] < 192 THEN [w |-> IF w[i] \in 97 .. 122 THEN Flip(i, w[i] - 32) ELSE w, n |-> 1]
        ELSE IF w[i] < 224
          THEN [w |-> IF i + 1 \in DOMAIN w THEN Flip(i + 1, Toggle32(w[i + 1])) ELSE w, n |-> 2]
        ELSE [w |-> IF i + 2 \in DOMAIN w THEN Flip(i + 2, Toggle5(w[i + 2])) ELSE w, n |-> 3]

RECURSIVE UpperAll(_, _)
UpperAll(w, i) == IF i > Len(w) THEN w
                  ELSE LET u == UpperAt(w, i) IN UpperAll(u.w, i + u.n)

TransformWord(word, tid) ==
    LET t == TransformType[tid + 1]
        w == CASE t \in 1 .. 9   -> SubSeq(word, 1, Len(word) - t)
               [] t \in 12 .. 20 -> SubSeq(word, t - 10, Len(word))
               [] OTHER          -> word
        u == CASE t = 10 /\ w # <<>> -> UpperAt(w, 1).w
               [] t = 11             -> UpperAll(w, 1)
               [] OTHER              -> w
    IN  Affix(TransformPrefix[tid + 1]) \o u \o Affix(TransformSuffix[tid + 1])

Pushed(ring, dist) == Append(Tail(ring), dist)

\* A reference past the window: a word of the dictionary, transformed.
DictCopy(mutant, c, d, clen, maxd) ==
    LET wid  == d.dist - maxd - 1
        idx  == wid % 2 ^ NDBITS[clen + 1]
        tid  == wid \div 2 ^ NDBITS[clen + 1]
        w    == TransformWord(DICT(clen, idx), tid)
        push == \/ mutant = "D1" /\ d.dcode # 0
                \/ mutant = "D2" /\ d.dcode \in 4 .. 15
    IN  IF clen \notin 4 .. 24 THEN [c EXCEPT !.br = Raise(d.br, "distance ")]
        ELSE IF tid >= 121
          THEN [c EXCEPT !.br = Raise(d.br, "invalid dictionary transform id"), !.phase = 4]
        ELSE IF Len(w) > c.rem
          THEN [c EXCEPT !.br = Raise(d.br, "dictionary word exceeds"), !.phase = 4]
        ELSE [c EXCEPT !.br = d.br, !.out = @ \o w, !.rem = @ - Len(w), !.D = d.D, !.phase = 4,
                       !.ring = IF push THEN Pushed(@, d.dist) ELSE @]

LzCopy(c, d, clen) ==
    LET from == Len(c.out) - d.dist
    IN  IF clen > c.rem THEN [c EXCEPT !.br = Raise(d.br, "copy length exceeds")]
        ELSE [c EXCEPT !.br = d.br, !.rem = @ - clen, !.D = d.D,
                       !.ring = IF d.dcode # 0 THEN Pushed(@, d.dist) ELSE @,
                       !.out  = @ \o [i \in 1 .. clen |-> c.out[from + ((i - 1) % d.dist) + 1]]]

OneCommand(h, mutant, c) ==
    LET i    == Step(c.I, c.br)
        cmd  == DecodeSymbol(i.br, h.hi[i.b.type + 1])
        cell == CELLS[cmd.v \div 64 + 1]
        ic   == cell[1] + ((cmd.v \div 8) % 8)
        cc   == cell[2] + (cmd.v % 8)
        ix   == ReadBits(cmd.br, INS.extra[ic + 1])
        cx   == ReadBits(ix.br, CPY.extra[cc + 1])
        clen == CPY.base[cc + 1] + cx.v
        lits == Literals(h, mutant, [c EXCEPT !.br = cx.br, !.I = i.b],
                         IF Ok(cx.br) THEN INS.base[ic + 1] + ix.v ELSE 0)
        d    == ReadDistance(h, mutant, lits, clen, cell[3])
        maxd == IF Len(lits.out) < c.wsize THEN Len(lits.out) ELSE c.wsize
    IN  IF i.b.type >= h.I.n THEN [c EXCEPT !.br = Raise(i.br, "index out of range")]
        ELSE IF lits.rem = 0 \/ ~Ok(lits.br) THEN lits
        ELSE IF ~Ok(d.br) THEN [lits EXCEPT !.br = d.br]
        ELSE IF d.dist > maxd THEN DictCopy(mutant, lits, d, clen, maxd)
        ELSE LzCopy(lits, d, clen)

Commands(h, mutant, c) ==
    Looped(LAMBDA x : x.rem > 0 /\ Ok(x.br), LAMBDA x : OneCommand(h, mutant, x), c)

\* st is the whole decode between meta-blocks.
Compressed(st, br, mlen, mutant) ==
    LET head == ReadHeader(br, mutant, st.carry)
        h    == head.h
        c    == Commands(h, mutant,
                    [br |-> head.br, out |-> st.out, ring |-> st.ring, rem |-> mlen,
                     L |-> h.L, I |-> h.I, D |-> h.D, wsize |-> st.wsize,
                     phase |-> IF st.phase > 3 THEN st.phase ELSE 3])
        Left(b) == <<b.type, b.last, b.prev>>
    IN  IF ~Ok(head.br) THEN [st EXCEPT !.br = head.br, !.phase = IF @ > 2 THEN @ ELSE 2]
        ELSE [st EXCEPT !.br = c.br, !.out = c.out, !.ring = c.ring, !.phase = c.phase,
                        !.carry = <<Left(c.L), Left(c.I), Left(c.D)>>]

MetaBlock(st, mutant) ==
    LET islast == ReadBits(st.br, 1)
        empty  == IF islast.v = 1 THEN ReadBits(islast.br, 1) ELSE [v |-> 0, br |-> islast.br]
        mn     == ReadBits(empty.br, 2)
        mlen   == ReadLength(mn.br, mn.v + 4, 4, 4)
        unc    == IF islast.v = 1 THEN [v |-> 0, br |-> mlen.br] ELSE ReadBits(mlen.br, 1)
        raw    == Raw(Align(unc.br), mlen.v + 1)
        next   == CASE empty.v = 1 -> [st EXCEPT !.br = empty.br]
                    [] mn.v = 3    -> [st EXCEPT !.br = SkipMetadata(mn.br)]
                    [] unc.v = 1   -> [st EXCEPT !.br = raw.br, !.out = @ \o raw.bytes]
                    [] Ok(unc.br)  -> Compressed(st, unc.br, mlen.v + 1, mutant)
                    [] OTHER       -> [st EXCEPT !.br = unc.br]
    IN  [next EXCEPT !.last = islast.v = 1]

\* reason is "" for a stream that decodes; the output of a rejected one is lost.
Decode(data, mutant) ==
    LET wbits == ReadWbits(Reader(data))
        end   == Looped(LAMBDA st : ~st.last /\ Ok(st.br), LAMBDA st : MetaBlock(st, mutant),
                        [br |-> wbits.br, out |-> <<>>, ring |-> FirstRing, carry |-> <<>>,
                         phase |-> 1, wsize |-> 2 ^ wbits.v - 16, last |-> FALSE])
        br    == Align(end.br)
    IN  [reason   |-> br.err,
         out      |-> IF Ok(br) THEN end.out ELSE <<>>,
         phase    |-> end.phase,
         trailing |-> (Len(data) - br.pos) \div 8]
=============================================================================
