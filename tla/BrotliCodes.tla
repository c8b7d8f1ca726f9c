---------------------------- MODULE BrotliCodes -----------------------------
(***************************************************************************)
(* The bit reader, prefix codes, context maps and block switches of the    *)
(* reference decoder scripts/brotli_ref_decoder.py, as functions of the    *)
(* stream.  A stream is its bits, whole bytes of them.  An exception is a  *)
(* reason kept in the reader: nothing is read after it.  mutant names one  *)
(* of the wrong readings of RFC 7932 the script knows, or "none".          *)
(***************************************************************************)
EXTENDS BrotliTables, FiniteSets, FiniteSetsExt, Functions, TLC

(* Loops over data.  Looped and Folded evaluate every round before the     *)
(* next one and nest only as deep as the logarithm of their rounds, which  *)
(* is what lets TLC run them.                                              *)

\* While more(x), x becomes step(x); for 2^16 rounds at most.
Looped(more(_), step(_), start) ==
    LET RECURSIVE Rounds(_, _)
        Rounds(x, k) ==
            IF ~more(x) THEN x
            ELSE IF k = 0 THEN step(x)
            ELSE CHOOSE r \in {Rounds(half, k - 1) : half \in {Rounds(x, k - 1)}} : TRUE
    IN  Rounds(start, 16)

\* FoldLeft.
Folded(op(_, _), base, seq) ==
    Looped(LAMBDA x : x.i <= Len(seq), LAMBDA x : [i |-> x.i + 1, acc |-> op(x.acc, seq[x.i])],
           [i |-> 1, acc |-> base]).acc

\* A sequence of sequences end to end.
Joined(seqs) == Folded(LAMBDA acc, s : acc \o s, <<>>, seqs)

\* The numbers of a set in order.
Sorted(S) ==
    LET top == CHOOSE x \in S : \A y \in S : x >= y
    IN  IF S = {} THEN <<>> ELSE SelectSeq([i \in 1 .. top + 1 |-> i - 1], LAMBDA x : x \in S)

-----------------------------------------------------------------------------
MUTANTS == {"M1", "M2", "M3", "E6977", "D1", "D2"}

Reader(data) == [d |-> data, pos |-> 0, err |-> ""]
Ok(br)       == br.err = ""
Raise(br, why) == IF Ok(br) THEN [br EXCEPT !.err = why] ELSE br
RaiseIf(br, condition, why) == IF condition THEN Raise(br, why) ELSE br

ReadBits(br, n) ==
    IF Ok(br) /\ br.pos + n <= Len(br.d)
      THEN [v |-> Value(Window(br.d, br.pos, n)), br |-> [br EXCEPT !.pos = @ + n]]
      ELSE [v |-> 0, br |-> Raise(br, "truncated input")]

Align(br) ==
    LET r == ReadBits(br, (8 - (br.pos % 8)) % 8)
    IN  RaiseIf(r.br, r.v # 0, "non-zero padding bits")

-----------------------------------------------------------------------------
(* Prefix codes.  lens maps the symbols in use to their code lengths; a    *)
(* code maps words, the first bit first, to symbols.                       *)

\* The word of length n whose number is v.
Word(v, n) == [i \in 1 .. n |-> (v \div 2 ^ (n - i)) % 2]

\* By length, then by symbol, each word the next after those before it.
Words(lens) ==
    LET Before(s) == {t \in DOMAIN lens : lens[t] < lens[s] \/ (lens[t] = lens[s] /\ t < s)}
        Number(s) == MapThenSumSet(LAMBDA t : 2 ^ (lens[s] - lens[t]), Before(s))
    IN  [s \in DOMAIN lens |-> Word(Number(s), lens[s])]

Code(lens) ==
    LET words == Words(lens)
    IN  [w \in Range(words) |-> CHOOSE s \in DOMAIN lens : words[s] = w]

DecodeSymbol(br, code) ==
    LET fits == {w \in DOMAIN code : Window(br.d, br.pos, Len(w)) = w}
    IN  IF ~Ok(br) THEN [v |-> 0, br |-> br]
        ELSE IF fits = {} THEN [v |-> 0, br |-> Raise(br, "truncated input")]
        ELSE LET w == CHOOSE w \in fits : TRUE
             IN  [v |-> code[w], br |-> [br EXCEPT !.pos = @ + Len(w)]]

BitLength(n) == CHOOSE b \in 0 .. 31 : n < 2 ^ b /\ (b = 0 \/ n >= 2 ^ (b - 1))

SimpleLengths(n, tsel) ==
    CASE n = 1 -> <<0>> [] n = 2 -> <<1, 1>> [] n = 3 -> <<1, 2, 2>>
      [] OTHER -> IF tsel = 1 THEN <<1, 2, 3, 3>> ELSE <<2, 2, 2, 2>>

ReadSimple(br, alphabet) ==
    LET n    == ReadBits(br, 2)
        Symbol(acc, i) ==
            LET r == ReadBits(acc.br, BitLength(alphabet - 1))
            IN  [v |-> Append(acc.v, r.v),
                 br |-> RaiseIf(r.br, r.v >= alphabet, "simple prefix code symbol")]
        syms == Folded(Symbol, [v |-> <<>>, br |-> n.br], Zeros(n.v + 1))
        once == RaiseIf(syms.br, ~IsInjective(syms.v), "duplicate symbol in simple prefix code")
        tsel == IF n.v = 3 THEN ReadBits(once, 1) ELSE [v |-> 0, br |-> once]
        lens == SimpleLengths(n.v + 1, tsel.v)
    IN  [code |-> IF Ok(tsel.br)
                    THEN Code([s \in Range(syms.v) |->
                                 lens[CHOOSE i \in DOMAIN syms.v : syms.v[i] = s]])
                    ELSE <<>>,
         br   |-> tsel.br]

\* The variable-length code of a code-length code's lengths.
ReadClLength(br) ==
    LET two   == ReadBits(br, 2)
        third == ReadBits(two.br, 1)
        last  == ReadBits(third.br, 1)
    IN  CASE two.v = 0   -> [v |-> 0, br |-> two.br]
          [] two.v = 1   -> [v |-> 4, br |-> two.br]
          [] two.v = 2   -> [v |-> 3, br |-> two.br]
          [] third.v = 0 -> [v |-> 2, br |-> third.br]
          [] last.v = 0  -> [v |-> 1, br |-> last.br]
          [] OTHER       -> [v |-> 5, br |-> last.br]

\* The lengths from the first-th in CL_ORDER on, until their space is used up.
ReadClLengths(br, first) ==
    LET Next(st) ==
            LET r == ReadClLength(st.br)
                s == CL_ORDER[st.i]
            IN  IF r.v = 0 THEN [st EXCEPT !.i = @ + 1, !.br = r.br]
                ELSE [st EXCEPT !.i = @ + 1, !.br = r.br, !.space = @ - 32 \div 2 ^ r.v,
                                !.lens = (s :> r.v) @@ @]
    IN  Looped(LAMBDA st : st.i <= 18 /\ st.space > 0 /\ Ok(st.br), Next,
               [i |-> first, space |-> 32, lens |-> <<>>, br |-> br])

\* One symbol of the lengths.  A run of runs multiplies: rep is the run so far,
\* of length repLen.
ReadLength1(st, alphabet, clc) ==
    LET p      == DecodeSymbol(st.br, clc)
        extra  == IF p.v = 16 THEN 2 ELSE 3
        more   == ReadBits(p.br, extra)
        newLen == IF p.v = 16 THEN st.prev ELSE 0
        old    == IF newLen = st.repLen THEN st.rep ELSE 0
        rep    == (IF old > 0 THEN (old - 2) * 2 ^ extra ELSE 0) + more.v + 3
        delta  == rep - old
        Given(n, len) == [s \in st.sym .. st.sym + n - 1 |-> len] @@ st.lens
    IN  CASE ~Ok(p.br) -> [st EXCEPT !.br = p.br]
          [] p.v = 0   -> [st EXCEPT !.br = p.br, !.sym = @ + 1, !.rep = 0]
          [] p.v \in 1 .. 15 ->
               [st EXCEPT !.br = p.br, !.sym = @ + 1, !.rep = 0, !.prev = p.v,
                          !.space = @ - 32768 \div 2 ^ p.v, !.lens = Given(1, p.v)]
          [] st.sym + delta > alphabet ->
               [st EXCEPT !.br = Raise(more.br, "code-length repeat past alphabet")]
          [] OTHER ->
               [st EXCEPT !.br = more.br, !.sym = @ + delta, !.rep = rep, !.repLen = newLen,
                          !.space = @ - (IF newLen = 0 THEN 0 ELSE delta * 2 ^ (15 - newLen)),
                          !.lens = IF newLen = 0 THEN @ ELSE Given(delta, newLen)]

\* The lengths of an alphabet's symbols, coded with the code-length code clc.
ReadLengths(br, alphabet, clc) ==
    Looped(LAMBDA st : st.sym < alphabet /\ st.space > 0 /\ Ok(st.br),
           LAMBDA st : ReadLength1(st, alphabet, clc),
           [br |-> br, sym |-> 0, prev |-> 8, rep |-> 0, repLen |-> 0, space |-> 32768, lens |-> <<>>])

ReadComplex(br, alphabet, hskip) ==
    LET cl   == ReadClLengths(br, hskip + 1)
        used == DOMAIN cl.lens
        ok   == RaiseIf(cl.br, Cardinality(used) # 1 /\ cl.space # 0, "code-length code")
        clc  == IF Cardinality(used) = 1 THEN Code([s \in used |-> 0]) ELSE Code(cl.lens)
        all  == ReadLengths(ok, alphabet, clc)
        sure == RaiseIf(all.br, all.space # 0, "prefix code ")
    IN  [code |-> IF Ok(sure) THEN Code(all.lens) ELSE <<>>, br |-> sure]

ReadPrefixCode(br, alphabet) ==
    LET hskip == ReadBits(br, 2)
    IN  IF hskip.v = 1 THEN ReadSimple(hskip.br, alphabet)
        ELSE ReadComplex(hskip.br, alphabet, hskip.v)

\* n codes over one alphabet.
ReadPrefixCodes(br, n, alphabet) ==
    Folded(LAMBDA acc, i : LET r == ReadPrefixCode(acc.br, alphabet)
                                   IN  [codes |-> Append(acc.codes, r.code), br |-> r.br],
                   [codes |-> <<>>, br |-> br], Zeros(n))

-----------------------------------------------------------------------------
(* Numbers of types and trees, context maps, block switches.               *)

ReadVar256(br) ==
    LET more == ReadBits(br, 1)
        n    == ReadBits(more.br, 3)
        v    == ReadBits(n.br, n.v)
    IN  IF more.v = 0 THEN [v |-> 1, br |-> more.br]
        ELSE [v |-> 1 + 2 ^ n.v + v.v, br |-> v.br]

ReadBlockLen(br, code) ==
    LET s == DecodeSymbol(br, code)
        x == ReadBits(s.br, BL.extra[s.v + 1])
    IN  [v |-> BL.base[s.v + 1] + x.v, br |-> x.br]

ReadMapEntry(st, code, size, rlemax) ==
    LET s    == DecodeSymbol(st.br, code)
        run  == ReadBits(s.br, s.v)
        reps == 2 ^ s.v + run.v
    IN  CASE s.v > rlemax -> [v |-> Append(st.v, s.v - rlemax), br |-> s.br]
          [] s.v = 0      -> [v |-> Append(st.v, 0), br |-> s.br]
          [] Len(st.v) + reps > size ->
               [v |-> st.v, br |-> Raise(run.br, "context map RLE run past end")]
          [] OTHER        -> [v |-> st.v \o Zeros(reps), br |-> run.br]

ReadMap(br, code, size, rlemax) ==
    Looped(LAMBDA st : Len(st.v) < size /\ Ok(st.br),
           LAMBDA st : ReadMapEntry(st, code, size, rlemax), [v |-> <<>>, br |-> br])

\* A list of the trees with one moved to the front.
ToFront(mtf, i) == <<mtf[i]>> \o RemoveAt(mtf, i)

InverseMoveToFront(m, ntrees) ==
    Folded(LAMBDA acc, i : [out |-> Append(acc.out, acc.mtf[i + 1]), mtf |-> ToFront(acc.mtf, i + 1)],
             [out |-> <<>>, mtf |-> [i \in 1 .. ntrees |-> i - 1]], m).out

ReadContextMap(br, size, ntrees) ==
    LET rle    == ReadBits(br, 1)
        field  == ReadBits(rle.br, 4)
        rlemax == IF rle.v = 1 THEN field.v + 1 ELSE 0
        code   == ReadPrefixCode(IF rle.v = 1 THEN field.br ELSE rle.br, ntrees + rlemax)
        m      == ReadMap(code.br, code.code, size, rlemax)
        imtf   == ReadBits(m.br, 1)
    IN  IF ntrees < 2 THEN [v |-> Zeros(size), br |-> br]
        ELSE [v  |-> IF Ok(imtf.br) /\ imtf.v = 1 THEN InverseMoveToFront(m.v, ntrees) ELSE m.v,
              br |-> imtf.br]

Unlimited == 2 ^ 28

\* carry is what an earlier meta-block left, for M3.
BlockSwitch(br, mutant, carry) ==
    LET n    == ReadVar256(br)
        tc   == ReadPrefixCode(n.br, n.v + 2)
        cc   == ReadPrefixCode(tc.br, 26)
        left == ReadBlockLen(cc.br, cc.code)
        from == IF mutant = "M3" /\ carry # <<>> THEN carry
                ELSE <<0, 0, IF mutant = "M1" THEN 0 ELSE 1>>
        State(size, tcode, ccode) ==
            [n |-> n.v, type |-> from[1], last |-> from[2], prev |-> from[3],
             left |-> size, tcode |-> tcode, ccode |-> ccode]
    IN  IF n.v < 2 THEN [b |-> State(Unlimited, <<>>, <<>>), br |-> n.br]
        ELSE [b |-> State(left.v, tc.code, cc.code), br |-> left.br]

\* One more symbol of a category; the next block's type comes first when the
\* block is used up.
Step(b, br) ==
    LET s    == DecodeSymbol(br, b.tcode)
        t0   == CASE s.v = 0 -> b.prev [] s.v = 1 -> b.last + 1 [] OTHER -> s.v - 2
        t    == IF t0 >= b.n THEN t0 - b.n ELSE t0
        left == ReadBlockLen(s.br, b.ccode)
    IN  IF b.left > 0 THEN [b |-> [b EXCEPT !.left = @ - 1], br |-> br]
        ELSE IF ~Ok(s.br) \/ ~Ok(left.br) THEN [b |-> b, br |-> IF Ok(s.br) THEN left.br ELSE s.br]
        ELSE [b  |-> [b EXCEPT !.prev = b.last, !.last = t, !.type = t, !.left = left.v - 1],
              br |-> left.br]
=============================================================================
