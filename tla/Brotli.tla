------------------------------- MODULE Brotli -------------------------------
(***************************************************************************)
(* src/brotli.cyr, the Brotli decoder, one step per read of its loops: the *)
(* stream header, the meta-block framing, the compressed header with its   *)
(* prefix codes and context maps, the command loop and the end.            *)
(*                                                                         *)
(* A job is one call: the bits of the source, dst_cap and max_output, and  *)
(* which entry point it goes through.  The bit reader is its position: a   *)
(* read is allowed to look at zeros past the end, and fails if it would    *)
(* consume them.  A table is the set of words _brd_sym can find in it and  *)
(* the number of entries it takes.                                         *)
(***************************************************************************)
EXTENDS BrotliTables, FiniteSets, FiniteSetsExt, Functions, TLC

CONSTANTS Jobs,        \* the calls to try, [data, cap, max, capped, intact]
          MAX_OUTPUT   \* DECOMPRESS_MAX_OUTPUT

ASSUME JobsAssumption ==
    \A j \in Jobs : /\ j.data \in Seq({0, 1})
                    /\ j.cap \in Int /\ j.max \in Int
                    /\ j.capped \in BOOLEAN /\ j.intact \in BOOLEAN
ASSUME MaxAssumption == MAX_OUTPUT \in Nat \ {0}

VARIABLES
    job,      \* the call under way
    pc,       \* where it is
    verdict,  \* "running", "ok" or the error it returned
    slab,     \* _brd_ws is allocated
    pos,      \* bits consumed
    out,      \* what is in dst, up to _brd_pos
    omax,     \* _brd_omax
    wmax,     \* _brd_wmax
    last,     \* ISLAST of the meta-block
    rem,      \* what is left of MLEN
    ring,     \* the last four distances, the last first
    cat,      \* per category NBLTYPES, type, previous type, count left
    hdr,      \* NPOSTFIX, NDIRECT, context modes, maps
    tabs,     \* the tables
    code,     \* the prefix code being read
    cmd       \* the command being run

framing == <<omax, wmax, last>>
header  == <<cat, hdr, tabs>>
body    == <<rem, ring, cmd>>
call    == <<job, slab>>
vars    == <<job, pc, verdict, slab, pos, out, omax, wmax, last, rem, ring, cat, hdr, tabs, code, cmd>>

Categories == 1 .. 3  \* literal, insert-and-copy, distance

-----------------------------------------------------------------------------
(* The reader.                                                             *)

Data == job.data
Ahead(at, n) == [i \in 1 .. n |-> IF at + i <= Len(Data) THEN Data[at + i] ELSE 0]
Bits1(at, n) == Value(Ahead(at, n))
\* Wrong: zeros past the end are read as if they were there.
Invents(at) == at <= Len(Data) + 56

Within(at)   == at <= Len(Data)

\* The next byte boundary; the bits skipped must be zero.
Aligned(at)    == 8 * ((at + 7) \div 8)
PaddingOk(at)  == Bits1(at, Aligned(at) - at) = 0
RawBytes(at, n) == [i \in 1 .. n |-> Bits1(at + 8 * (i - 1), 8)]

\* _brd_sym: the symbol at a position and where it ends.
Sym(tab, at) ==
    LET ahead == Ahead(at, 15)
        w     == CHOOSE w \in DOMAIN tab.words : SubSeq(ahead, 1, Len(w)) = w
    IN  [v |-> tab.words[w], to |-> at + Len(w)]

Fail(why) ==
    /\ verdict' = why
    /\ pc' = "done"
    /\ UNCHANGED <<call, pos, out, framing, header, body, code>>

Corrupt == Fail("ERR_CORRUPT_DATA")

Nothing(stays) == UNCHANGED stays /\ UNCHANGED <<call, verdict>>

-----------------------------------------------------------------------------
(* Prefix codes: the table builder.  lens maps symbols to lengths 1..15.   *)

NumberWord(v, n) == [i \in 1 .. n |-> (v \div 2 ^ (n - i)) % 2]

Count(lens, l) == Cardinality({s \in DOMAIN lens : lens[s] = l})

FirstCode(lens) ==
    LET first[l \in 1 .. 15] == IF l = 1 THEN 0 ELSE 2 * (first[l - 1] + Count(lens, l - 1))
    IN  first

CodeWords(lens) ==
    LET first == FirstCode(lens)
        Rank(s) == Cardinality({t \in DOMAIN lens : lens[t] = lens[s] /\ t < s})
    IN  [s \in DOMAIN lens |-> NumberWord(first[lens[s]] + Rank(s), lens[s])]

RootOf(w) == SubSeq(w, 1, 8)

\* Wrong: the level is closed a bit early.
ShortLevel(lens, rest, len) ==
    LET Left(l) == 2 ^ (l - 8) - MapThenSumSet(
                       LAMBDA k : 2 ^ (l - k) * Cardinality({s \in rest : lens[s] = k}), len .. l)
        full    == {l \in len .. 14 : Left(l) <= 1}
    IN  IF full = {} THEN 7 ELSE Min(full) - 8

\* NextTableBitSize: the bits of a second level opened at a code of length len,
\* while the symbols of rest are still to be placed.
SubBits(lens, rest, len) ==
    LET Left(l) == 2 ^ (l - 8) - MapThenSumSet(
                       LAMBDA k : 2 ^ (l - k) * Cardinality({s \in rest : lens[s] = k}), len .. l)
        full    == {l \in len .. 14 : Left(l) <= 0}
    IN  IF full = {} THEN 7 ELSE Min(full) - 8

\* A second level is opened where the first eight bits change.  words are those
\* whose tail its second level has room for.
Build(lens) ==
    LET words   == CodeWords(lens)
        Deep    == {s \in DOMAIN lens : lens[s] > 8}
        After(s) == {t \in Deep : lens[t] > lens[s] \/ (lens[t] = lens[s] /\ t >= s)}
        opener  == {s \in Deep : \A t \in Deep \ After(s) : RootOf(words[t]) # RootOf(words[s])}
        bits    == [s \in opener |-> SubBits(lens, After(s), lens[s])]
        Sub(s)  == CHOOSE t \in opener : RootOf(words[t]) = RootOf(words[s])
        kept    == {s \in DOMAIN lens : s \in Deep => lens[s] - 8 <= bits[Sub(s)]}
        Slots(s) == IF s \in Deep THEN 2 ^ (bits[Sub(s)] - (lens[s] - 8)) ELSE 2 ^ (8 - lens[s])
    IN  [words   |-> [w \in {words[s] : s \in kept} |-> CHOOSE s \in kept : words[s] = w],
         used    |-> 256 + MapThenSumSet(LAMBDA s : 2 ^ bits[s], opener),
         written |-> Cardinality(opener) + MapThenSumSet(Slots, kept)]

OneSymbol(s) == [words |-> (<<>> :> s), used |-> 256, written |-> 256]

-----------------------------------------------------------------------------
(* Reading a prefix code.                                                  *)

NoCode == [alpha |-> 0, cap |-> 0, dest |-> "none"]

\* _brd_read_code, called for one of four destinations.
StartCode(alpha, cap, dest) ==
    /\ pc' = "code"
    /\ code' = [alpha |-> alpha, cap |-> cap, dest |-> dest]

Code ==
    /\ pc = "code"
    /\ \/ ~Within(pos + 2) /\ Corrupt
       \/ /\ Within(pos + 2)
          /\ pos' = pos + 2
          /\ pc' = IF Bits1(pos, 2) = 1 THEN "simple" ELSE "clen"
          /\ code' = [i |-> Bits1(pos, 2), space |-> 32, lens |-> <<>>] @@ code
          /\ Nothing(<<out, framing, header, body>>)

\* _brd_build at the end of a code: its table must not cross cap, nor 4096.
Built(table, to) ==
    \/ /\ table.used > code.cap \/ table.used > 4096
       /\ Corrupt
    \/ /\ table.used <= code.cap /\ table.used <= 4096
       /\ code' = [alpha |-> code.alpha, cap |-> code.cap, dest |-> code.dest, table |-> table]
       /\ pc' = "built"
       /\ pos' = to
       /\ Nothing(<<out, framing, header, body>>)

BitsFor(alpha) == CHOOSE b \in 0 .. 10 : alpha <= 2 ^ b /\ (b = 0 \/ alpha > 2 ^ (b - 1))

SimpleLens(n, tsel) ==
    CASE n = 2 -> <<1, 1>> [] n = 3 -> <<1, 2, 2>>
      [] OTHER -> IF tsel = 1 THEN <<1, 2, 3, 3>> ELSE <<2, 2, 2, 2>>

Simple ==
    /\ pc = "simple"
    /\ LET n     == Bits1(pos, 2) + 1
           abits == BitsFor(code.alpha)
           To(i) == pos + 2 + abits * i
           sym   == [i \in 1 .. n |-> Bits1(To(i - 1), abits)]
           outside == \E i \in 1 .. n : Within(To(i)) /\ sym[i] >= code.alpha
           to    == IF n = 4 THEN To(4) + 1 ELSE To(n)
           lens  == SimpleLens(n, Bits1(To(4), 1))
       IN  \/ /\ outside \/ (Within(To(n)) /\ ~IsInjective(sym))
              /\ Fail("ERR_INVALID_HUFFMAN")
           \/ /\ ~outside
              /\ ~Within(To(n)) \/ (IsInjective(sym) /\ ~Within(to))
              /\ Corrupt
           \/ /\ ~outside /\ IsInjective(sym) /\ Within(to)
              /\ Built(IF n = 1 THEN OneSymbol(sym[1])
                       ELSE Build([s \in Range(sym) |-> lens[CHOOSE i \in 1 .. n : sym[i] = s]]), to)

\* BRD_CLCL_BITS and BRD_CLCL_VALUE, by the next four bits.
ClclBits  == <<2, 2, 2, 3, 2, 2, 2, 4, 2, 2, 2, 3, 2, 2, 2, 4>>
ClclValue == <<0, 4, 3, 2, 0, 4, 3, 1, 0, 4, 3, 2, 0, 4, 3, 5>>

\* The length of one code-length symbol.
ClLen ==
    /\ pc = "clen"
    /\ LET ix    == Bits1(pos, 4) + 1
           to    == pos + ClclBits[ix]
           v     == ClclValue[ix]
           space == IF v = 0 THEN code.space ELSE code.space - 32 \div 2 ^ v
       IN  \/ ~Within(to) /\ Corrupt
           \/ /\ Within(to)
              /\ pos' = to
              /\ code' = [code EXCEPT !.i = @ + 1, !.space = space,
                                      !.lens = IF v = 0 THEN @ ELSE (CL_ORDER[code.i + 1] :> v) @@ @]
              /\ pc' = IF space <= 0 \/ code.i = 17 THEN "clc" ELSE "clen"
              /\ Nothing(<<out, framing, header, body>>)

ClCode ==
    /\ pc = "clc"
    /\ LET used == DOMAIN code.lens
       IN  \/ /\ Cardinality(used) # 1 /\ code.space # 0
              /\ Fail("ERR_INVALID_HUFFMAN")
           \/ /\ Cardinality(used) = 1 \/ code.space = 0
              /\ pc' = "length"
              /\ code' = [clc |-> IF Cardinality(used) = 1 THEN OneSymbol(Min(used)) ELSE Build(code.lens),
                          symbol |-> 0, space |-> 32768, lens |-> <<>>,
                          prev |-> 8, rep |-> 0, repLen |-> 0] @@ code
              /\ Nothing(<<pos, out, framing, header, body>>)

\* Wrong: the end of the alphabet is not looked at.
AnySymbol(symbol, space) == space > 0

MoreLengths(symbol, space) == symbol < code.alpha /\ space > 0

\* One symbol's length.
LengthOne(c, to) ==
    LET space == IF c = 0 THEN code.space ELSE code.space - 32768 \div 2 ^ c
    IN  /\ pos' = to
        /\ code' = [code EXCEPT !.rep = 0, !.symbol = @ + 1, !.space = space,
                                !.prev = IF c = 0 THEN @ ELSE c,
                                !.lens = IF c = 0 THEN @ ELSE (code.symbol :> c) @@ @]
        /\ pc' = IF MoreLengths(code.symbol + 1, space) THEN "length" ELSE "lens"
        /\ Nothing(<<out, framing, header, body>>)

\* A run of them: a repeat after a repeat of the same length makes it longer.
LengthRun(c, at) ==
    LET eb     == IF c = 16 THEN 2 ELSE 3
        newLen == IF c = 16 THEN code.prev ELSE 0
        old    == IF code.repLen = newLen THEN code.rep ELSE 0
        rep    == (IF old > 0 THEN (old - 2) * 2 ^ eb ELSE 0) + Bits1(at, eb) + 3
        delta  == rep - old
        end    == code.symbol + delta
        space  == IF newLen = 0 THEN code.space ELSE code.space - delta * 2 ^ (15 - newLen)
    IN  \/ ~Within(at + eb) /\ Corrupt
        \/ /\ Within(at + eb) /\ end > code.alpha
           /\ Fail("ERR_INVALID_HUFFMAN")
        \/ /\ Within(at + eb) /\ end <= code.alpha
           /\ pos' = at + eb
           /\ code' = [code EXCEPT !.symbol = end, !.space = space, !.rep = rep, !.repLen = newLen,
                          !.lens = IF newLen = 0 THEN @
                                   ELSE [s \in code.symbol .. end - 1 |-> newLen] @@ @]
           /\ pc' = IF MoreLengths(end, space) THEN "length" ELSE "lens"
           /\ Nothing(<<out, framing, header, body>>)

Length ==
    /\ pc = "length"
    /\ LET c == Sym(code.clc, pos)
       IN  \/ ~Within(c.to) /\ Corrupt
           \/ Within(c.to) /\ c.v < 16 /\ LengthOne(c.v, c.to)
           \/ Within(c.to) /\ c.v >= 16 /\ LengthRun(c.v, c.to)

Lens ==
    /\ pc = "lens"
    /\ \/ code.space # 0 /\ Fail("ERR_INVALID_HUFFMAN")
       \/ code.space = 0 /\ Built(Build(code.lens), pos)

-----------------------------------------------------------------------------
(* The call, the stream header and the meta-block framing.                 *)

\* brotli_decompress, or brotli_decompress_capped when the job says so.
Call ==
    /\ pc = "call"
    /\ LET j == job
       IN  \/ /\ (j.capped /\ (j.max < 1 \/ j.cap < 1)) \/ j.data = <<>> \/ j.cap < 0
              /\ Fail("ERR_INVALID_INPUT")
           \/ /\ ~(j.capped /\ (j.max < 1 \/ j.cap < 1)) /\ j.data # <<>> /\ j.cap >= 0
              /\ omax' = CASE ~j.capped      -> MAX_OUTPUT
                           [] j.max > j.cap  -> j.cap
                           [] OTHER          -> j.max
              /\ pc' = "wbits"
              /\ Nothing(<<pos, out, wmax, last, header, body, code>>)

WBits ==
    /\ pc = "wbits"
    /\ LET n  == Bits1(pos + 1, 3)
           m  == Bits1(pos + 4, 3)
           to == CASE Bits1(pos, 1) = 0 -> pos + 1 [] n # 0 -> pos + 4 [] OTHER -> pos + 7
           w  == CASE Bits1(pos, 1) = 0 -> 16 [] n # 0 -> 17 + n
                   [] m # 0 -> 8 + m [] OTHER -> 17
       IN  \/ ~Within(to) /\ Corrupt
           \/ Within(to) /\ to = pos + 7 /\ m = 1 /\ Fail("ERR_UNSUPPORTED_FORMAT")
           \/ /\ Within(to) /\ ~(to = pos + 7 /\ m = 1)
              /\ pos' = to
              /\ wmax' = 2 ^ w - 16
              /\ pc' = "meta"
              /\ Nothing(<<out, omax, last, header, body, code>>)

AfterBlock(islast) == IF islast THEN "end" ELSE "meta"

\* ISLAST, ISLASTEMPTY and MNIBBLES.
Meta ==
    /\ pc = "meta"
    /\ LET islast == Bits1(pos, 1) = 1
           empty  == islast /\ Bits1(pos + 1, 1) = 1
           at     == IF islast THEN pos + 2 ELSE pos + 1
           to     == IF empty THEN at ELSE at + 2
       IN  \/ ~Within(to) /\ Corrupt
           \/ /\ Within(to)
              /\ pos' = to
              /\ last' = islast
              /\ pc' = CASE empty -> "end" [] Bits1(at, 2) = 3 -> "metadata" [] OTHER -> "mlen"
              /\ Nothing(<<out, omax, wmax, header, body, code>>)

\* The reserved bit, MSKIPLEN, zero padding and the bytes skipped.
Metadata ==
    /\ pc = "metadata"
    /\ LET nbytes == Bits1(pos + 1, 2)
           at     == pos + 3 + 8 * nbytes
           skip   == IF nbytes = 0 THEN 0 ELSE Bits1(pos + 3, 8 * nbytes) + 1
           to     == Aligned(at) + 8 * skip
           exuberant == nbytes > 1 /\ Bits1(at - 8, 8) = 0
       IN  \/ /\ ~Within(to) \/ Bits1(pos, 1) = 1 \/ exuberant \/ ~PaddingOk(at)
              /\ Corrupt
           \/ /\ Within(to) /\ Bits1(pos, 1) = 0 /\ ~exuberant /\ PaddingOk(at)
              /\ pos' = to
              /\ pc' = AfterBlock(last)
              /\ Nothing(<<out, framing, header, body, code>>)

\* Wrong: a ceiling above dst stands for dst.
OneBound(mlen) == IF Len(out) + mlen > omax THEN "ERR_OUTPUT_LIMIT" ELSE ""

\* Wrong: dst is tested first.
DstFirst(mlen) ==
    LET end == Len(out) + mlen
    IN  CASE end > job.cap -> "ERR_BUFFER_TOO_SMALL"
          [] end > omax    -> "ERR_OUTPUT_LIMIT"
          [] OTHER         -> ""

\* The error of a meta-block of mlen bytes that has no room, or "".
BoundError(mlen) ==
    LET end == Len(out) + mlen
        cap == job.cap
    IN  CASE omax < cap /\ end > omax -> "ERR_OUTPUT_LIMIT"
          [] end > cap                -> "ERR_BUFFER_TOO_SMALL"
          [] end > omax               -> "ERR_OUTPUT_LIMIT"
          [] OTHER                    -> ""

\* MLEN, ISUNCOMPRESSED, the output bounds, and the slab a compressed block
\* needs: _sankoch_alloc may refuse it.
MLen ==
    /\ pc = "mlen"
    /\ LET nibbles == Bits1(pos - 2, 2) + 4
           at      == pos + 4 * nibbles
           mlen    == Bits1(pos, 4 * nibbles) + 1
           raw     == ~last /\ Bits1(at, 1) = 1
           to      == IF last THEN at ELSE at + 1
           bad     == ~Within(to) \/ (nibbles > 4 /\ Bits1(at - 4, 4) = 0)
       IN  \/ bad /\ Corrupt
           \/ ~bad /\ BoundError(mlen) # "" /\ Fail(BoundError(mlen))
           \/ ~bad /\ BoundError(mlen) = "" /\ ~raw /\ ~slab /\ Fail("ERR_OOM")
           \/ /\ ~bad /\ BoundError(mlen) = ""
              /\ pos' = to
              /\ rem' = mlen
              /\ IF raw THEN /\ pc' = "uncompressed"
                             /\ UNCHANGED <<slab, header>>
                 ELSE /\ pc' = "types"
                      /\ slab' = TRUE
                      /\ cat' = <<>>
                      /\ hdr' = [npostfix |-> 0, ndirect |-> 0, cmodes |-> <<>>, ntrees |-> <<>>, maps |-> <<>>]
                      /\ tabs' = [type |-> <<>>, count |-> <<>>, map |-> <<>>, tree |-> << <<>>, <<>>, <<>> >>]
              /\ UNCHANGED <<job, verdict, out, framing, ring, cmd, code>>

Uncompressed ==
    /\ pc = "uncompressed"
    /\ LET at == Aligned(pos)
           to == at + 8 * rem
       IN  \/ /\ ~PaddingOk(pos) \/ ~Within(to)
              /\ Corrupt
           \/ /\ PaddingOk(pos) /\ Within(to)
              /\ out' = out \o RawBytes(at, rem)
              /\ pos' = to
              /\ rem' = 0
              /\ pc' = AfterBlock(last)
              /\ Nothing(<<framing, header, ring, cmd, code>>)

\* Zero padding, then the end of the source and nothing after it.
End ==
    /\ pc = "end"
    /\ \/ /\ PaddingOk(pos) /\ Aligned(pos) = Len(Data)
          /\ verdict' = "ok"
          /\ pc' = "done"
          /\ UNCHANGED <<call, pos, out, framing, header, body, code>>
       \/ /\ ~PaddingOk(pos) \/ Aligned(pos) # Len(Data)
          /\ Corrupt

-----------------------------------------------------------------------------
(* The header of a compressed meta-block.                                  *)

\* _brd_varlen8, plus one: 1 .. 256.
VarLen8(at) ==
    LET n == Bits1(at + 1, 3)
    IN  IF Bits1(at, 1) = 0 THEN [v |-> 1, to |-> at + 1]
        ELSE [v |-> 1 + 2 ^ n + Bits1(at + 4, n), to |-> at + 4 + n]

Never == 2 ^ 30  \* BRD_BLEN_NEVER, a count no stream uses up

\* A block count and where it ends.
BlockLen(tab, at) ==
    LET k == Sym(tab, at)
        x == BL.extra[k.v + 1]
    IN  [v |-> BL.base[k.v + 1] + Bits1(k.to, x), to |-> k.to + x]

AfterTypes(c) == IF c = 3 THEN "params" ELSE "types"

\* NBLTYPES of the next category: one type has no codes, and its count never ends.
Types ==
    /\ pc = "types"
    /\ LET n == VarLen8(pos)
           c == Len(cat) + 1
       IN  \/ ~Within(n.to) /\ Corrupt
           \/ /\ Within(n.to)
              /\ pos' = n.to
              /\ cat' = Append(cat, [n |-> n.v, type |-> 0, prev |-> 1, left |-> Never])
              /\ IF n.v = 1 THEN pc' = AfterTypes(c) /\ UNCHANGED code
                 ELSE StartCode(n.v + 2, 632, "type")
              /\ Nothing(<<out, framing, hdr, tabs, body>>)

TypeCode ==
    /\ pc = "built" /\ code.dest = "type"
    /\ tabs' = [tabs EXCEPT !.type = (Len(cat) :> code.table) @@ @]
    /\ StartCode(26, 396, "count")
    /\ Nothing(<<pos, out, framing, cat, hdr, body>>)

\* The first count is read with the code just built.
CountCode ==
    /\ pc = "built" /\ code.dest = "count"
    /\ LET c    == Len(cat)
           left == BlockLen(code.table, pos)
       IN  \/ ~Within(left.to) /\ Corrupt
           \/ /\ Within(left.to)
              /\ pos' = left.to
              /\ tabs' = [tabs EXCEPT !.count = (c :> code.table) @@ @]
              /\ cat' = [cat EXCEPT ![c].left = left.v]
              /\ code' = NoCode
              /\ pc' = AfterTypes(c)
              /\ Nothing(<<out, framing, hdr, body>>)

\* NPOSTFIX, NDIRECT and a context mode for each type of literals.
Params ==
    /\ pc = "params"
    /\ LET np == Bits1(pos, 2)
           to == pos + 6 + 2 * cat[1].n
       IN  \/ ~Within(to) /\ Corrupt
           \/ /\ Within(to)
              /\ pos' = to
              /\ hdr' = [hdr EXCEPT !.npostfix = np, !.ndirect = Bits1(pos + 2, 4) * 2 ^ np,
                                    !.cmodes = [i \in 1 .. cat[1].n |-> Bits1(pos + 4 + 2 * i, 2)]]
              /\ pc' = "map"
              /\ Nothing(<<out, framing, cat, tabs, body, code>>)

MapSize(k) == IF k = 1 THEN 64 * cat[1].n ELSE 4 * cat[3].n

AfterMap(k) == IF k = 2 THEN "tree" ELSE "map"

\* NTREES of the next context map, and RLEMAX: one tree has no map to read.
MapStart ==
    /\ pc = "map"
    /\ LET k   == Len(hdr.maps) + 1
           nt  == VarLen8(pos)
           rle == Bits1(nt.to, 1) = 1
           to  == CASE nt.v = 1 -> nt.to [] rle -> nt.to + 5 [] OTHER -> nt.to + 1
           rlemax == IF rle THEN Bits1(nt.to + 1, 4) + 1 ELSE 0
       IN  \/ ~Within(to) /\ Corrupt
           \/ /\ Within(to)
              /\ pos' = to
              /\ IF nt.v = 1
                   THEN /\ hdr' = [hdr EXCEPT !.ntrees = Append(@, 1), !.maps = Append(@, Zeros(MapSize(k)))]
                        /\ pc' = AfterMap(k)
                        /\ UNCHANGED code
                   ELSE /\ hdr' = [rlemax |-> rlemax]
                                  @@ [hdr EXCEPT !.ntrees = Append(@, nt.v), !.maps = Append(@, <<>>)]
                        /\ StartCode(nt.v + rlemax, 646, "map")
              /\ Nothing(<<out, framing, cat, tabs, body>>)

MapCode ==
    /\ pc = "built" /\ code.dest = "map"
    /\ tabs' = [tabs EXCEPT !.map = code.table]
    /\ pc' = "entry"
    /\ code' = NoCode
    /\ Nothing(<<pos, out, framing, cat, hdr, body>>)

\* Wrong: the run lengths are not taken off.
RunsIncluded(v) == v

\* The tree a symbol above the run lengths stands for.
TreeOf(v) == v - hdr.rlemax

\* An entry of the map being read, or a run of zeros.
MapEntry ==
    /\ pc = "entry"
    /\ LET k    == Len(hdr.maps)
           have == Len(hdr.maps[k])
           c    == Sym(tabs.map, pos)
           run  == c.v # 0 /\ c.v <= hdr.rlemax
           to   == IF run THEN c.to + c.v ELSE c.to
           more == CASE run -> Zeros(2 ^ c.v + Bits1(c.to, c.v))
                     [] c.v = 0 -> <<0>> [] OTHER -> <<TreeOf(c.v)>>
       IN  \/ /\ ~Within(to) \/ have + Len(more) > MapSize(k)
              /\ Corrupt
           \/ /\ Within(to) /\ have + Len(more) <= MapSize(k)
              /\ pos' = to
              /\ hdr' = [hdr EXCEPT !.maps[k] = @ \o more]
              /\ pc' = IF have + Len(more) = MapSize(k) THEN "imtf?" ELSE "entry"
              /\ Nothing(<<out, framing, cat, tabs, body, code>>)

\* Whether the map was moved to front: the list starts as 0 .. 255.
MapEnd ==
    /\ pc = "imtf?"
    /\ LET k == Len(hdr.maps)
       IN  \/ ~Within(pos + 1) /\ Corrupt
           \/ /\ Within(pos + 1)
              /\ pos' = pos + 1
              /\ IF Bits1(pos, 1) = 1
                   THEN /\ pc' = "imtf"
                        /\ hdr' = [i |-> 1, mtf |-> [i \in 1 .. 256 |-> i - 1]] @@ hdr
                   ELSE pc' = AfterMap(k) /\ UNCHANGED hdr
              /\ Nothing(<<out, framing, cat, tabs, body, code>>)

\* _brd_imtf, one entry: the tree it names moves to the front of the list.
Imtf ==
    /\ pc = "imtf"
    /\ LET k   == Len(hdr.maps)
           idx == hdr.maps[k][hdr.i]
           v   == hdr.mtf[idx + 1]
       IN  /\ hdr' = [hdr EXCEPT !.maps[k][hdr.i] = v, !.i = @ + 1,
                        !.mtf = [j \in DOMAIN @ |-> CASE j = 1 -> v [] j <= idx + 1 -> hdr.mtf[j - 1]
                                                      [] OTHER -> hdr.mtf[j]]]
           /\ pc' = IF hdr.i = MapSize(k) THEN AfterMap(k) ELSE "imtf"
    /\ Nothing(<<pos, out, framing, cat, tabs, body, code>>)

\* The tree groups: how many trees, over which alphabet, in how many entries.
TreesOf(g)   == CASE g = 1 -> hdr.ntrees[1] [] g = 2 -> cat[2].n [] OTHER -> hdr.ntrees[2]
AlphaOf(g)   == CASE g = 1 -> 256 [] g = 2 -> 704
                  [] OTHER -> 16 + hdr.ndirect + 48 * 2 ^ hdr.npostfix
EntriesOf(g) == CASE g = 1 -> 161792 [] g = 2 -> 276480 [] OTHER -> 229376
UsedOf(g)    == MapThenSumSet(LAMBDA i : tabs.tree[g][i].used, DOMAIN tabs.tree[g])
Unread       == {g \in Categories : Len(tabs.tree[g]) < TreesOf(g)}

Tree ==
    /\ pc = "tree"
    /\ LET g == Min(Unread) IN StartCode(AlphaOf(g), EntriesOf(g) - UsedOf(g), "tree")
    /\ Nothing(<<pos, out, framing, header, body>>)

TreeCode ==
    /\ pc = "built" /\ code.dest = "tree"
    /\ LET g == Min(Unread)
       IN  /\ tabs' = [tabs EXCEPT !.tree[g] = Append(@, code.table)]
           /\ pc' = IF g = 3 /\ Len(tabs.tree[3]) + 1 = TreesOf(3) THEN "command" ELSE "tree"
    /\ code' = NoCode
    /\ Nothing(<<pos, out, framing, cat, hdr, body>>)

-----------------------------------------------------------------------------
(* The command loop.                                                       *)

\* Wrong: code 0 stays with the type it has.
StaysPut(c, at) ==
    LET b    == cat[c]
        t    == Sym(tabs.type[c], at)
        left == BlockLen(tabs.count[c], t.to)
        ty   == CASE t.v = 0 -> b.type [] t.v = 1 -> b.type + 1 [] OTHER -> t.v - 2
    IN  IF b.left > 0 THEN [b |-> b, to |-> at]
        ELSE [b  |-> [b EXCEPT !.type = IF ty >= b.n THEN ty - b.n ELSE ty, !.prev = b.type, !.left = left.v],
              to |-> left.to]

\* A category at its next symbol: _brd_block_switch when its count is used up.
Switched(c, at) ==
    LET b    == cat[c]
        t    == Sym(tabs.type[c], at)
        left == BlockLen(tabs.count[c], t.to)
        ty   == CASE t.v = 0 -> b.prev [] t.v = 1 -> b.type + 1 [] OTHER -> t.v - 2
    IN  IF b.left > 0 THEN [b |-> b, to |-> at]
        ELSE [b  |-> [b EXCEPT !.type = IF ty >= b.n THEN ty - b.n ELSE ty, !.prev = b.type, !.left = left.v],
              to |-> left.to]

Back(k) == IF Len(out) >= k THEN out[Len(out) - k + 1] ELSE 0

\* An insert-and-copy symbol with its extra bits, the insert's first.
Command ==
    /\ pc = "command"
    /\ LET s    == Switched(2, pos)
           sym  == Sym(tabs.tree[2][s.b.type + 1], s.to)
           cell == CELLS[sym.v \div 64 + 1]
           ic   == cell[1] + ((sym.v \div 8) % 8) + 1
           cc   == cell[2] + (sym.v % 8) + 1
           mid  == sym.to + INS.extra[ic]
           to   == mid + CPY.extra[cc]
           ilen == INS.base[ic] + Bits1(sym.to, INS.extra[ic])
       IN  \/ /\ ~Within(to) \/ ilen > rem
              /\ Corrupt
           \/ /\ Within(to) /\ ilen <= rem
              /\ pos' = to
              /\ cat' = [cat EXCEPT ![2] = [s.b EXCEPT !.left = @ - 1]]
              /\ cmd' = [ilen |-> ilen, left |-> ilen, run |-> 0, p1 |-> Back(1), p2 |-> Back(2),
                         clen |-> CPY.base[cc] + Bits1(mid, CPY.extra[cc]),
                         dctx |-> IF cc > 3 THEN 3 ELSE cc - 1, implicit |-> sym.v < 128,
                         dist |-> 0, dcode |-> 0, pos0 |-> Len(out), bit0 |-> pos]
              /\ pc' = IF ilen > 0 THEN "run" ELSE "distance"
              /\ Nothing(<<out, framing, hdr, tabs, rem, ring, code>>)

\* The literals of one block: its count is charged for all of them.
Run ==
    /\ pc = "run"
    /\ LET s == Switched(1, pos)
           n == IF cmd.left > s.b.left THEN s.b.left ELSE cmd.left
       IN  \/ ~Within(s.to) /\ Corrupt
           \/ /\ Within(s.to)
              /\ pos' = s.to
              /\ cat' = [cat EXCEPT ![1] = [s.b EXCEPT !.left = @ - n]]
              /\ cmd' = [cmd EXCEPT !.run = n]
              /\ pc' = "literal"
              /\ Nothing(<<out, framing, hdr, tabs, rem, ring, code>>)

\* The tree of a type's context; trivial when its 64 contexts share one.
TreeAt(t, c) == hdr.maps[1][64 * t + c + 1]
Trivial(t)   == \A c \in 1 .. 63 : TreeAt(t, c) = TreeAt(t, 0)

\* p1 and p2 stand still in a run of a type with one tree, and are taken from the
\* output at its end.
Literal ==
    /\ pc = "literal"
    /\ LET t    == cat[1].type
           one  == Trivial(t)
           tree == TreeAt(t, IF one THEN 0 ELSE CTX(hdr.cmodes[t + 1], cmd.p1, cmd.p2))
           lit  == Sym(tabs.tree[1][tree + 1], pos)
           over == cmd.run = 1
       IN  \/ ~Within(lit.to) /\ Corrupt
           \/ /\ Within(lit.to)
              /\ pos' = lit.to
              /\ out' = Append(out, lit.v)
              /\ cmd' = [cmd EXCEPT !.left = @ - 1, !.run = @ - 1,
                                    !.p1 = IF one /\ ~over THEN @ ELSE lit.v,
                                    !.p2 = CASE ~one -> cmd.p1 [] over -> Back(1) [] OTHER -> @]
              /\ rem' = IF cmd.left = 1 THEN rem - cmd.ilen ELSE rem
              /\ pc' = CASE cmd.left > 1 /\ ~over -> "literal"
                         [] cmd.left > 1          -> "run"
                         [] rem = cmd.ilen        -> AfterBlock(last)
                         [] OTHER                 -> "distance"
              /\ Nothing(<<framing, header, ring, code>>)

\* BRD_SHORT_DELTA: codes 4 .. 9 about the last distance, 10 .. 15 about the one before.
ShortDelta == <<-1, 1, -2, 2, -3, 3>>

\* Wrong: the codes from 10 on are about the last distance too.
AboutTheLast(dcode) ==
    IF dcode < 4 THEN ring[dcode + 1] ELSE ring[1] + ShortDelta[((dcode - 4) % 6) + 1]

ShortDistance(dcode) ==
    CASE dcode < 4  -> ring[dcode + 1]
      [] dcode < 10 -> ring[1] + ShortDelta[dcode - 3]
      [] OTHER      -> ring[2] + ShortDelta[dcode - 9]

\* _brd_dlut: the base and the number of extra bits of a code from 16 on.
DLut(dcode) ==
    LET np   == 2 ^ hdr.npostfix
        x    == dcode - 16 - hdr.ndirect
        half == (x \div np) % 2
        nb   == 1 + (x \div np) \div 2
    IN  IF x < 0 THEN [base |-> dcode - 15, extra |-> 0]
        ELSE [base |-> hdr.ndirect + ((2 + half) * 2 ^ nb - 4) * np + (x % np) + 1, extra |-> nb]

\* An implicit distance is the last one: no block switch, no count.
Implicit ==
    /\ pc = "distance" /\ cmd.implicit
    /\ cmd' = [cmd EXCEPT !.dist = ring[1], !.dcode = -1]
    /\ pc' = "copy"
    /\ Nothing(<<pos, out, framing, header, rem, ring, code>>)

Distance ==
    /\ pc = "distance" /\ ~cmd.implicit
    /\ LET s     == Switched(3, pos)
           code1 == Sym(tabs.tree[3][hdr.maps[2][4 * s.b.type + cmd.dctx + 1] + 1], s.to)
           dcode == code1.v
           far   == DLut(dcode)
           to    == IF dcode < 16 THEN code1.to ELSE code1.to + far.extra
           dist  == IF dcode < 16 THEN ShortDistance(dcode)
                    ELSE far.base + Bits1(code1.to, far.extra) * 2 ^ hdr.npostfix
       IN  \/ ~Within(to) /\ Corrupt
           \/ Within(to) /\ dist <= 0 /\ Fail("ERR_MATCH_OUT_OF_RANGE")
           \/ /\ Within(to) /\ dist > 0
              /\ pos' = to
              /\ cat' = [cat EXCEPT ![3] = [s.b EXCEPT !.left = @ - 1]]
              /\ cmd' = [cmd EXCEPT !.dist = dist, !.dcode = dcode]
              /\ pc' = "copy"
              /\ Nothing(<<out, framing, hdr, tabs, rem, ring, code>>)

MaxDistance == IF Len(out) < wmax THEN Len(out) ELSE wmax

\* After a copy or a word of n bytes.  A command that neither read nor wrote is
\* refused.
CommandOver(n) ==
    IF n < rem THEN "command" ELSE AfterBlock(last)

Stuck(n) == Len(out) + n = cmd.pos0 /\ pos = cmd.bit0

Copy ==
    /\ pc = "copy" /\ cmd.dist <= MaxDistance
    /\ LET from == Len(out) - cmd.dist
           text == [i \in 1 .. cmd.clen |-> out[from + ((i - 1) % cmd.dist) + 1]]
       IN  \/ cmd.clen > rem /\ Corrupt
           \/ /\ cmd.clen <= rem
              /\ out' = out \o text
              /\ ring' = IF cmd.dcode > 0 THEN <<cmd.dist, ring[1], ring[2], ring[3]>> ELSE ring
              /\ rem' = rem - cmd.clen
              /\ pc' = CommandOver(cmd.clen)
              /\ Nothing(<<pos, framing, header, cmd, code>>)

\* _brd_ferment, on a character that starts at i.
Flip(b, bit) == IF (b \div bit) % 2 = 1 THEN b - bit ELSE b + bit
Width(b) == CASE b < 192 -> 1 [] b < 224 -> 2 [] OTHER -> 3
Upper(w, starts) ==
    [i \in DOMAIN w |->
        CASE i \in starts /\ w[i] \in 97 .. 122                          -> w[i] - 32
          [] i - 1 \in starts /\ Width(w[i - 1]) = 2                     -> Flip(w[i], 32)
          [] i - 2 \in starts /\ Width(w[i - 2]) = 3                     -> Flip(Flip(w[i], 4), 1)
          [] OTHER                                                       -> w[i]]

\* Where the characters of a word start.
Starts(w) ==
    LET at[k \in 1 .. Len(w)] == IF k = 1 THEN 1
                                 ELSE IF at[k - 1] > Len(w) THEN at[k - 1]
                                 ELSE at[k - 1] + Width(w[at[k - 1]])
    IN  {at[k] : k \in DOMAIN w}

\* A word of the dictionary under transform tid.
Transformed(word, tid) ==
    LET t == TransformType[tid + 1]
        w == CASE t \in 1 .. 9 -> SubSeq(word, 1, Len(word) - t)
               [] t >= 12      -> SubSeq(word, t - 10, Len(word))
               [] OTHER        -> word
        u == CASE t = 10 -> Upper(w, {1}) [] t = 11 -> Upper(w, Starts(w)) [] OTHER -> w
    IN  Affix(TransformPrefix[tid + 1]) \o u \o Affix(TransformSuffix[tid + 1])

\* _brd_dict: a distance past the output names a word; the ring stays.
Word ==
    /\ pc = "copy" /\ cmd.dist > MaxDistance
    /\ LET addr  == cmd.dist - MaxDistance - 1
           words == 2 ^ NDBITS[cmd.clen + 1]
           valid == cmd.clen \in 4 .. 24
           tid   == addr \div words
           text  == Transformed(DICT(cmd.clen, addr % words), tid)
       IN  \/ ~valid /\ Fail("ERR_MATCH_OUT_OF_RANGE")
           \/ valid /\ ~job.intact /\ Fail("ERR_CHECKSUM_MISMATCH")
           \/ valid /\ job.intact /\ tid >= 121 /\ Fail("ERR_MATCH_OUT_OF_RANGE")
           \/ valid /\ job.intact /\ tid < 121 /\ (Len(text) > rem \/ Stuck(Len(text))) /\ Corrupt
           \/ /\ valid /\ job.intact /\ tid < 121 /\ Len(text) <= rem /\ ~Stuck(Len(text))
              /\ out' = out \o text
              /\ rem' = rem - Len(text)
              /\ pc' = CommandOver(Len(text))
              /\ Nothing(<<pos, framing, header, ring, cmd, code>>)

-----------------------------------------------------------------------------
Init ==
    /\ job \in Jobs
    /\ pc = "call" /\ verdict = "running"
    /\ slab \in BOOLEAN
    /\ pos = 0 /\ out = <<>> /\ omax = 0 /\ wmax = 0 /\ last = FALSE
    /\ rem = 0 /\ ring = <<4, 11, 15, 16>>
    /\ cat = <<>> /\ hdr = <<>> /\ tabs = <<>> /\ code = NoCode /\ cmd = <<>>

Framing == Call \/ WBits \/ Meta \/ Metadata \/ MLen \/ Uncompressed \/ End
Codes   == Code \/ Simple \/ ClLen \/ ClCode \/ Length \/ Lens
Header  == \/ Types \/ TypeCode \/ CountCode \/ Params \/ MapStart \/ MapCode \/ MapEntry \/ MapEnd
           \/ Imtf \/ Tree \/ TreeCode
Body    == Command \/ Run \/ Literal \/ Implicit \/ Distance \/ Copy \/ Word

Finished == pc = "done" /\ UNCHANGED vars

Next == Framing \/ Codes \/ Header \/ Body \/ Finished

Spec == Init /\ [][Next]_vars

-----------------------------------------------------------------------------
(* What a call promises.                                                   *)

\* What MLEN still leaves to write.
Owed == CASE pc = "done"                -> 0
          [] pc \in {"run", "literal"} -> rem - (cmd.ilen - cmd.left)
          [] OTHER                      -> rem

\* Where the read that a step belongs to began: a command is taken as one.
Mark == IF pc \in {"run", "literal", "distance", "copy"} THEN cmd.bit0 ELSE pos

\* The steps that may read nothing come in this order, last first.
Stages == <<"done", "end", "meta", "metadata", "mlen", "uncompressed", "types", "params", "code",
            "simple", "clen", "map", "tree", "copy", "distance", "literal", "run", "command", "imtf",
            "imtf?", "entry", "built", "lens", "length", "clc", "wbits", "call">>

\* What is left of a loop whose turns may read nothing: a code of one word is free.
ToGo == CASE pc = "length" -> code.alpha - code.symbol
          [] pc = "entry"  -> MapSize(Len(hdr.maps)) - Len(hdr.maps[Len(hdr.maps)])
          [] pc = "imtf"   -> MapSize(Len(hdr.maps)) - hdr.i
          [] OTHER         -> 0

Rank == <<Len(Data) - Mark, Owed, CHOOSE i \in DOMAIN Stages : Stages[i] = pc, ToGo>>

Less(r, s) == \E i \in 1 .. 4 : r[i] < s[i] /\ \A k \in 1 .. i - 1 : r[k] = s[k]

\* Every turn of every loop gets somewhere, though codes of one word cost no bits
\* and a word of the dictionary may come out empty: the call reads on, or writes,
\* or the rank of what is left goes down, so it returns (the guard at the end of
\* the command loop is, as its comment says, not what stops it).
EveryStepAdvances == [][Rank' \in [1 .. 4 -> Nat] /\ Less(Rank', Rank)]_vars
=============================================================================
