---------------------------- MODULE DynamicBlock ----------------------------
(***************************************************************************)
(* How the dynamic path of src/src/deflate.cyr writes a block bit by bit:  *)
(* symbols are collected and counted, two codes are made from the counts,  *)
(* the block is priced with them and with the fixed codes, and the cheaper *)
(* one is written.  When symbols are found and blocks end is the matter of *)
(* DeflateEnc; here a block may end anywhere.                              *)
(*                                                                         *)
(* bits is the stream, each code most significant bit first, every other   *)
(* field least significant bit first.                                      *)
(***************************************************************************)
EXTENDS Inflate, HuffmanEnc

CONSTANTS
    Jobs,       \* what is found: [length |-> 1, byte] or [length, distance]
    LitCap,     \* the longest length or distance code, 15, and
    ClCap,      \* the longest code of a code length, 7
    MaxBlocks   \* bound on the blocks of a stream

ASSUME DynamicBlockAssumption == {LitCap, ClCap, MaxBlocks} \subseteq Nat \ {0}

VARIABLES
    todo,       \* what is left to collect
    syms,       \* _dyn_sym_buf
    litFreq,    \* _dyn_lit_freq
    distFreq,   \* _dyn_dist_freq
    blocks,     \* how many blocks were written
    bits,       \* the stream
    plain       \* the bytes collected

vars == <<todo, syms, litFreq, distFreq, blocks, bits, plain>>

None(n) == [i \in 1 .. n |-> 0]

Init ==
    /\ todo \in Jobs
    /\ syms = <<>> /\ litFreq = None(286) /\ distFreq = None(30)
    /\ blocks = 0 /\ bits = <<>> /\ plain = <<>>

-----------------------------------------------------------------------------
(* Symbols.  Extra bits follow their code.                                  *)

Field(v, n) == [i \in 1 .. n |-> (v \div 2 ^ (i - 1)) % 2]

LenCode(length)    == Max({i \in 0 .. 28 : LenBase(i) <= length})
DistCode(distance) == Max({i \in 0 .. 29 : DistBase(i) <= distance})

Plain(byte) == [lit |-> byte, extra |-> <<>>, match |-> FALSE]

MatchOf(m) ==
    LET i == LenCode(m.length)
        d == DistCode(m.distance)
    IN  [lit |-> 257 + i, extra |-> Field(m.length - LenBase(i), LenExtra(i)),
         match |-> TRUE,
         dist |-> d, distExtra |-> Field(m.distance - DistBase(d), DistExtra(d))]

EndOfBlock == Plain(256)

\* _deflate_write_syms_dynamic.
SymbolBits(lit, dist, s) ==
    EncCode(lit, s.lit + 1) \o s.extra
      \o (IF s.match THEN EncCode(dist, s.dist + 1) \o s.distExtra ELSE <<>>)

SymsBits(lit, dist, ss) ==
    FlattenSeq([k \in DOMAIN ss |-> SymbolBits(lit, dist, ss[k])])

-----------------------------------------------------------------------------
(* The header of a dynamic block.                                          *)

Item(sym, extra) == [sym |-> sym, extra |-> extra]

ZeroRun[n \in Nat] ==
    LET Long  == Min({n, 138})
        Short == Min({n, 10})
    IN  IF n = 0 THEN <<>>
        ELSE IF n >= 11 THEN <<Item(18, Field(Long - 11, 7))>> \o ZeroRun[n - Long]
        ELSE IF n >= 3 THEN <<Item(17, Field(Short - 3, 3))>> \o ZeroRun[n - Short]
        ELSE <<Item(0, <<>>)>> \o ZeroRun[n - 1]

\* n more of the length v.
Repeats(v, n0) ==
    LET more[n \in Nat] ==
            IF n >= 3 THEN <<Item(16, Field(Min({n, 6}) - 3, 2))>> \o more[n - Min({n, 6})]
            ELSE [k \in 1 .. n |-> Item(v, <<>>)]
    IN  more[n0]

\* Mutant: the first length of a run is not counted.
RunWithFirst(v, n) == IF v = 0 THEN ZeroRun[n] ELSE <<Item(v, <<>>)>> \o Repeats(v, n)

Run(v, n) == IF v = 0 THEN ZeroRun[n] ELSE <<Item(v, <<>>)>> \o Repeats(v, n - 1)

\* Runs go on from the lengths of one code into those of the other.
RunLengths(lens) ==
    LET from[i \in Nat] ==
            LET n == Max({n \in 1 .. Len(lens) - i : \A k \in 1 .. n : lens[i + k] = lens[i + 1]})
            IN  IF i = Len(lens) THEN <<>> ELSE Run(lens[i + 1], n) \o from[i + n]
    IN  from[0]

\* As far as the last symbol with a code, and at least this far.
Trimmed(lens, least) ==
    SubSeq(lens, 1, Max({least} \cup {i \in DOMAIN lens : lens[i] # 0}))

ClFreq(items) ==
    [i \in 1 .. 19 |-> Cardinality({k \in DOMAIN items : items[k].sym = i - 1})]

ClLens(items) == ComputeLengths(ClFreq(items), 2, ClCap)

\* _deflate_write_dynamic_header.
HeaderBits(lit, dist) ==
    LET items  == RunLengths(lit \o dist)
        cl     == ClLens(items)
        fields == Trimmed([k \in 1 .. 19 |-> cl[ClOrder[k] + 1]], 4)
    IN  Field(Len(lit) - 257, 5) \o Field(Len(dist) - 1, 5) \o Field(Len(fields) - 4, 4)
          \o FlattenSeq([k \in DOMAIN fields |-> Field(fields[k], 3)])
          \o FlattenSeq([k \in DOMAIN items |->
                 EncCode(cl, items[k].sym + 1) \o items[k].extra])

-----------------------------------------------------------------------------
(* The two blocks.                                                         *)

FixedLitLens  == [i \in 1 .. 288 |-> IF i <= 144 THEN 8 ELSE IF i <= 256 THEN 9
                                     ELSE IF i <= 280 THEN 7 ELSE 8]
FixedDistLens == [i \in 1 .. 30 |-> 5]

\* The counts with the end of the block.
Closed(freq) == [freq EXCEPT ![257] = @ + 1]

LitLens(freq) == Trimmed(ComputeLengths(freq, 257, LitCap), 257)

\* A block without matches counts distance code 0 once.
Counted(freq) == IF Used(freq) = {} THEN [freq EXCEPT ![1] = 1] ELSE freq

DistLens(freq) == Trimmed(ComputeLengths(Counted(freq), 1, LitCap), 1)

FixedBits(final, ss) == Field(final, 1) \o Field(1, 2) \o SymsBits(FixedLitLens, FixedDistLens, ss)

DynamicBits(final, ss, lit, dist) ==
    Field(final, 1) \o Field(2, 2) \o HeaderBits(lit, dist) \o SymsBits(lit, dist, ss)

\* What the codes of a block cost, without the extra bits.
Price(freq, lens) == SumFunction([i \in Used(freq) |-> freq[i] * lens[i]])

\* Mutant: the distance that was counted for want of any is paid for.
DynamicPaysMore(lit, dist, litLens, distLens) ==
    Price(lit, FixedLitLens) + Price(Counted(dist), FixedDistLens)
      > Len(HeaderBits(litLens, distLens)) + Price(lit, litLens) + Price(Counted(dist), distLens)

DynamicPays(lit, dist, litLens, distLens) ==
    Price(lit, FixedLitLens) + Price(dist, FixedDistLens)
      > Len(HeaderBits(litLens, distLens)) + Price(lit, litLens) + Price(dist, distLens)

-----------------------------------------------------------------------------
(* Actions.                                                                *)

\* _dyn_collect_at, where the match finder found a match.
CollectMatch ==
    /\ todo # <<>> /\ todo[1].length >= 3
    /\ LET m == todo[1]
           s == MatchOf(m)
       IN  /\ syms' = Append(syms, s)
           /\ litFreq' = [litFreq EXCEPT ![s.lit + 1] = @ + 1]
           /\ distFreq' = [distFreq EXCEPT ![s.dist + 1] = @ + 1]
           /\ plain' = plain \o MatchCopy(plain, m.distance, m.length)
    /\ todo' = Tail(todo)
    /\ UNCHANGED <<blocks, bits>>

CollectLiteral ==
    /\ todo # <<>> /\ todo[1].length = 1
    /\ LET byte == todo[1].byte
       IN  /\ syms' = Append(syms, Plain(byte))
           /\ litFreq' = [litFreq EXCEPT ![byte + 1] = @ + 1]
           /\ plain' = Append(plain, byte)
    /\ todo' = Tail(todo)
    /\ UNCHANGED <<distFreq, blocks, bits>>

\* Mutant: the distances are not forgotten.
KeptDistances == syms' = <<>> /\ litFreq' = None(286) /\ UNCHANGED distFreq

\* _dyn_reset.
ResetCounts == syms' = <<>> /\ litFreq' = None(286) /\ distFreq' = None(30)

\* _dyn_flush_subblock, and the reset behind it.  An empty block is only
\* written as the last one.
FlushBlock(final) ==
    /\ IF final = 1 THEN todo = <<>> /\ blocks < MaxBlocks
                    ELSE syms # <<>> /\ blocks + 1 < MaxBlocks
    /\ LET lit  == LitLens(Closed(litFreq))
           dist == DistLens(distFreq)
           ss   == Append(syms, EndOfBlock)
       IN  bits' = bits \o IF DynamicPays(Closed(litFreq), distFreq, lit, dist)
                             THEN DynamicBits(final, ss, lit, dist)
                             ELSE FixedBits(final, ss)
    /\ ResetCounts
    /\ blocks' = IF final = 1 THEN MaxBlocks ELSE blocks + 1
    /\ UNCHANGED <<todo, plain>>

Next == CollectLiteral \/ CollectMatch \/ \E final \in {0, 1} : FlushBlock(final)

Spec == Init /\ [][Next]_vars

-----------------------------------------------------------------------------
(* Properties.                                                             *)

\* The lengths of the codes of n symbols, shortest first: those of a binary
\* tree's leaves, one of which has grown two others.
Shapes[n \in Nat] ==
    LET Grown(p) == {SubSeq(p, 1, k - 1) \o <<p[k] + 1, p[k] + 1>> \o SubSeq(p, k + 1, Len(p)) :
                        k \in {k \in DOMAIN p : k = Len(p) \/ p[k] # p[k + 1]}}
    IN  IF n = 1 THEN {<<0>>} ELSE UNION {Grown(p) : p \in Shapes[n - 1]}

Cost(freq, shape) ==
    LET order == Reverse(ByFrequency(freq))
    IN  SumFunction([k \in DOMAIN shape |-> shape[k] * freq[order[k]]])

\* No code of any shape is cheaper; asked only if one of the cheapest shapes
\* stays within the cap.
AsCheapAsAny(freq, lens, cap) ==
    LET shapes == Shapes[Cardinality(Used(freq))]
        least  == Min({Cost(freq, p) : p \in shapes})
    IN  (\E p \in shapes : p[Len(p)] <= cap /\ Cost(freq, p) = least)
            => Price(freq, lens) = least

Whole(freq, lens, cap) ==
    /\ Used(freq) \subseteq Used(lens)
    /\ \A i \in Used(lens) : lens[i] <= cap
    /\ SumFunction([i \in Used(lens) |-> 2 ^ (cap - lens[i])]) = 2 ^ cap
    /\ \A i, j \in Used(freq) : freq[i] > freq[j] => lens[i] <= lens[j]
    /\ Cardinality(Used(freq)) > 1 => AsCheapAsAny(freq, lens, cap)

\* huffman.cyr:482-491, 698-713: whatever was counted, each of the three codes of
\* a block is within its cap and complete, since decoders refuse any other; a
\* more frequent symbol never has a longer code, and unless the cap stands in the
\* way no code is cheaper.
WholeCode ==
    LET lit   == LitLens(Closed(litFreq))
        dist  == DistLens(distFreq)
        items == RunLengths(lit \o dist)
    IN  /\ Whole(Closed(litFreq), lit, LitCap)
        /\ Whole(Counted(distFreq), dist, LitCap)
        /\ Whole(ClFreq(items), ClLens(items), ClCap)

\* The batch decoder makes of the blocks written so far what they were made of,
\* and finds the stream complete exactly if the last block was written.
ReadsBack ==
    syms = <<>> =>
        LET r == InflateStream(bits, <<>>, <<>>, [cap |-> Len(plain), out |-> Len(plain), ratio |-> 0])
        IN  /\ r.out = plain
            /\ r.err = IF blocks = MaxBlocks THEN "none" ELSE "CORRUPT_DATA"

\* deflate.cyr:2369-2381: of the block with its own codes and the one with the
\* fixed codes the shorter one is written; it is priced before it is.
CheaperIsWritten ==
    [][blocks' # blocks =>
        LET ss == Append(syms, EndOfBlock)
        IN  Len(bits') - Len(bits) =
              Min({Len(FixedBits(0, ss)),
                   Len(DynamicBits(0, ss, LitLens(Closed(litFreq)), DistLens(distFreq)))})]_vars
=============================================================================
