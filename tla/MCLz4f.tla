-------------------------------- MODULE MCLz4f --------------------------------
(* Blocks of eight bytes, matches of two or more of two letters, and frames  *)
(* of every form, some with a byte wrong.  The checksum sees every byte and   *)
(* where it is.                                                              *)
EXTENDS Lz4f

MCHash(s) == (s[1] + s[2]) % 2

MCXxh32(s, i) ==
    LET t[k \in 0 .. Len(s)] == IF k = 0 THEN 17 * i ELSE (t[k - 1] * 3 + s[k] + k) % 251
    IN  t[Len(s)]

Job(b, id, sums, cap) == [bytes |-> b, id |-> id, sums |-> sums, cap |-> cap]

Texts == {<<>>, <<0>>, <<0, 0, 0, 0, 0, 0, 0, 0, 0, 0, 0>>,
          <<0, 1, 0, 1, 0, 1, 0, 1, 1, 1, 0, 0, 1, 0, 1, 0, 1, 0, 0, 1>>,
          <<1, 0, 0, 1, 1, 0, 1, 0, 0, 1, 0, 0, 0, 1, 1, 1, 0>>}

MCJobs ==
    {Job(b, id, sums, 80) : b \in Texts, id \in {4, 5}, sums \in BOOLEAN}
    \cup {Job(b, 4, sums, cap) : b \in Texts, sums \in BOOLEAN, cap \in 19 .. 44}

MCIdle == Job(<<>>, 4, FALSE, 80)

-----------------------------------------------------------------------------
FrameOf(f, bd, optional, blocks, content) ==
    LET d == <<f, bd>> \o optional
    IN  Magic \o d \o <<HeaderSum(d)>> \o FlattenSeq(blocks) \o EndMark
          \o (IF HasContentSum(f) THEN Checksum(content) ELSE <<>>)

Raw(bs, sums)    == SizeField(Len(bs), TRUE) \o bs \o (IF sums THEN Checksum(bs) ELSE <<>>)
Packed(bs, sums) == SizeField(Len(bs), FALSE) \o bs \o (IF sums THEN Checksum(bs) ELSE <<>>)

\* A match, of the length n + 2, behind one literal; then one literal more.
Back(dist, n) == <<4 + n, 7, dist, 0, 4, 9>>

Size8(n) == Little(n) \o EndMark

\* 64 version 1, 32 independent, 16 block sums, 8 content size, 4 content sum, 1 id.
WithSums   == FrameOf(116, 64, <<>>, <<Packed(Back(1, 1), TRUE), Raw(<<>>, TRUE), Raw(<<5>>, TRUE)>>,
                      <<7, 7, 7, 7, 9, 5>>)
LinkedTwo  == FrameOf(76, 64, Size8(11), <<Raw(<<1, 2, 3>>, FALSE), Packed(Back(3, 1), FALSE),
                      Packed(<<12, 0, 8, 7, 6>>, FALSE)>>, <<1, 2, 3, 7, 2, 3, 7, 9, 8, 7, 6>>)
AllFields  == FrameOf(105, 80, Size8(2) \o <<1, 2, 3, 4>>, <<Raw(<<6, 7>>, FALSE)>>, <<>>)
\* More than the ceiling, in raw blocks and in packed ones.
Eight      == [i \in 1 .. 8 |-> i]
TooMuch    == FrameOf(96, 64, <<>>, <<Raw(Eight, FALSE), Raw(Eight, FALSE), Raw(Eight, FALSE)>>, <<>>)
NotTooMuch == FrameOf(96, 64, <<>>, [k \in 1 .. 4 |-> Packed(Back(1, 1), FALSE)], <<>>)
Bare       == FrameOf(96, 64, <<>>, <<>>, <<>>)

Broken ==
    {FrameOf(164, 64, <<>>, <<>>, <<>>), FrameOf(102, 64, <<>>, <<>>, <<>>),
     FrameOf(96, 65, <<>>, <<>>, <<>>), FrameOf(96, 48, <<>>, <<>>, <<>>),
     FrameOf(96, 64, <<>>, <<Packed(Back(3, 1), FALSE)>>, <<>>),     \* beyond its block
     FrameOf(96, 64, <<>>, <<Raw(<<1, 2, 3>>, FALSE), Packed(Back(3, 1), FALSE)>>, <<>>),
     FrameOf(96, 64, <<>>, <<Packed(Back(0, 1), FALSE)>>, <<>>),
     FrameOf(96, 64, <<>>, <<Packed(<<7, 1, 1, 0, 2, 2, 2, 0, 4, 1>>, FALSE)>>, <<>>),  \* over the maximum
     FrameOf(96, 64, <<>>, <<Packed(<<15, 2, 2>>, FALSE)>>, <<>>),
     FrameOf(96, 64, <<>>, <<Packed(<<8, 1>>, FALSE)>>, <<>>),
     FrameOf(96, 64, <<>>, <<Raw([i \in 1 .. 9 |-> 1], FALSE)>>, <<>>),
     FrameOf(104, 64, Size8(3), <<Raw(<<6, 7>>, FALSE)>>, <<>>)}

\* The same with one byte wrong.
Spoiled(f) == {[f EXCEPT ![k] = (@ + 1) % 256] : k \in 1 .. Len(f)}

With(fs, r) == {[bytes |-> f, room |-> r] : f \in fs}

MCFrames ==
    With({WithSums, LinkedTwo, AllFields, Bare, TooMuch, NotTooMuch} \cup Broken, 30)
    \cup With({WithSums, LinkedTwo}, 4)
    \cup With(Spoiled(WithSums) \cup Spoiled(LinkedTwo) \cup Spoiled(AllFields), 30)
=============================================================================
