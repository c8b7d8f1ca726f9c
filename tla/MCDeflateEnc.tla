----------------------------- MODULE MCDeflateEnc -----------------------------
(* Windows of three bytes, matches of two or three, and two letters.        *)
EXTENDS DeflateBatch

MCHash(s) == s[1]

\* Bits of a block header, a literal, a match, the end of a block.
MCCost(x) == CASE x.t = "block"   -> 3
               [] x.t = "literal" -> 8 + x.byte
               [] x.t = "match"   -> 12
               [] x.t = "eob"     -> 7
               [] x.t = "lengths" -> 32
               [] OTHER           -> 0

Words(n) == [1 .. n -> {0, 1}]
Job(b, d, dyn, c) == [bytes |-> b, dict |-> d, dynamic |-> dyn, cap |-> c]

Texts == {<<0, 0, 1, 0, 0, 1, 0, 1, 0, 0, 1>>, <<0, 0, 0, 0, 0, 0, 0, 0, 0, 0, 0>>,
          <<0, 1, 1, 0, 1, 0, 0, 1, 1, 0, 1>>, <<0, 1, 0, 1, 1, 1, 0, 1, 0, 1, 0>>}

MCJobs ==
    {Job(b, d, dyn, 100) : b \in Texts, d \in {<<>>, <<1, 0, 0>>}, dyn \in BOOLEAN}
    \cup {Job(b, <<>>, dyn, c) : b \in {<<>>, <<0>>, <<1, 0, 1, 0>>, <<0, 1, 1, 0, 0, 1>>},
                                 dyn \in BOOLEAN, c \in 0 .. 12}
=============================================================================
