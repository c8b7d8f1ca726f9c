--------------------------- MODULE MCDynamicBlock ---------------------------
(* Codes of three bits at most.                                             *)
EXTENDS DynamicBlock

M(l, d) == [length |-> l, distance |-> d]
B(b)    == [length |-> 1, byte |-> b]

\* f[k] times the k-th symbol.
Times(ss, f) == FlattenSeq([k \in DOMAIN ss |-> [i \in 1 .. f[k] |-> ss[k]]])

Letters(bs) == [k \in DOMAIN bs |-> B(bs[k])]

Skewed == {<<1, 2, 3, 5, 8>>, <<8, 5, 3, 2, 1>>, <<1, 1, 3, 4, 7>>, <<2, 2, 2, 4, 4>>}

MCJobs ==
    {<<>>, <<B(200)>>,
     Letters(<<65, 66, 67, 68>>) \o <<M(3, 1), M(4, 2), M(5, 3), M(3, 4)>>,
     <<B(65), M(258, 1), M(3, 200), M(10, 100), M(11, 9), M(257, 4), M(12, 517)>>}
    \* Codes of up to six bits before they are capped.
    \cup {Times(Letters(<<7, 150, 151, 200, 240, 255>>), <<1, 2, 3, 5, 8, 13>>)}
    \cup {Times(Letters(bs), f) :
             bs \in {<<0, 1, 2, 3, 4>>, <<8, 150, 165, 240, 255>>}, f \in Skewed}
    \cup {Letters(<<1, 2, 3, 4>>) \o Times(<<M(3, 1), M(3, 2), M(3, 3), M(4, 4), M(11, 4)>>, f) :
             f \in {<<1, 2, 3, 5, 1>>, <<8, 5, 3, 2, 1>>}}
=============================================================================
