---------------------------- MODULE MCDeflateDec ----------------------------
(* Small DEFLATE streams and the same streams with any one bit wrong.        *)
EXTENDS DeflateDec, Streams

Text   == Pack(Fixed(1, <<F(97), F(200), F(257), D(1), F(265), <<1>>, D(0)>>))
Beyond == Pack(Fixed(1, <<F(98), F(257), D(3)>>))  \* too far without a dictionary
Mixed  == LET s == Stored(<<>>, 0, <<65, 66>>) \o Fixed(0, <<F(257), D(1)>>)
          IN  Pack(Stored(Stored(s, 0, <<>>), 1, <<67, 68, 69>>))
\* A stored block of 63,488 bytes, cut short.
Long   == <<0, 0, 248, 255, 7, 1, 2>>
Dyn    == Pack(DynBlock(0) \o Fixed(1, <<F(99)>>))
Far    == Pack(Fixed(1, <<F(257), D(4), <<1>>>>))
Twice  == Pack(DynBlock(1)) \o Pack(Fixed(1, <<F(88), F(257), D(0)>>)) \o <<31, 139>>
\* Ends on a byte boundary, with an envelope's trailer behind it.
Trailed == Pack(Fixed(1, <<F(200), F(201), F(257), D(0)>>)) \o <<31, 139, 8>>
\* The second member reaches three bytes back, two of them the first one's.
Across == Pack(DynBlock(1)) \o Pack(Fixed(1, <<F(88), F(257), D(2)>>))

Bad == {Pack(Header(1, 3)),                                \* reserved type
        Pack(Header(0, 1) \o F(286) \o F(0)),              \* length code 286
        Pack(Header(0, 1) \o F(7) \o F(257) \o D(30) \o F(0)),
        Pack(Header(1, 2) \o Num(30, 5) \o Num(0, 25)),    \* HLIT too large
        Pack(Header(1, 2) \o Num(0, 5) \o Num(30, 5) \o Num(0, 25)),
        Pack(DynHeader(1, 4, Four) \o [i \in 1 .. 24 |-> 1]),
        Pack(DynHeader(1, 1, C(1)) \o G(0) \o G(257) \o [i \in 1 .. 24 |-> 1])}

Given(s, lim) == [bytes |-> s, dict |-> <<>>, lim |-> lim]

Whole   == {Text, Beyond, Mixed, Long, Dyn, Far, Twice, Trailed} \cup Bad
Damaged == Flips(Text, Len(Text)) \cup Flips(Mixed, 6) \cup Flips(Dyn, 3)
Tight   == {[NoLim EXCEPT !.cap = 6], [NoLim EXCEPT !.out = 5], [NoLim EXCEPT !.ratio = 4]}

MCInputs ==
    {Given(s, NoLim) : s \in Whole \cup Damaged}
    \cup {Given(s, lim) : s \in {Text, Mixed, Dyn, Twice}, lim \in Tight}
    \cup {[Given(s, NoLim) EXCEPT !.dict = <<1, 2, 3, 4>>] : s \in {Beyond, Far, Text}}
    \cup {[Given(s, lim) EXCEPT !.dict = <<1, 2, 3, 4>>] : s \in {Beyond, Text}, lim \in Tight}
    \cup {[Given(Beyond, [NoLim EXCEPT !.cap = 3]) EXCEPT !.dict = <<1, 2, 3, 4>>]}

MCAcross == {Given(Across, NoLim)}
=============================================================================
