--------------------------- MODULE MCEnvelopeDec ---------------------------
(* gzip streams with every optional part of the header, one or two members  *)
(* and bytes behind them, and zlib streams with and without a dictionary;   *)
(* the same with single bits wrong or cut short.  The checksums are sums.   *)
EXTENDS EnvelopeDec, Streams

Total(bs, w) == LET t[k \in 0 .. Len(bs)] ==
                        IF k = 0 THEN 7 ELSE t[k - 1] + (bs[k] + 1) * (1 + w * k)
                IN  t[Len(bs)] % 256
MCCrc(bs)   == <<Total(bs, 0), Total(bs, 1), Total(bs, 2), 0>>
MCAdler(bs) == <<0, Total(bs, 0), Total(bs, 1), Total(bs, 2)>>

\* DEFLATE streams, and what they hold.
Empty == [packed |-> Pack(Fixed(1, <<>>)), plain |-> <<>>]
One   == [packed |-> Pack(Fixed(1, <<F(97)>>)), plain |-> <<97>>]
Run   == [packed |-> Pack(Fixed(1, <<F(200), F(257), D(0)>>)), plain |-> <<200, 200, 200, 200>>]
Raw   == [packed |-> Pack(Stored(<<>>, 1, <<31, 139>>)), plain |-> <<31, 139>>]

\* FTEXT 1, FHCRC 2, FEXTRA 4, FNAME 8, FCOMMENT 16.
GzipHeader(f) ==
    LET h == <<31, 139, 8, f, 0, 0, 0, 0, 0, 255>>
             \o (IF Bit(f, 2) THEN <<3, 0, 9, 8, 7>> ELSE <<>>)
             \o (IF Bit(f, 3) THEN <<66, 0>> ELSE <<>>)
             \o (IF Bit(f, 4) THEN <<67, 68, 0>> ELSE <<>>)
    IN  h \o (IF Bit(f, 1) THEN SubSeq(MCCrc(h), 1, 2) ELSE <<>>)
Gzip(f, d) == GzipHeader(f) \o d.packed \o MCCrc(d.plain) \o LittleBytes(Len(d.plain))
Zlib(d)    == <<120, 156>> \o d.packed \o MCAdler(d.plain)

Dict     == <<5, 6, 7, 8>>
FromDict == [packed |-> Pack(Fixed(1, <<F(9), F(257), D(3)>>)), plain |-> <<9, 6, 7, 8>>]
ZlibDict(d) == <<120, 187>> \o MCAdler(Dict) \o d.packed \o MCAdler(d.plain)

Cut(s, ns) == {SubSeq(s, 1, Len(s) - n) : n \in ns}

Given(k, s, dict, lim) == [kind |-> k, bytes |-> s, dict |-> dict, lim |-> lim]

Twice(f, d, e) == Gzip(f, d) \o Gzip(0, e)
Limits == {[NoLim EXCEPT !.cap = 5], [NoLim EXCEPT !.out = 5], [NoLim EXCEPT !.ratio = 4],
           [NoLim EXCEPT !.ratio = 5]}

GzipStreams ==
    {Gzip(f, One) : f \in {0, 1, 2, 4, 6, 8, 12, 16, 20, 26, 30, 31, 32, 64}}
    \cup {Twice(2, Run, One), Twice(6, One, Empty), Twice(12, Raw, Run)}
    \cup {Gzip(0, One) \o s : s \in {<<0>>, <<31>>, <<31, 139>>, <<31, 140, 8>>, <<31, 139, 9>>}}
    \cup Cut(Gzip(6, One), 1 .. 18)
    \cup Flips(Gzip(6, One), 18)
    \cup {<<>>}

ZlibStreams ==
    {Zlib(d) : d \in {Empty, One, Run, Raw}} \cup {Zlib(One) \o <<0>>, Zlib(Run) \o <<1, 2>>}
    \cup Cut(Zlib(Run), 1 .. 8) \cup Flips(Zlib(One), 9)

MCInputs ==
    {Given("gzip", s, <<>>, NoLim) : s \in GzipStreams}
    \cup {Given("gzip", Twice(0, Run, d), <<>>, lim) : d \in {One, Empty, Run}, lim \in Limits}
    \cup {Given("zlib", s, <<>>, NoLim) : s \in ZlibStreams}
    \cup {Given("zlib", s, Dict, NoLim) :
              s \in {ZlibDict(FromDict), Zlib(One)} \cup Flips(ZlibDict(FromDict), 6)}
    \cup {Given("zlib", ZlibDict(FromDict), <<>>, NoLim)}
    \cup {Given("zlib", ZlibDict(FromDict), Dict, lim) :
              lim \in Limits \cup {[NoLim EXCEPT !.cap = 3], [NoLim EXCEPT !.cap = 4]}}
    \cup {Given("zlib", Zlib(Run), <<>>, lim) : lim \in Limits}
=============================================================================
