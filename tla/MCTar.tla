-------------------------------- MODULE MCTar --------------------------------
(* Blocks of two units, and archives put together from pieces: a header with *)
(* what belongs to it, or something that does not belong there.              *)
EXTENDS Tar

Hdr(typ, path, size) == [typ |-> typ, path |-> path, link |-> <<"">>, size |-> size, units |-> <<>>]
Symlink(path, target) == [typ |-> "link", path |-> path, link |-> target, size |-> 0, units |-> <<>>]
Carrier(typ, size)    == Hdr(typ, <<"x">>, size)
Units(units)          == [typ |-> "junk", path |-> <<"">>, link |-> <<"">>, size |-> 0, units |-> units]

Says(key, path) == [key |-> key, value |-> path, size |-> 0]
SaysSize(n)     == [key |-> "size", value |-> <<"">>, size |-> n]
Text(part)      == [key |-> "text", value |-> <<part>>, size |-> 0]

MCContent == [
    zero  |-> Hdr("zero", <<"">>, 0),
    file  |-> Hdr("file", <<"f">>, 1),
    hole  |-> Hdr("file", <<"h">>, 0),
    slash |-> Hdr("file", <<"d", "">>, 1),
    dir   |-> Hdr("dir", <<"d">>, 2),
    hard  |-> Hdr("hard", <<"f">>, 0),
    odd   |-> Hdr("file", <<"f">>, -1),
    text  |-> Units(<<Text("t"), Text("u")>>),
    x1    |-> Carrier("x", 1), x2 |-> Carrier("x", 2),
    g2    |-> Carrier("g", 2),
    L1    |-> Carrier("L", 1), L3 |-> Carrier("L", 3), K1 |-> Carrier("K", 1),
    path  |-> Units(<<Says("path", <<"p">>), Says("linkpath", <<"q", "r">>)>>),
    again |-> Units(<<Says("path", <<"p">>), Says("path", <<"a", "b">>)>>),
    size  |-> Units(<<Says("other", <<"">>), SaysSize(3)>>),
    all   |-> Units(<<SaysSize(0), Says("linkpath", <<"o">>)>>),
    bad   |-> Units(<<Text("u"), Says("path", <<"p">>)>>),
    link  |-> Symlink(<<"s">>, <<"t">>),
    a     |-> Symlink(<<"a">>, <<".">>),
    ad    |-> Symlink(<<"a", "d">>, <<"..">>),
    up    |-> Symlink(<<"d", "up">>, <<"..">>),
    esc   |-> Symlink(<<"e">>, <<"d", "up", "..">>),
    abs   |-> Symlink(<<".", "s">>, <<"", "b">>),
    fa    |-> Hdr("file", <<"a">>, 0),
    fdot  |-> Hdr("file", <<"a", "d", ".", "f">>, 0),
    fe    |-> Hdr("file", <<"e", "f">>, 0),
    ds    |-> Hdr("dir", <<".", "s", "">>, 0),
    clash |-> Hdr("file", <<"c">>, 0),
    out   |-> Hdr("file", <<"d", "..", "f">>, 0),
    root  |-> Hdr("file", <<"", "f">>, 0),
    ctl   |-> Hdr("file", <<"bad">>, 0),
    climb |-> Symlink(<<"s">>, <<"..">>),
    void  |-> Symlink(<<"s">>, <<"">>)]

Naming == {<<"x2", "path">>, <<"x1", "again">>, <<"x2", "size">>, <<"g2", "all">>, <<"g2", "again">>,
           <<"x2", "bad">>, <<"L1", "text">>, <<"L3", "text", "text">>, <<"K1", "text">>}
Entering == {<<"file", "text">>, <<"link">>, <<"dir">>, <<"zero">>}
Rare == {<<"slash">>, <<"hard">>, <<"odd">>, <<"text">>, <<"zero">>, <<"hole">>}
Planting == {<<"a">>, <<"ad">>, <<"up">>, <<"esc">>, <<"abs">>, <<"link">>}
Landing  == {<<"fa">>, <<"fdot">>, <<"fe">>, <<"ds">>, <<"clash">>, <<"out">>, <<"root">>,
             <<"ctl">>, <<"climb">>, <<"void">>}

Chains(pieces, n) == {FlattenSeq(s) : s \in [1 .. n -> pieces]}

Plain(blocks, cut) == [blocks |-> blocks, len |-> Block * Len(blocks) - cut, format |-> "plain",
                       packed |-> 0, hint |-> 0, corrupt |-> FALSE]

\* Names before two entries, and before each of two.
Taking == {<<"file", "text">>, <<"link">>}
Named2 == {a \o b \o c \o d : a \in Naming, b \in Naming \cup {<<>>}, c \in Entering, d \in Taking}
             \cup {a \o b \o c \o d : a \in Naming, b \in Taking, c \in Naming, d \in Taking}
Linked == {a \o b \o c : a \in Planting, b \in Planting \cup {<<"dir">>}, c \in Landing \cup Planting}
Odd    == Chains(Rare, 3) \cup {a \o b : a \in Naming, b \in Rare}

MCArchives ==
    {Plain(x, 0) : x \in Named2 \cup Linked \cup Odd}
      \cup {Plain(a \o b, cut) : a \in Naming, b \in Entering, cut \in 1 .. 5}
      \cup {[blocks |-> Chosen, len |-> len, format |-> format, packed |-> packed, hint |-> hint,
             corrupt |-> corrupt] :
               Chosen \in {<<"file", "text", "link", "hole", "zero", "zero">>}, len \in 8 .. 12,
               format \in {"gzip", "zstd", "xz"}, packed \in {1, 2}, hint \in {0, 3, 8, 40},
               corrupt \in BOOLEAN}

Parts == {"a", "b", "c", "d", "e", "f", "h", "o", "p", "q", "r", "s", "t", "u", "up", "x"}

\* "c" has the hash of "a".
MCKey == [p \in UNION {[1 .. n -> Parts] : n \in 0 .. 3} |-> IF p = <<"c">> THEN <<"a">> ELSE p]
=============================================================================
