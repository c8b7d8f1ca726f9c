-------------------------------- MODULE MCZip --------------------------------
(* Up to two members; a field of 32 bits ends at 73, where the second member *)
(* begins if the first one is "l/f", stored; a codec puts out 40 at most.    *)
EXTENDS Zip

MCWidth == [c \in {"", ".", "a", "b", "l", "f"} |-> IF c = "" THEN 0 ELSE 1]
             @@ (".." :> 2) @@ ("ctl" :> 2) @@ ("long" :> 9)

\* "s" is too short to pack, "r" too random.
MCSize == [s |-> 3, m |-> 40, r |-> 90000]

MCPackedSize ==
    (<<>> :> 2) @@ (<<"s">> :> 5) @@ (<<"m">> :> 20) @@ (<<"r">> :> 90500)
      @@ (<<"s", "m">> :> 24)

Offer(n, c, mode, t) == [name |-> n, content |-> c, mode |-> mode, mtime |-> t]

Good == {Offer(<<"a">>, <<"s">>, "none", 0),
         Offer(<<"l">>, <<"s">>, "link", 951782399),          \* 2000-02-28 23:59:59
         Offer(<<"l", "f">>, <<"m">>, "file", 1709251199),    \* 2024-02-29 23:59:59
         Offer(<<".", "l">>, <<"s", "m">>, "none", 315532800),     \* 1980-01-01
         Offer(<<"l", "">>, <<>>, "dir", 1072915200),         \* 2004-01-01
         Offer(<<"b">>, <<"r">>, "none", 2147483647),
         Offer(<<".">>, <<>>, "link", 1),
         Offer(<<"b">>, <<>>, "none", 1)}

Bad == {Offer(n, <<>>, "none", 0) :
           n \in {<<"">>, <<"", "a">>, <<"a", "", "f">>, <<"..">>, <<"ctl">>, <<"long">>}}

MCMembers == Good \cup Bad

\* zip_bound of two members "b" is 180350.
MCCaps == {110, 180300, 180350}

MCAsks == {[room |-> 100000, ratio |-> 0, methods |-> {"STORE", "DEFLATE", "XZ", "ZSTD"}],
           [room |-> 50, ratio |-> 1, methods |-> {"STORE", "DEFLATE"}]}
=============================================================================
