----------------------------- MODULE BlockStream -----------------------------
(***************************************************************************)
(* What the DEFLATE encoders write, as a sequence of items: the header of  *)
(* a block, a literal, a match, the end of a block, the padding and length *)
(* fields of an empty stored block.  An item takes some bits; the writer   *)
(* (src/src/bitwriter.cyr) stores a byte as soon as its eight bits are     *)
(* there and fails when the output buffer has no room for it.              *)
(*                                                                         *)
(* Read is what a decoder makes of the items.                              *)
(***************************************************************************)
EXTENDS Integers, SequencesExt

CONSTANTS
    Cost(_),        \* the bits of an item
    MaxDistance     \* how far back a decoder's window reaches

Block(final, kind) == [t |-> "block", final |-> final, kind |-> kind]
Literal(b)         == [t |-> "literal", byte |-> b]
Copy(m)            == [t |-> "match", len |-> m.len, dist |-> m.dist]
Eob                == [t |-> "eob"]
Align              == [t |-> "align"]
Lengths            == [t |-> "lengths"]

Items ==
    [t : {"block"}, final : BOOLEAN, kind : {"coded", "stored"}]
    \cup [t : {"literal"}, byte : Nat] \cup [t : {"match"}, len : Nat, dist : Nat \ {0}]
    \cup {Eob, Align, Lengths}

\* An empty stored block: header, padding, LEN and NLEN.
EmptyStored(final) == <<Block(final, "stored"), Align, Lengths>>

-----------------------------------------------------------------------------
(* The writer: bits counts what was written, the partial byte included.    *)

Padding(bits) == (8 - (bits % 8)) % 8

ItemCost(bits, x) == IF x.t = "align" THEN Padding(bits) ELSE Cost(x)

\* As many of the items as the buffer takes, each whole byte needing room:
\* how many they are and how many bits were written by then.
Fitting(bits, xs, cap) ==
    LET after[k \in 0 .. Len(xs)] ==
            IF k = 0 THEN bits ELSE after[k - 1] + ItemCost(after[k - 1], xs[k])
        n == Max({k \in 0 .. Len(xs) : k = 0 \/ after[k] \div 8 <= cap})
    IN  [items |-> n, bits |-> after[n]]

-----------------------------------------------------------------------------
(* The decoder: plain is its output behind the dictionary, floor where the *)
(* encoder was last told to forget, crossed whether a match went below it. *)

Readers == [plain : Seq(Nat), block : {"none", "coded", "stored"}, final : BOOLEAN,
            done : BOOLEAN, ok : BOOLEAN, floor : Nat, crossed : BOOLEAN]

Start(dict) == [plain |-> dict, block |-> "none", final |-> FALSE, done |-> FALSE,
                ok |-> TRUE, floor |-> 0, crossed |-> FALSE]

\* A match copies byte by byte: it may overlap what it writes.
Repeat(plain, m) ==
    [i \in 1 .. m.len |-> plain[Len(plain) - m.dist + 1 + ((i - 1) % m.dist)]]

Ends(s) == [s EXCEPT !.block = "none", !.done = s.final]

Decoded(s, x) ==
    IF ~s.ok THEN s
    ELSE CASE x.t = "block" /\ s.block = "none" /\ ~s.done ->
                [s EXCEPT !.block = x.kind, !.final = x.final]
           [] x.t = "align" /\ s.block = "stored" -> s
           [] x.t = "lengths" /\ s.block = "stored" -> Ends(s)
           [] x.t = "literal" /\ s.block = "coded" -> [s EXCEPT !.plain = Append(@, x.byte)]
           [] x.t = "match" /\ s.block = "coded" /\ x.dist <= Len(s.plain) /\ x.dist <= MaxDistance ->
                [s EXCEPT !.plain = @ \o Repeat(@, x),
                          !.crossed = @ \/ Len(s.plain) - x.dist < s.floor]
           [] x.t = "eob" /\ s.block = "coded" -> Ends(s)
           [] OTHER -> [s EXCEPT !.ok = FALSE]

\* The decoder, in state s, reads the items.
Read(s, items) ==
    LET after[k \in 0 .. Len(items)] ==
            IF k = 0 THEN s ELSE Decoded(after[k - 1], items[k])
    IN  after[Len(items)]
=============================================================================
