--------------------------------- MODULE Lz77 ---------------------------------
(***************************************************************************)
(* The match finder of src/src/lz77.cyr: a hash of the next MinMatch bytes *)
(* leads to the last position that had it, and from there along a chain of *)
(* earlier ones.  Positions in the table are absolute, so that it survives *)
(* a slide of the window; "base" is the absolute position of window[0].    *)
(*                                                                         *)
(* A window is a sequence of bytes, an offset into it counts from 0.       *)
(***************************************************************************)
EXTENDS Integers, FiniteSetsExt, Sequences

CONSTANTS
    Byte,       \* the values of a byte
    Window,     \* LZ77_WINDOW, the longest distance and the length of a chain
    MinMatch,   \* LZ77_MIN_MATCH
    MaxMatch,   \* LZ77_MAX_MATCH
    Depth,      \* _lz77_chain_depth
    Buckets,    \* what Hash maps to
    Hash(_)     \* _lz77_hash3, of a sequence of MinMatch bytes

ASSUME Lz77Assumption ==
    /\ Window \in Nat \ {0} /\ MinMatch \in Nat \ {0}
    /\ MaxMatch \in Nat /\ MinMatch <= MaxMatch /\ MaxMatch <= Window
    /\ Depth \in Nat \ {0} /\ Byte \subseteq Nat
    /\ \A s \in [1 .. MinMatch -> Byte] : Hash(s) \in Buckets

HashTables == [head : [Buckets -> Int], prev : [0 .. Window - 1 -> Int], base : Nat]

Cleared == [head |-> [h \in Buckets |-> -1],
            prev |-> [k \in 0 .. Window - 1 |-> -1],
            base |-> 0]

\* Is there enough of the window at p to hash?
Hashable(w, p) == p + MinMatch <= Len(w)
HashAt(w, p)   == Hash(SubSeq(w, p + 1, p + MinMatch))

Insert(t, w, p) ==
    LET pos == p + t.base
        h   == HashAt(w, p)
    IN  [t EXCEPT !.prev[pos % Window] = t.head[h], !.head[h] = pos]

\* The positions p .. q - 1, but for those too close to the end of the window.
InsertAll(t, w, p, q) ==
    LET with[n \in 0 .. q - p] ==
            IF n = 0 THEN t
            ELSE IF Hashable(w, p + n - 1) THEN Insert(with[n - 1], w, p + n - 1)
            ELSE with[n - 1]
    IN  with[q - p]

\* Mutant: however far behind.
UsableAtAnyDistance(t, p, c) == c >= t.base /\ c < p + t.base

\* A chain entry that is in this window, behind p and not too far behind.
Usable(t, p, c) == c >= t.base /\ c < p + t.base /\ p + t.base - c <= Window

Chain(t, w, p) ==
    LET Older(c) == IF Usable(t, p, c) THEN t.prev[c % Window] ELSE -1
        entry[k \in 1 .. Depth] ==
            IF k = 1 THEN t.head[HashAt(w, p)] ELSE Older(entry[k - 1])
    IN  entry

\* How many bytes from offset c on are also there from p on.
Common(w, c, p) ==
    LET room == Min({Len(w) - p, MaxMatch})
    IN  Max({n \in 0 .. room : \A i \in 1 .. n : w[c + i] = w[p + i]})

NoMatch == [len |-> 0, dist |-> 0]

\* The longest match the chain leads to, the nearest of equal ones.
FindMatch(t, w, p) ==
    LET Matches(entry) ==
            {m \in {[len |-> Common(w, entry[k] - t.base, p), dist |-> p + t.base - entry[k]] :
                    k \in {j \in 1 .. Depth : Usable(t, p, entry[j])}} : m.len >= MinMatch}
        Best(ms) == CHOOSE m \in ms :
                        \A n \in ms : n.len < m.len \/ (n.len = m.len /\ m.dist <= n.dist)
        In(ms)   == IF ms = {} THEN NoMatch ELSE Best(ms)
    IN  IF Hashable(w, p) THEN In(Matches(Chain(t, w, p))) ELSE NoMatch

\* The window slid by delta.
Rebase(t, delta) == [t EXCEPT !.base = @ + delta]
=============================================================================
