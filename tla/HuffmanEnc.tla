----------------------------- MODULE HuffmanEnc -----------------------------
(***************************************************************************)
(* How src/src/huffman.cyr chooses code lengths from frequencies, and the  *)
(* codes an encoder writes.  freq[s + 1] is the frequency of symbol s,     *)
(* lens[s + 1] its length; cap is the longest length allowed.              *)
(***************************************************************************)
EXTENDS Huffman

Used(freq) == {i \in DOMAIN freq : freq[i] > 0}

\* Rarest first; the sort is stable.
Rank(freq, i) ==
    Cardinality({j \in Used(freq) : freq[j] < freq[i] \/ (freq[j] = freq[i] /\ j <= i)})

ByFrequency(freq) ==
    LET used == Used(freq)
    IN  [k \in 1 .. Cardinality(used) |-> CHOOSE i \in used : Rank(freq, i) = k]

-----------------------------------------------------------------------------
(* Huffman's tree, from two queues: the leaves in order, and the subtrees   *)
(* made so far, which come out in order by themselves.  A subtree is the    *)
(* set of its leaves and their weight.  (Depths are cut at 31, which no     *)
(* buffer of symbols is large enough to reach.)                             *)

LeavesFirst(q) ==
    q.inner = <<>> \/ (q.leaves # <<>> /\ q.leaves[1].weight <= q.inner[1].weight)

Least(q) == IF LeavesFirst(q) THEN q.leaves[1] ELSE q.inner[1]

WithoutLeast(q) ==
    IF LeavesFirst(q) THEN [q EXCEPT !.leaves = Tail(@)] ELSE [q EXCEPT !.inner = Tail(@)]

Join(q) ==
    LET a == Least(q)
        p == WithoutLeast(q)
        b == Least(p)
        joined == a.of \cup b.of
    IN  [WithoutLeast(p) EXCEPT
            !.inner = Append(@, [of |-> joined, weight |-> a.weight + b.weight]),
            !.depth = [i \in DOMAIN @ |-> IF i \in joined THEN @[i] + 1 ELSE @[i]]]

Depths(freq) ==
    LET order == ByFrequency(freq)
        joins[n \in Nat] ==
            IF n = 0
              THEN [leaves |-> [k \in DOMAIN order |->
                                   [of |-> {order[k]}, weight |-> freq[order[k]]]],
                    inner |-> <<>>, depth |-> [i \in Used(freq) |-> 0]]
              ELSE Join(joins[n - 1])
    IN  joins[Len(order) - 1].depth

-----------------------------------------------------------------------------
(* _huff_redistribute.  count[b] is the number of codes of b bits.          *)

Clipped(depth, cap) ==
    [b \in 1 .. cap |->
        Cardinality({i \in DOMAIN depth : depth[i] = b \/ (b = cap /\ depth[i] > cap)})]

\* By how many of the longest codes there are too many.
Excess(count, cap) ==
    SumFunction([b \in 1 .. cap |-> count[b] * 2 ^ (cap - b)]) - 2 ^ cap

\* A code becomes the prefix of two that are a bit longer, and a longest code
\* moves there.  (The code takes the longest length there is below the cap;
\* its comment says the shortest.)
Lengthened(count, cap) ==
    LET shorter == {b \in 1 .. cap - 1 : count[b] # 0}
        bits    == Max(shorter)
        split   == [count EXCEPT ![bits] = @ - 1, ![bits + 1] = @ + 2]
    IN  IF shorter = {} THEN count ELSE [split EXCEPT ![cap] = @ - 1]

\* Mutant: two codes too long are settled at a time, wherever they were.
SettledByPairs(depth, cap) ==
    LET over == Cardinality({i \in DOMAIN depth : depth[i] > cap})
        turn[n \in Nat] ==
            IF n = 0 THEN Clipped(depth, cap) ELSE Lengthened(turn[n - 1], cap)
    IN  turn[(over + 1) \div 2]

\* Each turn takes one from the excess.
Settled(depth, cap) ==
    LET turn[n \in Nat] ==
            IF n = 0 THEN Clipped(depth, cap) ELSE Lengthened(turn[n - 1], cap)
    IN  turn[Excess(turn[0], cap)]

\* The most frequent symbols get the shortest codes.
Reassigned(freq, count, cap) ==
    LET n == Cardinality(Used(freq))
        upto[b \in 0 .. cap] == IF b = 0 THEN 0 ELSE upto[b - 1] + count[b]
    IN  [i \in Used(freq) |-> Min({b \in 1 .. cap : n - Rank(freq, i) < upto[b]})]

Capped(freq, cap) ==
    LET depth == Depths(freq)
    IN  IF \A i \in DOMAIN depth : depth[i] <= cap THEN depth
        ELSE Reassigned(freq, Settled(depth, cap), cap)

\* huff_compute_lengths.  A code has two symbols at least, but for the code of
\* no symbols with its least number of them.
ComputeLengths(freq, least, cap) ==
    LET used   == Used(freq)
        padded == used \cup {Min(DOMAIN freq \ used)}
        length == Capped(freq, cap)
    IN  [i \in DOMAIN freq |->
            CASE used = {}             -> IF i <= least THEN 1 ELSE 0
              [] Cardinality(used) = 1 -> IF i \in padded THEN 1 ELSE 0
              [] OTHER                 -> IF i \in used THEN length[i] ELSE 0]

-----------------------------------------------------------------------------
\* huff_build_enc_codes: canonical codes, most significant bit first.
EncCode(lens, i) ==
    LET count == CodesOfLength(lens)
        first[b \in 1 .. MaxBits] == IF b = 1 THEN 0 ELSE 2 * (first[b - 1] + count[b - 1])
        code  == first[lens[i]] + Cardinality({j \in 1 .. i - 1 : lens[j] = lens[i]})
    IN  [k \in 1 .. lens[i] |-> (code \div 2 ^ (lens[i] - k)) % 2]
=============================================================================
