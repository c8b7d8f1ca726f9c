--------------------------- MODULE DeflateEncProofs ---------------------------
(***************************************************************************)
(* Proofs about DeflateEnc, for every window, match finder, cost of the    *)
(* symbols, job and cutting into writes: nothing is lost, whatever was     *)
(* written decodes to what was given, flush and finish deliver it, a reset *)
(* is not looked behind, and every call ends.  First, what this rests on:  *)
(* how a decoder reads the items written, how many of them fit the buffer, *)
(* and what a match is that the match finder finds.  Then the same of the  *)
(* batch encoder of DeflateBatch, whose three loops each keep what its     *)
(* items are to a decoder: a stretch of the input, or blocks for it.       *)
(***************************************************************************)
EXTENDS DeflateBatch, Lemmas, FiniteSetTheorems

\* The symbols of a block.
Symbols == {x \in Written : x.t \in {"literal", "match"}}

-----------------------------------------------------------------------------
(* Reading items.                                                          *)

\* What a match copies: as many bytes as it is long, each from its place in the period.
LEMMA RepeatType ==
    ASSUME NEW plain \in Seq(Nat), NEW m \in Items, m.t = "match", m.dist <= Len(plain)
    PROVE  /\ Repeat(plain, m) \in Seq(Nat) /\ Len(Repeat(plain, m)) = m.len
           /\ \A i \in 1 .. m.len : Repeat(plain, m)[i] = plain[Len(plain) - m.dist + 1 + ((i - 1) % m.dist)]
<1>1. m.len \in Nat /\ m.dist \in Nat \ {0}
  BY DEF Items, Eob, Align, Lengths
<1>2. ASSUME NEW i \in 1 .. m.len PROVE plain[Len(plain) - m.dist + 1 + ((i - 1) % m.dist)] \in Nat
  <2>1. (i - 1) % m.dist \in 0 .. m.dist - 1
    BY <1>1
  <2>2. Len(plain) - m.dist + 1 + ((i - 1) % m.dist) \in 1 .. Len(plain)
    BY <1>1, <2>1, SMTT(30)
  <2>3. QED
    BY <2>2
<1>3. Repeat(plain, m) \in [1 .. m.len -> Nat]
  BY <1>2, Zenon DEF Repeat
<1>4. QED
  BY <1>1, <1>3, SeqOfFunction DEF Repeat

\* A decoder stays a decoder.
LEMMA DecodedType ==
    ASSUME NEW s \in Readers, NEW x \in Items PROVE Decoded(s, x) \in Readers
<1>1. CASE x.t = "match" /\ x.dist <= Len(s.plain)
  <2>1. s.plain \o Repeat(s.plain, x) \in Seq(Nat)
    BY <1>1, RepeatType, ConcatProperties DEF Readers
  <2>2. QED
    BY <1>1, <2>1 DEF Decoded, Readers, Items, Ends, Eob, Align, Lengths
<1>2. CASE x.t = "block"
  <2>1. x.final \in BOOLEAN /\ x.kind \in {"coded", "stored"}
    BY <1>2 DEF Items, Eob, Align, Lengths
  <2>2. QED
    BY <1>2, <2>1 DEF Decoded, Readers
<1>3. CASE x.t = "literal"
  <2>1. Append(s.plain, x.byte) \in Seq(Nat)
    BY <1>3, AppendProperties DEF Items, Eob, Align, Lengths, Readers
  <2>2. QED
    BY <1>3, <2>1 DEF Decoded, Readers
<1>4. CASE x.t \notin {"block", "literal"} /\ ~(x.t = "match" /\ x.dist <= Len(s.plain))
  BY <1>4 DEF Decoded, Readers, Items, Ends, Eob, Align, Lengths
<1>5. QED
  BY <1>1, <1>2, <1>3, <1>4

\* The states of a decoder over n items, as a function of how many it has read.
LEMMA DecodingRun ==
    ASSUME NEW s \in Readers, NEW n \in Nat, NEW items, \A k \in 1 .. n : items[k] \in Items
    PROVE  \E g : g = [k \in 0 .. n |-> IF k = 0 THEN s ELSE Decoded(g[k - 1], items[k])]
<1> DEFINE step == [k \in 1 .. n |-> [r \in Readers |-> Decoded(r, items[k])]]
<1>1. step \in StepsIn(Readers, n)
  BY DecodedType DEF StepsIn
<1>2. PICK g : IsRun(g, Readers, n, s, step)
  <2> HIDE DEF step
  <2> QED
    BY <1>1, Iteration
<1>3. ASSUME NEW k \in 1 .. n PROVE g[k] = Decoded(g[k - 1], items[k])
  <2>1. g[k] = step[k][g[k - 1]] /\ g[k - 1] \in Readers
    BY <1>2 DEF IsRun
  <2>2. QED
    BY <2>1
<1>4. g \in [0 .. n -> Readers] /\ g[0] = s
  BY <1>2 DEF IsRun
<1>5. g = [k \in 0 .. n |-> IF k = 0 THEN s ELSE Decoded(g[k - 1], items[k])]
  BY <1>3, <1>4
<1>6. QED
  BY <1>5

\* Read is the last of those states.
LEMMA ReadUnfolded ==
    ASSUME NEW s \in Readers, NEW items \in Seq(Items)
    PROVE  \E after \in [0 .. Len(items) -> Readers] :
              /\ after[0] = s
              /\ \A k \in 1 .. Len(items) : after[k] = Decoded(after[k - 1], items[k])
              /\ Read(s, items) = after[Len(items)]
<1> DEFINE n == Len(items)
           E(g) == g = [k \in 0 .. n |-> IF k = 0 THEN s ELSE Decoded(g[k - 1], items[k])]
           after == CHOOSE g : E(g)
<1>1. n \in Nat /\ \A k \in 1 .. n : items[k] \in Items
  OBVIOUS
<1>2. \E g : E(g)
  <2> HIDE DEF n
  <2> QED
    BY <1>1, DecodingRun, ZenonT(40)
<1>3. E(after)
  BY <1>2, Zenon
<1>4. after[0] = s /\ \A k \in 1 .. n : after[k] = Decoded(after[k - 1], items[k])
  <2> HIDE DEF after
  <2> QED
    BY <1>1, <1>3
<1>5. \A k \in 0 .. n : after[k] \in Readers
  <2> DEFINE T == {k \in 0 .. n : after[k] \in Readers}
  <2> HIDE DEF after, E
  <2>1. 0 \in T
    BY <1>4, <1>1
  <2>2. ASSUME NEW k \in 0 .. n - 1, k \in T PROVE k + 1 \in T
    <3>1. k + 1 \in 1 .. n /\ items[k + 1] \in Items
      BY <1>1
    <3>2. after[k + 1] = Decoded(after[k], items[k + 1])
      BY <1>4, <3>1
    <3>3. QED
      BY <2>2, <3>1, <3>2, DecodedType
  <2>3. 0 .. n \subseteq T
    <3> HIDE DEF T, n
    <3> QED
      BY <1>1, <2>1, <2>2, BoundedInductive
  <2>4. QED
    BY <2>3
<1>6. after \in [0 .. n -> Readers]
  <2>1. after = [k \in 0 .. n |-> IF k = 0 THEN s ELSE Decoded(after[k - 1], items[k])]
    BY <1>3
  <2> HIDE DEF after, E
  <2>2. QED
    BY <1>5, <2>1
<1>7. Read(s, items) = after[n]
  BY DEF Read
<1>8. QED
  <2> HIDE DEF after, E
  <2> QED BY <1>4, <1>6, <1>7

\* By the items one after the other.
LEMMA ReadEmpty ==
    ASSUME NEW s \in Readers PROVE Read(s, <<>>) = s
<1>1. <<>> \in Seq(Items) /\ Len(<<>>) = 0
  OBVIOUS
<1>2. PICK after \in [0 .. Len(<<>>) -> Readers] : after[0] = s /\ Read(s, <<>>) = after[Len(<<>>)]
  BY <1>1, ReadUnfolded
<1>3. QED
  BY <1>1, <1>2

\* Reading takes a decoder to a decoder.
LEMMA ReadType ==
    ASSUME NEW s \in Readers, NEW items \in Seq(Items) PROVE Read(s, items) \in Readers
<1>1. PICK after \in [0 .. Len(items) -> Readers] : Read(s, items) = after[Len(items)]
  BY ReadUnfolded
<1>2. Len(items) \in 0 .. Len(items)
  OBVIOUS
<1>3. QED
  BY <1>1, <1>2

\* The last item is read last.
LEMMA ReadAppend ==
    ASSUME NEW s \in Readers, NEW items \in Seq(Items), NEW x \in Items
    PROVE  Read(s, Append(items, x)) = Decoded(Read(s, items), x)
<1> DEFINE n == Len(items)
           more == Append(items, x)
<1>1. n \in Nat /\ more \in Seq(Items) /\ Len(more) = n + 1 /\ more[n + 1] = x
      /\ \A k \in 1 .. n : more[k] = items[k]
  OBVIOUS
<1>2. PICK f \in [0 .. n -> Readers] :
          /\ f[0] = s /\ \A k \in 1 .. n : f[k] = Decoded(f[k - 1], items[k])
          /\ Read(s, items) = f[n]
  BY ReadUnfolded
<1>3. PICK g \in [0 .. n + 1 -> Readers] :
          /\ g[0] = s /\ \A k \in 1 .. n + 1 : g[k] = Decoded(g[k - 1], more[k])
          /\ Read(s, more) = g[n + 1]
  <2> HIDE DEF n, more
  <2>1. \E h \in [0 .. Len(more) -> Readers] :
           /\ h[0] = s /\ \A k \in 1 .. Len(more) : h[k] = Decoded(h[k - 1], more[k])
           /\ Read(s, more) = h[Len(more)]
    BY <1>1, ReadUnfolded
  <2>2. QED
    BY <1>1, <2>1
<1> HIDE DEF n, more
<1> DEFINE T == {k \in 0 .. n : f[k] = g[k]}
<1>4. 0 \in T
  BY <1>1, <1>2, <1>3
<1>5. ASSUME NEW k \in 0 .. n - 1, k \in T PROVE k + 1 \in T
  <2>1. k + 1 \in 1 .. n /\ k + 1 \in 1 .. n + 1
    BY <1>1
  <2>2. f[k + 1] = Decoded(f[k], items[k + 1]) /\ g[k + 1] = Decoded(g[k], more[k + 1])
    BY <1>1, <1>2, <1>3, <2>1
  <2>3. QED
    BY <1>1, <1>5, <2>1, <2>2
<1>6. 0 .. n \subseteq T
  <2> HIDE DEF T
  <2> QED
    BY <1>1, <1>4, <1>5, BoundedInductive
<1>7. f[n] = g[n]
  BY <1>1, <1>6
<1>8. g[n + 1] = Decoded(g[n], x)
  BY <1>1, <1>3
<1>9. QED
  BY <1>2, <1>3, <1>7, <1>8 DEF more

\* Items may be read in two goes: what a flush writes is read behind what came before it.
LEMMA ReadConcat ==
    ASSUME NEW s \in Readers, NEW us \in Seq(Items), NEW vs \in Seq(Items)
    PROVE  Read(s, us \o vs) = Read(Read(s, us), vs)
<1> DEFINE n == Len(vs)
           r == Read(s, us)
           P(k) == Read(s, us \o SubSeq(vs, 1, k)) = Read(r, SubSeq(vs, 1, k))
           T == {k \in 0 .. n : P(k)}
<1>1. n \in Nat /\ r \in Readers
  <2>1. Len(vs) \in Nat
    OBVIOUS
  <2>2. QED
    BY <2>1, ReadType
<1>2. 0 \in T
  <2>1. SubSeq(vs, 1, 0) = <<>> /\ us \o <<>> = us
    OBVIOUS
  <2> HIDE DEF r, n
  <2>2. Read(r, <<>>) = r
    BY <1>1, ReadEmpty
  <2>3. P(0)
    BY <2>1, <2>2 DEF r
  <2> HIDE DEF P
  <2>4. QED
    BY <1>1, <2>3
<1>3. ASSUME NEW k \in 0 .. n - 1, k \in T PROVE k + 1 \in T
  <2> DEFINE b == SubSeq(vs, 1, k)
             x == vs[k + 1]
  <2>1. b \in Seq(Items) /\ x \in Items /\ SubSeq(vs, 1, k + 1) = Append(b, x)
    BY PrefixGrows
  <2> HIDE DEF b, x, r
  <2>2. us \o b \in Seq(Items)
    BY <2>1, ConcatProperties
  <2>3. us \o Append(b, x) = Append(us \o b, x)
    <3>1. us \in Seq(Items) /\ b \in Seq(Items) /\ x \in Items
      BY <2>1
    <3>2. QED
      BY <3>1, ConcatAppend, Z3
  <2>4. Read(s, us \o b) = Read(r, b)
    BY <1>3 DEF b
  <2>5. /\ Read(s, Append(us \o b, x)) = Decoded(Read(s, us \o b), x)
        /\ Read(r, Append(b, x)) = Decoded(Read(r, b), x)
    BY <1>1, <2>1, <2>2, ReadAppend
  <2>6. P(k + 1)
    BY <2>1, <2>3, <2>4, <2>5
  <2>7. k + 1 \in 0 .. n
    BY <1>1
  <2> HIDE DEF P
  <2>8. QED
    BY <2>6, <2>7
<1>4. n \in T
  <2>1. 0 .. n \subseteq T
    <3> HIDE DEF T, n
    <3> QED
      BY <1>1, <1>2, <1>3, BoundedInductive
  <2> HIDE DEF T, n
  <2>2. QED
    BY <1>1, <2>1
<1>5. SubSeq(vs, 1, n) = vs
  BY SubSeqFull
<1>6. QED
  BY <1>4, <1>5

\* One item is read by decoding it.
LEMMA ReadOne ==
    ASSUME NEW s \in Readers, NEW x \in Items PROVE Read(s, <<x>>) = Decoded(s, x)
<1>1. <<>> \in Seq(Items) /\ Append(<<>>, x) = <<x>>
  OBVIOUS
<1>2. Read(s, Append(<<>>, x)) = Decoded(Read(s, <<>>), x)
  BY <1>1, ReadAppend
<1>3. QED
  BY <1>1, <1>2, ReadEmpty

\* r is where a decoder may be that was at s before: it has all it had.
Onward(s, r) ==
    /\ Len(s.plain) <= Len(r.plain)
    /\ \A i \in 1 .. Len(s.plain) : r.plain[i] = s.plain[i]
    /\ r.ok => s.ok
    /\ s.crossed => r.crossed
    /\ r.floor = s.floor

\* Later than later is later.
LEMMA OnwardTransitive ==
    ASSUME NEW r \in Readers, NEW s \in Readers, NEW t \in Readers, Onward(r, s), Onward(s, t)
    PROVE  Onward(r, t)
<1>1. Len(r.plain) \in Nat /\ Len(s.plain) \in Nat /\ Len(t.plain) \in Nat
  BY DEF Readers
<1>2. QED
  BY <1>1 DEF Onward

\* An item takes no output back, and no error.
LEMMA DecodedOnward ==
    ASSUME NEW s \in Readers, NEW x \in Items PROVE Onward(s, Decoded(s, x))
<1>1. s.plain \in Seq(Nat) /\ Len(s.plain) \in Nat
  BY DEF Readers
<1>2. CASE s.ok /\ x.t = "match" /\ s.block = "coded" /\ x.dist <= Len(s.plain) /\ x.dist <= MaxDistance
  <2> DEFINE e == Repeat(s.plain, x)
             p == s.plain \o e
  <2>1. e \in Seq(Nat) /\ Len(e) \in Nat
    BY <1>1, <1>2, RepeatType
  <2>2. Len(p) = Len(s.plain) + Len(e) /\ \A i \in 1 .. Len(s.plain) : p[i] = s.plain[i]
    <3> HIDE DEF e
    <3> QED
      BY <1>1, <2>1, ConcatProperties
  <2>3. Decoded(s, x) = [s EXCEPT !.plain = p, !.crossed = @ \/ Len(s.plain) - x.dist < s.floor]
    BY <1>2 DEF Decoded
  <2> HIDE DEF p
  <2>4. QED
    BY <1>1, <2>1, <2>2, <2>3 DEF Onward, Readers
<1>3. CASE s.ok /\ x.t = "literal" /\ s.block = "coded"
  <2> DEFINE p == Append(s.plain, x.byte)
  <2>1. x.byte \in Nat
    BY <1>3 DEF Items, Eob, Align, Lengths
  <2>2. Len(p) = Len(s.plain) + 1 /\ \A i \in 1 .. Len(s.plain) : p[i] = s.plain[i]
    BY <1>1, <2>1, AppendProperties
  <2>3. Decoded(s, x) = [s EXCEPT !.plain = p]
    BY <1>3 DEF Decoded
  <2> HIDE DEF p
  <2>4. QED
    BY <1>1, <2>2, <2>3 DEF Onward, Readers
<1>4. CASE ~(s.ok /\ s.block = "coded" /\ (x.t = "literal" \/ (x.t = "match" /\ x.dist <= Len(s.plain) /\ x.dist <= MaxDistance)))
  <2>1. /\ Decoded(s, x).plain = s.plain /\ Decoded(s, x).crossed = s.crossed
        /\ Decoded(s, x).floor = s.floor /\ (Decoded(s, x).ok => s.ok)
    <3>1. \/ Decoded(s, x) = s
          \/ Decoded(s, x) = [s EXCEPT !.block = x.kind, !.final = x.final]
          \/ Decoded(s, x) = Ends(s)
          \/ Decoded(s, x) = [s EXCEPT !.ok = FALSE]
      BY <1>4 DEF Decoded
    <3>2. QED
      BY <3>1 DEF Ends, Readers
  <2>2. QED
    BY <1>1, <2>1 DEF Onward
<1>5. QED
  BY <1>2, <1>3, <1>4

\* Nor do many.
LEMMA ReadOnward ==
    ASSUME NEW s \in Readers, NEW items \in Seq(Items) PROVE Onward(s, Read(s, items))
<1> DEFINE n == Len(items)
<1>1. n \in Nat /\ \A k \in 1 .. n : items[k] \in Items
  OBVIOUS
<1>2. PICK after \in [0 .. n -> Readers] :
          /\ after[0] = s /\ \A k \in 1 .. n : after[k] = Decoded(after[k - 1], items[k])
          /\ Read(s, items) = after[n]
  BY ReadUnfolded
<1> DEFINE T == {k \in 0 .. n : Onward(s, after[k])}
<1> HIDE DEF n
<1>3. 0 \in T
  <2>1. Len(s.plain) \in Nat
    BY DEF Readers
  <2>2. QED
    BY <1>1, <1>2, <2>1 DEF Onward
<1>4. ASSUME NEW k \in 0 .. n - 1, k \in T PROVE k + 1 \in T
  <2>1. k \in 0 .. n /\ k + 1 \in 1 .. n /\ k + 1 \in 0 .. n
    BY <1>1
  <2>2. after[k + 1] = Decoded(after[k], items[k + 1]) /\ after[k] \in Readers
        /\ after[k + 1] \in Readers /\ items[k + 1] \in Items
    BY <1>1, <1>2, <2>1
  <2>3. Onward(after[k], after[k + 1])
    BY <2>2, DecodedOnward
  <2>4. QED
    BY <1>4, <2>1, <2>2, <2>3, OnwardTransitive
<1>5. 0 .. n \subseteq T
  <2> HIDE DEF T
  <2> QED
    BY <1>1, <1>3, <1>4, BoundedInductive
<1>6. QED
  BY <1>1, <1>2, <1>5

\* Who read some of the items is on the way to where they all lead: what holds of the output
\* of the whole holds of what a full buffer let through.
LEMMA ReadPrefix ==
    ASSUME NEW s \in Readers, NEW items \in Seq(Items), NEW n \in 0 .. Len(items)
    PROVE  /\ SubSeq(items, 1, n) \in Seq(Items)
           /\ Onward(Read(s, SubSeq(items, 1, n)), Read(s, items))
<1> DEFINE us == SubSeq(items, 1, n)
           vs == SubSeq(items, n + 1, Len(items))
<1>1. us \in Seq(Items) /\ vs \in Seq(Items)
  <2>1. n \in Int /\ Len(items) \in Int /\ \A i \in 1 .. Len(items) : items[i] \in Items
    OBVIOUS
  <2>2. (\A i \in 1 .. n : items[i] \in Items) /\ \A i \in n + 1 .. Len(items) : items[i] \in Items
    BY <2>1
  <2>3. QED
    BY <2>1, <2>2, SubSeqProperties
<1>2. us \o vs = items
  <2>1. 1 \in 1 .. Len(items) + 1 /\ n \in 1 - 1 .. Len(items) /\ Len(items) \in n .. Len(items)
    OBVIOUS
  <2>2. us \o vs = SubSeq(items, 1, Len(items))
    BY <2>1, ConcatAdjacentSubSeq
  <2>3. QED
    BY <2>2, SubSeqFull
<1> HIDE DEF us, vs
<1>3. Read(s, items) = Read(Read(s, us), vs)
  BY <1>1, <1>2, ReadConcat
<1>4. Onward(Read(s, us), Read(Read(s, us), vs))
  BY <1>1, ReadType, ReadOnward
<1>5. QED
  BY <1>1, <1>3, <1>4 DEF us

-----------------------------------------------------------------------------
(* Writing them.                                                           *)

\* What the encoder writes is what a decoder knows.
LEMMA WrittenIsItems == Written \subseteq Items
<1>1. Byte \subseteq Nat /\ MinMatch .. MaxMatch \subseteq Nat /\ 1 .. Window \subseteq Nat \ {0}
  BY Lz77Assumption
<1>2. [t : {"literal"}, byte : Byte] \subseteq [t : {"literal"}, byte : Nat]
  BY <1>1
<1>3. [t : {"match"}, len : MinMatch .. MaxMatch, dist : 1 .. Window]
          \subseteq [t : {"match"}, len : Nat, dist : Nat \ {0}]
  BY <1>1
<1>4. QED
  BY <1>2, <1>3 DEF Written, Items

\* An item takes some bits.
LEMMA ItemCostType ==
    ASSUME NEW b \in Nat, NEW x \in Written PROVE ItemCost(b, x) \in Nat
<1>1. Padding(b) \in Nat
  BY DEF Padding
<1>2. Cost(x) \in Nat
  BY DeflateEncAssumption
<1>3. QED
  BY <1>1, <1>2 DEF ItemCost

\* The bits taken by the first n items, as a function of n.
LEMMA BitsRun ==
    ASSUME NEW b \in Nat, NEW n \in Nat, NEW xs, \A k \in 1 .. n : xs[k] \in Written
    PROVE  \E g : g = [k \in 0 .. n |-> IF k = 0 THEN b ELSE g[k - 1] + ItemCost(g[k - 1], xs[k])]
<1> DEFINE step == [k \in 1 .. n |-> [c \in Nat |-> c + ItemCost(c, xs[k])]]
<1>1. step \in StepsIn(Nat, n)
  <2>1. ASSUME NEW k \in 1 .. n, NEW c \in Nat PROVE c + ItemCost(c, xs[k]) \in Nat
    BY ItemCostType
  <2>2. QED
    BY <2>1 DEF StepsIn
<1>2. PICK g : IsRun(g, Nat, n, b, step)
  <2> HIDE DEF step
  <2> QED
    BY <1>1, Iteration
<1>3. ASSUME NEW k \in 1 .. n PROVE g[k] = g[k - 1] + ItemCost(g[k - 1], xs[k])
  <2>1. g[k] = step[k][g[k - 1]] /\ g[k - 1] \in Nat
    BY <1>2 DEF IsRun
  <2>2. QED
    BY <2>1
<1>4. g \in [0 .. n -> Nat] /\ g[0] = b
  BY <1>2 DEF IsRun
<1>5. g = [k \in 0 .. n |-> IF k = 0 THEN b ELSE g[k - 1] + ItemCost(g[k - 1], xs[k])]
  BY <1>3, <1>4
<1>6. QED
  BY <1>5

\* How much of the items fits: so many of them, in so many bits.
LEMMA FittingUnfolded ==
    ASSUME NEW b \in Nat, NEW xs \in Seq(Written), NEW cap
    PROVE  \E after \in [0 .. Len(xs) -> Nat] :
              /\ \A k \in 1 .. Len(xs) : after[k] = after[k - 1] + ItemCost(after[k - 1], xs[k])
              /\ Fitting(b, xs, cap).items \in 0 .. Len(xs)
              /\ Fitting(b, xs, cap).bits = after[Fitting(b, xs, cap).items]
<1> DEFINE n == Len(xs)
           E(g) == g = [k \in 0 .. n |-> IF k = 0 THEN b ELSE g[k - 1] + ItemCost(g[k - 1], xs[k])]
           after == CHOOSE g : E(g)
           fits == {k \in 0 .. n : k = 0 \/ after[k] \div 8 <= cap}
<1>1. n \in Nat /\ \A k \in 1 .. n : xs[k] \in Written
  OBVIOUS
<1>2. \E g : E(g)
  <2> HIDE DEF n
  <2> QED
    BY <1>1, BitsRun
<1>3. E(after)
  BY <1>2, Zenon
<1>4. after[0] = b /\ \A k \in 1 .. n : after[k] = after[k - 1] + ItemCost(after[k - 1], xs[k])
  <2> HIDE DEF after
  <2> QED
    BY <1>1, <1>3
<1>5. \A k \in 0 .. n : after[k] \in Nat
  <2> DEFINE T == {k \in 0 .. n : after[k] \in Nat}
  <2> HIDE DEF after, E
  <2>1. 0 \in T
    BY <1>4, <1>1
  <2>2. ASSUME NEW k \in 0 .. n - 1, k \in T PROVE k + 1 \in T
    <3>1. k + 1 \in 1 .. n /\ xs[k + 1] \in Written
      BY <1>1
    <3>2. after[k + 1] = after[k] + ItemCost(after[k], xs[k + 1])
      BY <1>4, <3>1
    <3>3. QED
      BY <2>2, <3>1, <3>2, ItemCostType, SMTT(30)
  <2>3. 0 .. n \subseteq T
    <3> HIDE DEF T, n
    <3> QED
      BY <1>1, <2>1, <2>2, BoundedInductive
  <2>4. QED
    BY <2>3
<1>6. after \in [0 .. n -> Nat]
  <2>1. after = [k \in 0 .. n |-> IF k = 0 THEN b ELSE after[k - 1] + ItemCost(after[k - 1], xs[k])]
    BY <1>3
  <2> HIDE DEF after, E
  <2>2. QED
    BY <1>5, <2>1
<1>7. Fitting(b, xs, cap) = [items |-> Max(fits), bits |-> after[Max(fits)]]
  BY DEF Fitting
<1>8. Max(fits) \in 0 .. n
  <2>1. fits \subseteq 0 .. n /\ 0 \in fits
    <3> HIDE DEF n
    <3> QED BY <1>1
  <2>2. fits \subseteq Int /\ fits # {} /\ IsUpperBound(n, fits)
    <3> HIDE DEF fits, n
    <3> QED BY <1>1, <2>1 DEF IsUpperBound
  <2> HIDE DEF fits, n
  <2>3. QED
    BY <2>1, <2>2, GreatestElement
<1>9. QED
  <2> HIDE DEF after, E, fits
  <2>1. Fitting(b, xs, cap).items = Max(fits) /\ Fitting(b, xs, cap).bits = after[Max(fits)]
    BY <1>7
  <2>2. QED
    BY <1>4, <1>6, <1>8, <2>1

\* No more of them than there are.
LEMMA FittingType ==
    ASSUME NEW b \in Nat, NEW xs \in Seq(Written), NEW cap
    PROVE  Fitting(b, xs, cap).items \in 0 .. Len(xs) /\ Fitting(b, xs, cap).bits \in Nat
<1>1. PICK after \in [0 .. Len(xs) -> Nat] :
              /\ Fitting(b, xs, cap).items \in 0 .. Len(xs)
              /\ Fitting(b, xs, cap).bits = after[Fitting(b, xs, cap).items]
  BY FittingUnfolded
<1>2. QED
  BY <1>1

\* What ends in an empty stored block ends on a byte.
LEMMA StoredEndsOnByte ==
    ASSUME NEW b \in Nat, NEW xs \in Seq(Written), NEW cap, Len(xs) >= 2,
           xs[Len(xs) - 1] = Align, xs[Len(xs)] = Lengths, Fitting(b, xs, cap).items = Len(xs)
    PROVE  Fitting(b, xs, cap).bits % 8 = 0
<1> DEFINE n == Len(xs)
<1>1. PICK after \in [0 .. n -> Nat] :
              /\ \A k \in 1 .. n : after[k] = after[k - 1] + ItemCost(after[k - 1], xs[k])
              /\ Fitting(b, xs, cap).bits = after[n]
  BY FittingUnfolded
<1>2. n \in Nat /\ n >= 2
  OBVIOUS
<1>3. xs[n] = Lengths /\ xs[n - 1] = Align
  OBVIOUS
<1> HIDE DEF n
<1>4. after[n - 1] = after[n - 2] + Padding(after[n - 2]) /\ after[n - 2] \in Nat
  BY <1>1, <1>2, <1>3 DEF ItemCost, Align
<1>5. after[n] = after[n - 1] + Cost(Lengths)
  <2>1. after[n] = after[n - 1] + ItemCost(after[n - 1], Lengths)
    BY <1>1, <1>2, <1>3
  <2>2. Lengths.t # "align"
    BY DEF Lengths
  <2>3. QED
    BY <2>1, <2>2 DEF ItemCost
<1>6. Cost(Lengths) \in Nat /\ Cost(Lengths) % 8 = 0
  BY DeflateEncAssumption DEF Written
<1>7. after[n - 1] \in Nat /\ after[n - 1] % 8 = 0
  BY <1>4 DEF Padding
<1>8. (after[n - 1] + Cost(Lengths)) % 8 = 0
  BY <1>6, <1>7, SMTT(30)
<1>9. QED
  BY <1>1, <1>5, <1>8

-----------------------------------------------------------------------------
(* The hash table.                                                         *)

\* A hash is a bucket of the table.
LEMMA HashAtType ==
    ASSUME NEW w \in Seq(Byte), NEW p \in Nat, Hashable(w, p) PROVE HashAt(w, p) \in Buckets
<1> DEFINE s == SubSeq(w, p + 1, p + MinMatch)
<1>1. MinMatch \in Nat \ {0} /\ p + MinMatch <= Len(w)
  BY Lz77Assumption DEF Hashable
<1>2. \A i \in p + 1 .. p + MinMatch : w[i] \in Byte
  BY <1>1
<1>3. s \in Seq(Byte) /\ Len(s) = MinMatch
  BY <1>1, <1>2, SubSeqProperties
<1> HIDE DEF s
<1>4. s \in [1 .. MinMatch -> Byte]
  BY <1>3, LenProperties
<1>5. QED
  BY <1>4, Lz77Assumption DEF HashAt, s

\* An insertion leaves a table.
LEMMA InsertType ==
    ASSUME NEW t \in HashTables, NEW w \in Seq(Byte), NEW p \in Nat, Hashable(w, p)
    PROVE  Insert(t, w, p) \in HashTables
<1> DEFINE pos == p + t.base
           h   == HashAt(w, p)
<1>1. Window \in Nat \ {0}
  BY Lz77Assumption
<1>2. pos \in Nat /\ h \in Buckets
  BY HashAtType DEF HashTables
<1>3. pos % Window \in 0 .. Window - 1
  BY <1>1, <1>2
<1>4. Insert(t, w, p) = [t EXCEPT !.prev[pos % Window] = t.head[h], !.head[h] = pos]
  BY DEF Insert
<1> HIDE DEF pos, h
<1>5. t.head \in [Buckets -> Int] /\ t.prev \in [0 .. Window - 1 -> Int] /\ t.base \in Nat
      /\ t = [head |-> t.head, prev |-> t.prev, base |-> t.base]
  BY DEF HashTables
<1>6. [t.head EXCEPT ![h] = pos] \in [Buckets -> Int]
  BY <1>2, <1>5
<1>7. [t.prev EXCEPT ![pos % Window] = t.head[h]] \in [0 .. Window - 1 -> Int]
  BY <1>2, <1>3, <1>5
<1>8. Insert(t, w, p) = [head |-> [t.head EXCEPT ![h] = pos],
                         prev |-> [t.prev EXCEPT ![pos % Window] = t.head[h]], base |-> t.base]
  BY <1>4, <1>5
<1>9. QED
  BY <1>5, <1>6, <1>7, <1>8 DEF HashTables

\* g[k] is the table with the first k of the n positions from p.
IsInsertion(g, t, w, p, n) ==
    g = [k \in 0 .. n |-> IF k = 0 THEN t
                          ELSE IF Hashable(w, p + k - 1) THEN Insert(g[k - 1], w, p + k - 1)
                          ELSE g[k - 1]]

\* There is such a function.
LEMMA InsertRun ==
    ASSUME NEW t \in HashTables, NEW w \in Seq(Byte), NEW p \in Nat, NEW n \in Nat
    PROVE  \E g : IsInsertion(g, t, w, p, n)
<1> DEFINE Next1(u, k) == IF Hashable(w, p + k - 1) THEN Insert(u, w, p + k - 1) ELSE u
           step == [k \in 1 .. n |-> [u \in HashTables |-> Next1(u, k)]]
<1>1. ASSUME NEW k \in 1 .. n, NEW u \in HashTables PROVE Next1(u, k) \in HashTables
  <2>1. p + k - 1 \in Nat
    OBVIOUS
  <2>2. QED
    BY <2>1, InsertType
<1> HIDE DEF Next1
<1>2. step \in StepsIn(HashTables, n)
  BY <1>1 DEF StepsIn
<1>3. PICK g : IsRun(g, HashTables, n, t, step)
  <2> HIDE DEF step
  <2> QED
    BY <1>2, Iteration
<1>4. ASSUME NEW k \in 1 .. n PROVE g[k] = Next1(g[k - 1], k)
  <2>1. g[k] = step[k][g[k - 1]] /\ g[k - 1] \in HashTables
    BY <1>3 DEF IsRun
  <2>2. QED
    BY <2>1
<1>5. g \in [0 .. n -> HashTables] /\ g[0] = t
  BY <1>3 DEF IsRun
<1>6. g = [k \in 0 .. n |-> IF k = 0 THEN t ELSE Next1(g[k - 1], k)]
  BY <1>4, <1>5
<1>7. QED
  BY <1>6 DEF Next1, IsInsertion

\* Inserting many positions leaves a table.
LEMMA InsertAllType ==
    ASSUME NEW t \in HashTables, NEW w \in Seq(Byte), NEW p \in Nat, NEW q \in Nat, p <= q
    PROVE  InsertAll(t, w, p, q) \in HashTables
<1> DEFINE n == q - p
           Next1(u, k) == IF Hashable(w, p + k - 1) THEN Insert(u, w, p + k - 1) ELSE u
           E(g) == IsInsertion(g, t, w, p, n)
           with == CHOOSE g : E(g)
           T == {k \in 0 .. n : with[k] \in HashTables}
<1>1. n \in Nat
  OBVIOUS
<1>2. \E g : E(g)
  <2> HIDE DEF n
  <2> QED
    BY <1>1, InsertRun
<1>3. E(with)
  BY <1>2, Zenon
<1>4. with[0] = t /\ \A k \in 1 .. n : with[k] = Next1(with[k - 1], k)
  <2> HIDE DEF with, n
  <2> QED
    BY <1>1, <1>3 DEF IsInsertion
<1>5. InsertAll(t, w, p, q) = with[n]
  BY DEF InsertAll, IsInsertion
<1> HIDE DEF with, E, n
<1>6. 0 \in T
  BY <1>1, <1>4
<1>7. ASSUME NEW k \in 0 .. n - 1, k \in T PROVE k + 1 \in T
  <2>1. k + 1 \in 1 .. n /\ k + 1 \in 0 .. n /\ p + (k + 1) - 1 \in Nat
    BY <1>1
  <2>2. with[k + 1] = Next1(with[k], k + 1)
    BY <1>4, <2>1
  <2>3. with[k] \in HashTables
    BY <1>7
  <2>4. Next1(with[k], k + 1) \in HashTables
    BY <2>1, <2>3, InsertType
  <2>5. QED
    BY <2>1, <2>2, <2>4
<1>8. 0 .. n \subseteq T
  <2> HIDE DEF T
  <2> QED
    BY <1>1, <1>6, <1>7, BoundedInductive
<1>9. QED
  BY <1>1, <1>5, <1>8

\* g is the chain from h on.
IsChain(g, t, p, h) ==
    g = [k \in 1 .. Depth |-> IF k = 1 THEN h
                              ELSE IF Usable(t, p, g[k - 1]) THEN t.prev[g[k - 1] % Window] ELSE -1]

\* There is one.
LEMMA ChainRun ==
    ASSUME NEW t \in HashTables, NEW p \in Nat, NEW h \in Int
    PROVE  \E g : IsChain(g, t, p, h)
<1> DEFINE Older(c) == IF Usable(t, p, c) THEN t.prev[c % Window] ELSE -1
           n == Depth - 1
           step == [k \in 1 .. n |-> [c \in Int |-> Older(c)]]
<1>1. Window \in Nat \ {0} /\ Depth \in Nat \ {0} /\ n \in Nat
  BY Lz77Assumption
<1>2. \A c \in Int : Older(c) \in Int
  BY <1>1 DEF HashTables
<1> HIDE DEF Older
<1>3. step \in StepsIn(Int, n)
  BY <1>2 DEF StepsIn
<1>4. PICK f : IsRun(f, Int, n, h, step)
  <2> HIDE DEF step, n
  <2> QED
    BY <1>1, <1>3, Iteration
<1>5. f \in [0 .. n -> Int] /\ f[0] = h /\ \A k \in 1 .. n : f[k] = Older(f[k - 1])
  <2>1. ASSUME NEW k \in 1 .. n PROVE f[k] = Older(f[k - 1])
    <3>1. f[k] = step[k][f[k - 1]] /\ f[k - 1] \in Int
      BY <1>1, <1>4 DEF IsRun
    <3>2. QED
      BY <3>1
  <2>2. QED
    BY <1>4, <2>1 DEF IsRun
<1> DEFINE g == [k \in 1 .. Depth |-> f[k - 1]]
<1>6. g \in [1 .. Depth -> Int]
  BY <1>1, <1>5
<1>7. \A k \in 1 .. Depth : g[k] = IF k = 1 THEN h ELSE Older(g[k - 1])
  BY <1>1, <1>5
<1>8. g = [k \in 1 .. Depth |-> IF k = 1 THEN h ELSE Older(g[k - 1])]
  <2> HIDE DEF g
  <2> QED
    BY <1>6, <1>7
<1>9. QED
  BY <1>8 DEF Older, IsChain

-----------------------------------------------------------------------------
(* Finding a match.                                                        *)

\* A chain is made of numbers, whatever is in the table.
LEMMA ChainType ==
    ASSUME NEW t \in HashTables, NEW w \in Seq(Byte), NEW p \in Nat, Hashable(w, p)
    PROVE  \A k \in 1 .. Depth : Chain(t, w, p)[k] \in Int
<1> DEFINE h == t.head[HashAt(w, p)]
           E(g) == IsChain(g, t, p, h)
           Older(c) == IF Usable(t, p, c) THEN t.prev[c % Window] ELSE -1
           entry == CHOOSE g : E(g)
           n == Depth - 1
           T == {k \in 0 .. n : entry[k + 1] \in Int}
<1>1. Window \in Nat \ {0} /\ n \in Nat /\ Depth = n + 1
  BY Lz77Assumption
<1>2. h \in Int
  BY HashAtType DEF HashTables
<1>3. \E g : E(g)
  <2> HIDE DEF h
  <2> QED
    BY <1>2, ChainRun
<1>4. E(entry)
  BY <1>3, Zenon
<1>5. Chain(t, w, p) = entry
  BY SMTT(30) DEF Chain, IsChain
<1>6. \A k \in 1 .. Depth : entry[k] = IF k = 1 THEN h ELSE Older(entry[k - 1])
  <2> HIDE DEF entry, h
  <2> QED
    BY <1>4 DEF IsChain
<1>7. \A c \in Int : Older(c) \in Int
  BY <1>1 DEF HashTables
<1> HIDE DEF entry, E, h, n, Older
<1>8. 0 \in T
  BY <1>1, <1>2, <1>6
<1>9. ASSUME NEW k \in 0 .. n - 1, k \in T PROVE k + 1 \in T
  <2>1. entry[(k + 1) + 1] = Older(entry[k + 1])
    BY <1>1, <1>6
  <2>2. entry[k + 1] \in Int
    BY <1>9
  <2>3. entry[(k + 1) + 1] \in Int
    BY <1>7, <2>1, <2>2, Zenon
  <2>4. QED
    BY <1>1, <2>3
<1>10. 0 .. n \subseteq T
  <2> HIDE DEF T
  <2> QED
    BY <1>1, <1>8, <1>9, BoundedInductive
<1>11. ASSUME NEW k \in 1 .. Depth PROVE entry[k] \in Int
  <2>1. k - 1 \in 0 .. n
    BY <1>1
  <2>2. QED
    BY <1>10, <2>1
<1>12. QED
  BY <1>5, <1>11

\* Common bytes are common, and there are no more than the window and a match have room for.
LEMMA CommonBytes ==
    ASSUME NEW w \in Seq(Byte), NEW c \in Nat, NEW p \in Nat, p <= Len(w)
    PROVE  /\ Common(w, c, p) \in 0 .. MaxMatch /\ p + Common(w, c, p) <= Len(w)
           /\ \A i \in 1 .. Common(w, c, p) : w[c + i] = w[p + i]
<1> DEFINE room == Min({Len(w) - p, MaxMatch})
           T == {n \in 0 .. room : \A i \in 1 .. n : w[c + i] = w[p + i]}
<1>1. MaxMatch \in Nat /\ Len(w) - p \in Nat
  BY Lz77Assumption
<1>2. room \in Nat /\ room <= MaxMatch /\ p + room <= Len(w)
  <2> DEFINE a == Len(w) - p
  <2>1. a \in Nat /\ a \in Int /\ MaxMatch \in Int /\ p + a = Len(w)
    BY <1>1
  <2> HIDE DEF a
  <2>2. Min({a, MaxMatch}) \in {a, MaxMatch} /\ Min({a, MaxMatch}) <= a /\ Min({a, MaxMatch}) <= MaxMatch
    BY <2>1, MinOfTwo, Zenon
  <2>3. room = Min({a, MaxMatch})
    BY DEF a
  <2> HIDE DEF room
  <2>4. QED
    BY <1>1, <2>1, <2>2, <2>3
<1> HIDE DEF room
<1>3. T \subseteq Int /\ 0 \in T /\ IsUpperBound(room, T)
  BY <1>2 DEF IsUpperBound
<1>4. Common(w, c, p) = Max(T)
  BY DEF Common, room
<1>5. Max(T) \in T
  <2> HIDE DEF T
  <2> QED
    BY <1>2, <1>3, GreatestElement
<1> DEFINE n == Max(T)
<1>6. n \in 0 .. room /\ \A i \in 1 .. n : w[c + i] = w[p + i]
  <2> SUFFICES ASSUME NEW m \in T PROVE m \in 0 .. room /\ \A i \in 1 .. m : w[c + i] = w[p + i]
    BY <1>5
  <2> QED
    OBVIOUS
<1> HIDE DEF n
<1>7. Common(w, c, p) = n
  BY <1>4 DEF n
<1>8. QED
  BY <1>1, <1>2, <1>6, <1>7

\* m is a match at offset p of w.
IsMatch(w, p, m) ==
    /\ m.len \in MinMatch .. MaxMatch /\ p + m.len <= Len(w)
    /\ m.dist \in 1 .. Window /\ m.dist <= p /\ m = [len |-> m.len, dist |-> m.dist]
    /\ \A i \in 1 .. m.len : w[p - m.dist + i] = w[p + i]

\* Whatever is in the table, stale entries included, a match that is found repeats bytes of the
\* window that lie no further behind than a distance can say: the bytes themselves are compared.
LEMMA MatchFound ==
    ASSUME NEW t \in HashTables, NEW w \in Seq(Byte), NEW p \in Nat, p <= Len(w)
    PROVE  FindMatch(t, w, p) = NoMatch \/ IsMatch(w, p, FindMatch(t, w, p))
<1>1. CASE ~Hashable(w, p)
  BY <1>1 DEF FindMatch
<1>2. CASE Hashable(w, p)
  <2> DEFINE entry == Chain(t, w, p)
             M(k) == [len |-> Common(w, entry[k] - t.base, p), dist |-> p + t.base - entry[k]]
             ms == {m \in {[len |-> Common(w, entry[k] - t.base, p), dist |-> p + t.base - entry[k]] :
                    k \in {j \in 1 .. Depth : Usable(t, p, entry[j])}} : m.len >= MinMatch}
             Best(m) == \A n \in ms : n.len < m.len \/ (n.len = m.len /\ m.dist <= n.dist)
  <2>1. \A k \in 1 .. Depth : entry[k] \in Int
    BY <1>2, ChainType
  <2>2. t.base \in Nat /\ Window \in Nat \ {0} /\ MinMatch \in Nat \ {0} /\ MaxMatch \in Nat
    BY Lz77Assumption DEF HashTables
  <2>3. FindMatch(t, w, p) = IF ms = {} THEN NoMatch ELSE CHOOSE m \in ms : Best(m)
    BY <1>2 DEF FindMatch
  <2> HIDE DEF entry
  <2>4. ASSUME NEW k \in 1 .. Depth, Usable(t, p, entry[k]), M(k).len >= MinMatch
        PROVE  IsMatch(w, p, M(k))
    <3> DEFINE c == entry[k] - t.base
    <3>1. c \in Nat /\ p - c \in 1 .. Window /\ p - c <= p /\ M(k).dist = p - c
      BY <2>1, <2>2, <2>4, SMTT(30) DEF Usable
    <3>2. M(k).len = Common(w, c, p)
      OBVIOUS
    <3>3. p - (p - c) = c
      BY <3>1
    <3> HIDE DEF c, M
    <3>4. M(k).len \in MinMatch .. MaxMatch /\ p + M(k).len <= Len(w)
          /\ \A i \in 1 .. M(k).len : w[c + i] = w[p + i]
      BY <2>2, <2>4, <3>1, <3>2, CommonBytes
    <3>5. M(k) = [len |-> M(k).len, dist |-> M(k).dist]
      BY DEF M
    <3>6. QED
      BY <3>1, <3>3, <3>4, <3>5 DEF IsMatch
  <2>5. \A m \in ms : IsMatch(w, p, m)
    BY <2>4
  <2> HIDE DEF ms
  <2>6. CASE ms # {}
    <3> DEFINE lens == {n \in Nat : \E m \in ms : m.len = n}
               top  == Max(lens)
               dists == {d \in Nat : \E m \in ms : m.len = top /\ m.dist = d}
    <3>1. \A m \in ms : m.len \in Nat /\ m.len <= MaxMatch /\ m.dist \in Nat
      BY <2>2, <2>5 DEF IsMatch
    <3>2. top \in lens /\ \A n \in lens : n <= top
      <4>1. lens \subseteq Int /\ lens # {} /\ IsUpperBound(MaxMatch, lens)
        BY <2>2, <2>6, <3>1 DEF IsUpperBound
      <4> HIDE DEF lens
      <4>2. QED
        BY <4>1, GreatestElement
    <3> HIDE DEF top
    <3>3. PICK d \in dists : \A e \in dists : d <= e
      <4>1. dists \subseteq Nat /\ dists # {}
        BY <3>1, <3>2
      <4> HIDE DEF dists
      <4>2. QED
        BY <4>1, LeastElement
    <3>4. PICK m \in ms : m.len = top /\ m.dist = d
      BY <3>3
    <3>5. Best(m)
      <4> SUFFICES ASSUME NEW n \in ms PROVE n.len < m.len \/ (n.len = m.len /\ m.dist <= n.dist)
        OBVIOUS
      <4>1. n.len \in lens /\ n.len <= top /\ n.len \in Nat /\ n.dist \in Nat
        BY <3>1, <3>2
      <4>2. top \in Nat
        BY <3>2
      <4>3. CASE n.len = top
        BY <3>3, <3>4, <4>1, <4>3
      <4>4. QED
        BY <3>4, <4>1, <4>2, <4>3
    <3> HIDE DEF Best
    <3>6. (CHOOSE x \in ms : Best(x)) \in ms
      BY <3>5
    <3>7. QED
      BY <2>3, <2>5, <2>6, <3>6
  <2>7. CASE ms = {}
    BY <2>3, <2>7
  <2>8. QED
    BY <2>6, <2>7
<1>3. QED
  BY <1>1, <1>2

-----------------------------------------------------------------------------
(* Decoding a symbol.                                                      *)

\* What was decoded is the beginning of the text.
Begins(plain, text) == \A i \in 1 .. Len(plain) : plain[i] = text[i]

\* From s to r only output was added: n bytes.
Longer(s, r, n) ==
    /\ r.ok /\ r.block = "coded" /\ r.final = s.final /\ r.done = s.done
    /\ r.floor = s.floor /\ ~r.crossed
    /\ Len(r.plain) = Len(s.plain) + n

\* A decoder that has the text up to a byte has it with the byte after its literal.
LEMMA LiteralDecoded ==
    ASSUME NEW s \in Readers, s.ok, s.block = "coded", ~s.crossed, NEW text,
           Begins(s.plain, text), NEW c \in Nat, c = text[Len(s.plain) + 1]
    PROVE  /\ Longer(s, Decoded(s, Literal(c)), 1)
           /\ Begins(Decoded(s, Literal(c)).plain, text)
<1> DEFINE p == Append(s.plain, c)
<1>1. s.plain \in Seq(Nat) /\ Len(s.plain) \in Nat
  BY DEF Readers
<1>2. /\ Len(p) = Len(s.plain) + 1 /\ (\A i \in 1 .. Len(s.plain) : p[i] = s.plain[i])
      /\ p[Len(s.plain) + 1] = c
  BY <1>1, AppendProperties
<1>3. Decoded(s, Literal(c)) = [s EXCEPT !.plain = p]
  BY DEF Decoded, Literal
<1> HIDE DEF p
<1>4. Decoded(s, Literal(c)).plain = p
  BY <1>3 DEF Readers
<1>5. Longer(s, Decoded(s, Literal(c)), 1)
  BY <1>2, <1>3 DEF Longer, Readers
<1>6. ASSUME NEW i \in 1 .. Len(p) PROVE p[i] = text[i]
  <2>1. CASE i \in 1 .. Len(s.plain)
    BY <1>2, <2>1 DEF Begins
  <2>2. CASE i = Len(s.plain) + 1
    BY <1>2, <2>2
  <2>3. QED
    BY <1>1, <1>2, <2>1, <2>2
<1>7. QED
  BY <1>4, <1>5, <1>6 DEF Begins

\* And with the bytes of a match, if the text repeats there: overlap included.
LEMMA MatchDecoded ==
    ASSUME NEW s \in Readers, s.ok, s.block = "coded", ~s.crossed, NEW text,
           Begins(s.plain, text),
           NEW m, m.len \in Nat, m.dist \in Nat \ {0},
           m.dist <= Len(s.plain), m.dist <= MaxDistance, Len(s.plain) - m.dist >= s.floor,
           Repeats(text, Len(s.plain), m.dist, m.len)
    PROVE  /\ Longer(s, Decoded(s, Copy(m)), m.len)
           /\ Begins(Decoded(s, Copy(m)).plain, text)
<1> DEFINE n == Len(s.plain)
           x == Copy(m)
           e == Repeat(s.plain, x)
           p == s.plain \o e
<1>1. s.plain \in Seq(Nat) /\ n \in Nat /\ s.floor \in Nat
  BY DEF Readers
<1>2. x \in Items /\ x.t = "match" /\ x.len = m.len /\ x.dist = m.dist
  BY DEF Copy, Items
<1>3. /\ e \in Seq(Nat) /\ Len(e) = m.len
      /\ \A i \in 1 .. m.len : e[i] = s.plain[n - m.dist + 1 + ((i - 1) % m.dist)]
  BY <1>1, <1>2, RepeatType
<1>4. Decoded(s, x) = [s EXCEPT !.plain = p, !.crossed = @ \/ n - x.dist < s.floor]
  BY <1>2 DEF Decoded
<1>5. ~(n - x.dist < s.floor)
  BY <1>1, <1>2
<1>6. ASSUME NEW i \in 1 .. m.len PROVE e[i] = text[n + i]
  <2> DEFINE k == n - m.dist + 1 + ((i - 1) % m.dist)
  <2>1. text[k] = text[n + i]
    <3> DEFINE d == m.dist
               l == m.len
    <3>1. d \in Nat \ {0} /\ l \in Nat /\ Repeats(text, n, d, l) /\ n \in Int
      BY <1>1
    <3> HIDE DEF d, l, n
    <3>2. \A j \in 1 .. l : text[n - d + 1 + ((j - 1) % d)] = text[n + j]
      BY <3>1, Periodic
    <3>3. QED
      BY <3>2 DEF d, l
  <2>2. k \in 1 .. n
    <3> DEFINE j == (i - 1) % m.dist
    <3>1. j \in 0 .. m.dist - 1
      OBVIOUS
    <3> HIDE DEF j, n
    <3>2. n - m.dist + 1 + j \in 1 .. n
      <4>1. m.dist <= n /\ m.dist \in Nat \ {0}
        BY DEF n
      <4>2. QED
        BY <1>1, <3>1, <4>1, SMTT(30)
    <3>3. QED
      BY <3>2 DEF j
  <2>3. s.plain[k] = text[k]
    BY <2>2 DEF Begins
  <2>4. QED
    BY <1>3, <2>1, <2>3
<1> HIDE DEF e, x, n
<1>7. Len(p) = n + m.len /\ \A i \in 1 .. n + m.len : p[i] = IF i <= n THEN s.plain[i] ELSE e[i - n]
  <2> DEFINE pl == s.plain
  <2> HIDE DEF pl
  <2>1. pl \in Seq(Nat) /\ e \in Seq(Nat)
    BY <1>1, <1>3 DEF pl
  <2>2. /\ Len(pl \o e) = Len(pl) + Len(e)
        /\ \A i \in 1 .. Len(pl) + Len(e) : (pl \o e)[i] = IF i <= Len(pl) THEN pl[i] ELSE e[i - Len(pl)]
    BY <2>1, ConcatProperties
  <2>3. QED
    BY <1>3, <2>2 DEF n, pl
<1> HIDE DEF p
<1>8. ASSUME NEW i \in 1 .. n + m.len PROVE p[i] = text[i]
  <2>1. CASE i <= n
    <3>1. i \in 1 .. Len(s.plain)
      BY <1>1, <2>1 DEF n
    <3>2. QED
      BY <1>7, <2>1, <3>1 DEF Begins
  <2>2. CASE i > n
    <3>1. i - n \in 1 .. m.len /\ n + (i - n) = i
      BY <1>1, <2>2
    <3>2. e[i - n] = text[n + (i - n)]
      BY <1>6, <3>1
    <3>3. QED
      BY <1>1, <1>7, <2>2, <3>1, <3>2
  <2>3. QED
    BY <1>1, <2>1, <2>2
<1>9. Decoded(s, x).plain = p
  BY <1>4 DEF Readers
<1>10. Longer(s, Decoded(s, x), m.len)
  BY <1>4, <1>5, <1>7 DEF Longer, Readers, n
<1>11. QED
  BY <1>7, <1>8, <1>9, <1>10 DEF Begins, x

\* The symbol for place p of a window and how far it reaches, as functions of window and table.
SymbolAt(t, w, p) ==
    LET m == FindMatch(t, w, p) IN IF m.len > 0 THEN Copy(m) ELSE Literal(w[p + 1])
StrideAt(t, w, p) ==
    LET m == FindMatch(t, w, p) IN IF m.len > 0 THEN m.len ELSE 1

\* The symbol is one the encoder may write, and it does not reach past the window.
LEMMA SymbolType ==
    ASSUME NEW t \in HashTables, NEW w \in Seq(Byte), NEW p \in Nat, p < Len(w)
    PROVE  /\ SymbolAt(t, w, p) \in Symbols
           /\ StrideAt(t, w, p) \in Nat \ {0} /\ p + StrideAt(t, w, p) <= Len(w)
<1> DEFINE m == FindMatch(t, w, p)
<1>1. w[p + 1] \in Byte /\ p <= Len(w)
  OBVIOUS
<1>2. m = NoMatch \/ IsMatch(w, p, m)
  BY <1>1, MatchFound
<1>3. MinMatch \in Nat \ {0} /\ MaxMatch \in Nat /\ Window \in Nat
  BY Lz77Assumption
<1> HIDE DEF m
<1>4. CASE m.len > 0
  <2>1. m.len \in MinMatch .. MaxMatch /\ m.dist \in 1 .. Window /\ p + m.len <= Len(w)
    BY <1>2, <1>4 DEF NoMatch, IsMatch
  <2>2. Copy(m) \in Symbols
    BY <2>1 DEF Copy, Symbols, Written
  <2>3. SymbolAt(t, w, p) = Copy(m) /\ StrideAt(t, w, p) = m.len
    BY <1>4 DEF SymbolAt, StrideAt, m
  <2>4. QED
    BY <1>3, <2>1, <2>2, <2>3
<1>5. CASE ~(m.len > 0)
  <2>1. Literal(w[p + 1]) \in Symbols
    BY <1>1 DEF Literal, Symbols, Written
  <2>2. SymbolAt(t, w, p) = Literal(w[p + 1]) /\ StrideAt(t, w, p) = 1
    BY <1>5 DEF SymbolAt, StrideAt, m
  <2>3. QED
    BY <2>1, <2>2
<1>6. QED
  BY <1>4, <1>5

\* The symbol for a place of the window takes a decoder that has the text up to there over the
\* bytes the symbol stands for: it follows the match, and below no point where it was told to forget.
LEMMA SymbolDecoded ==
    ASSUME NEW t \in HashTables, NEW w \in Seq(Byte), NEW p \in Nat, p < Len(w),
           NEW text, NEW b \in Nat, \A i \in 1 .. Len(w) : w[i] = text[b + i],
           NEW s \in Readers, s.ok, s.block = "coded", ~s.crossed, s.floor <= b,
           Len(s.plain) = b + p, Begins(s.plain, text)
    PROVE  /\ Longer(s, Decoded(s, SymbolAt(t, w, p)), StrideAt(t, w, p))
           /\ Begins(Decoded(s, SymbolAt(t, w, p)).plain, text)
<1> DEFINE m == FindMatch(t, w, p)
<1>1. w[p + 1] \in Byte /\ p <= Len(w) /\ w[p + 1] = text[b + p + 1] /\ Len(w) \in Nat
  <2>1. b + (p + 1) = b + p + 1 /\ p + 1 \in 1 .. Len(w)
    OBVIOUS
  <2>2. w[p + 1] = text[b + (p + 1)]
    BY <2>1
  <2>3. QED
    BY <2>1, <2>2
<1>2. m = NoMatch \/ IsMatch(w, p, m)
  BY <1>1, MatchFound
<1>3. MinMatch \in Nat \ {0} /\ MaxMatch \in Nat /\ Window \in Nat /\ Byte \subseteq Nat
      /\ MaxDistance \in Nat /\ Window <= MaxDistance /\ s.floor \in Nat
  BY Lz77Assumption, DeflateEncAssumption DEF Readers
<1> HIDE DEF m
<1>4. CASE m.len > 0
  <2>1. /\ m.len \in MinMatch .. MaxMatch /\ m.dist \in 1 .. Window /\ p + m.len <= Len(w)
        /\ m.dist <= p /\ \A i \in 1 .. m.len : w[p - m.dist + i] = w[p + i]
    BY <1>2, <1>4 DEF NoMatch, IsMatch
  <2> DEFINE d == m.dist
             l == m.len
  <2>2. l \in Nat /\ d \in Nat \ {0} /\ d <= p /\ d <= MaxDistance /\ p + l <= Len(w)
        /\ \A i \in 1 .. l : w[p - d + i] = w[p + i]
    <3>1. d \in 1 .. Window /\ l \in MinMatch .. MaxMatch /\ p + l <= Len(w) /\ d <= p
          /\ \A i \in 1 .. l : w[p - d + i] = w[p + i]
      BY <2>1
    <3> HIDE DEF d, l
    <3>2. l \in Nat
      <4>1. l \in MinMatch .. MaxMatch /\ MinMatch \in Nat /\ MaxMatch \in Nat
        BY <1>3, <3>1
      <4>2. QED
        BY <4>1
    <3>3. d \in Nat \ {0} /\ d <= MaxDistance
      <4>1. d \in 1 .. Window /\ Window \in Nat /\ MaxDistance \in Nat /\ Window <= MaxDistance
        BY <1>3, <3>1
      <4>2. QED
        BY <4>1
    <3>4. QED
      BY <3>1, <3>2, <3>3
  <2> HIDE DEF d, l
  <2>3. Repeats(text, b + p, d, l)
    <3> SUFFICES ASSUME NEW i \in 1 .. l PROVE text[(b + p) - d + i] = text[b + p + i]
      BY DEF Repeats
    <3>1. p - d + i \in 1 .. Len(w) /\ p + i \in 1 .. Len(w)
      BY <1>1, <2>2
    <3>2. b + (p - d + i) = (b + p) - d + i /\ b + (p + i) = b + p + i
      BY <2>2
    <3>3. w[p - d + i] = text[b + (p - d + i)] /\ w[p + i] = text[b + (p + i)]
      BY <3>1
    <3>4. QED
      BY <2>2, <3>2, <3>3
  <2>4. /\ Longer(s, Decoded(s, Copy(m)), m.len)
        /\ Begins(Decoded(s, Copy(m)).plain, text)
    <3>1. d <= b + p /\ b + p - d >= s.floor
      BY <1>3, <2>2
    <3>2. /\ m.len \in Nat /\ m.dist \in Nat \ {0}
          /\ m.dist <= Len(s.plain) /\ m.dist <= MaxDistance /\ Len(s.plain) - m.dist >= s.floor
          /\ Repeats(text, Len(s.plain), m.dist, m.len)
      BY <2>2, <2>3, <3>1 DEF d, l
    <3>3. QED
      BY <3>2, MatchDecoded
  <2>5. SymbolAt(t, w, p) = Copy(m) /\ StrideAt(t, w, p) = m.len
    BY <1>4 DEF SymbolAt, StrideAt, m
  <2>6. QED
    BY <2>4, <2>5
<1>5. CASE ~(m.len > 0)
  <2>1. SymbolAt(t, w, p) = Literal(w[p + 1]) /\ StrideAt(t, w, p) = 1
    BY <1>5 DEF SymbolAt, StrideAt, m
  <2>2. w[p + 1] \in Nat /\ w[p + 1] = text[Len(s.plain) + 1]
    BY <1>1, <1>3
  <2>3. QED
    BY <2>1, <2>2, LiteralDecoded
<1>6. QED
  BY <1>4, <1>5


-----------------------------------------------------------------------------
(* The inductive invariant.                                                *)

\* The dictionary and all the bytes; how much of it was copied in; and how much of that slid out.
Text   == job.dict \o job.bytes
Seen   == Len(job.dict) + sent - rest
Behind == Seen - Len(window)

\* A decoder behind symbols us, in a block of their own with final bit f, and the one behind the
\* collected symbols.
Opened(r, us, f) == Read(r, <<Block(f, "coded")>> \o us)
Ahead(f) == IF job.dynamic THEN Opened(reader, syms, f) ELSE reader

\* Calls can go on.
Active == err = "none" /\ state # "DONE" /\ pc # "close"

\* Which places, states, errors and pending runs go together.
ControlInv ==
    /\ pc \notin {"out", "close"} => err = "none" /\ state # "DONE"
    /\ pc = "close" => state # "DONE"
    /\ pc = "consume" => /\ then # "out"
                         /\ upto = IF then \in {"slide", "room"} THEN ProcessEnd(window)
                                   ELSE Len(window)
    /\ pc = "slide" => cptr >= ProcessEnd(window)
    /\ pc \in {"flush", "finish"} => cptr = Len(window) /\ then = pc
    /\ pc = "copy" => Len(window) < WindowCap
    /\ pc \in {"slide", "copy"} \/ (pc = "consume" /\ then = "slide") => rest > 0
    /\ pc \in {"out", "flush", "finish", "close"} \/ (pc = "consume" /\ then \in {"flush", "finish"}) => err # "none" \/ rest = 0
    /\ state = "DONE" => pc = "out"
    /\ verdict # "open" => state = "DONE"
    /\ verdict = "ok" => err = "none"

\* The types, and what bounds the counters and the window.
TypeI ==
    /\ job \in Jobs
    /\ sent \in 0 .. Len(job.bytes) /\ rest \in 0 .. sent
    /\ window \in Seq(Byte) /\ Len(window) <= WindowCap
    /\ cptr \in 0 .. Len(window)
    /\ table \in HashTables
    /\ open \in BOOLEAN
    /\ syms \in Seq(Symbols)
    /\ bits \in Nat
    /\ reader \in Readers
    /\ flushed \in Int
    /\ err \in {"none", "BUFFER_TOO_SMALL"}
    /\ then \in {"out", "slide", "room", "flush", "finish"}

\* The window is the piece of the text that ends where input was copied to.
WindowI ==
    /\ Behind \in Nat
    /\ \A i \in 1 .. Len(window) : window[i] = Text[Behind + i]

\* What a decoder has is the beginning of the text, and no match crossed a reset.
Whole(a) ==
    /\ a.ok /\ ~a.crossed
    /\ Begins(a.plain, Text)

\* Decoder a has the text up to cptr, in a block that says f of itself on the dynamic path.
ReachedI(a, f) ==
    /\ Whole(a) /\ ~a.done
    /\ job.dynamic => a.block = "coded" /\ a.final = f
    /\ Len(a.plain) = Behind + cptr

\* While a call can go on: a decoder that is also given the collected symbols has the text up
\* to cptr, whether they are put in a last block or not; and the block on the wire is the open one.
CodeI == Active =>
    /\ \A f \in BOOLEAN : ReachedI(Ahead(f), f)
    /\ reader.floor <= Behind
    /\ ~reader.done
    /\ reader.block = IF open THEN "coded" ELSE "none"
    /\ open => ~job.dynamic /\ ~reader.final
    /\ Slots < SymMax

\* An error leaves a beginning too.
FaithfulI == Whole(reader) /\ Len(reader.plain) <= Len(job.dict) + sent

\* Finished, or about to be.
EndI ==
    verdict = "ok" \/ (pc = "close" /\ err = "none") =>
        reader.done /\ Len(reader.plain) = Len(job.dict) + sent

\* Since a flush, while it runs and after it.
FlushI ==
    flushed >= 0 /\ err = "none" =>
       /\ state # "DONE"
       /\ \/ /\ pc = "out"
             /\ Len(reader.plain) = Len(job.dict) + sent
             /\ reader.block = "none" /\ ~reader.done /\ bits % 8 = 0
          \/ pc \in {"consume", "flush"} /\ then = "flush"

\* The inductive invariant.
Inv == TypeI /\ ControlInv /\ WindowI /\ CodeI /\ FaithfulI /\ EndI /\ FlushI

-----------------------------------------------------------------------------
(* Items and blocks.                                                       *)

\* Two sequences of one.
LEMMA Pair ==
    ASSUME NEW S, NEW x \in S, NEW y \in S PROVE <<x>> \o <<y>> = <<x, y>>
<1>1. /\ <<x>> \o <<y>> \in Seq(S) /\ Len(<<x>> \o <<y>>) = 2
      /\ <<x, y>> \in Seq(S) /\ Len(<<x, y>>) = 2
  OBVIOUS
<1>2. ASSUME NEW i \in 1 .. 2 PROVE (<<x>> \o <<y>>)[i] = <<x, y>>[i]
  <2>1. i = 1 \/ i = 2
    OBVIOUS
  <2>2. QED
    BY <1>1, <2>1
<1>3. QED
  BY <1>1, <1>2, SeqEqual

\* And a third.
LEMMA Triple ==
    ASSUME NEW S, NEW x \in S, NEW y \in S, NEW z \in S PROVE <<x, y>> \o <<z>> = <<x, y, z>>
<1>1. /\ <<x, y>> \o <<z>> \in Seq(S) /\ Len(<<x, y>> \o <<z>>) = 3
      /\ <<x, y, z>> \in Seq(S) /\ Len(<<x, y, z>>) = 3
  OBVIOUS
<1>2. ASSUME NEW i \in 1 .. 3 PROVE (<<x, y>> \o <<z>>)[i] = <<x, y, z>>[i]
  <2>1. i = 1 \/ i = 2 \/ i = 3
    OBVIOUS
  <2>2. QED
    BY <1>1, <2>1
<1>3. QED
  BY <1>1, <1>2, SeqEqual

\* Symbols may be written, and what is written can be read.
LEMMA SymbolsAreItems == Symbols \subseteq Written /\ Symbols \subseteq Items /\ Written \subseteq Items
BY WrittenIsItems DEF Symbols

\* So may what is around them.
LEMMA BlocksWritten ==
    /\ \A f \in BOOLEAN : Block(f, "coded") \in Written /\ Block(f, "stored") \in Written
    /\ Eob \in Written /\ Align \in Written /\ Lengths \in Written
BY DEF Block, Written

\* The same of sequences of symbols.
LEMMA ItemsOfSymbols ==
    ASSUME NEW s \in Seq(Symbols) PROVE s \in Seq(Written) /\ s \in Seq(Items)
BY SymbolsAreItems, SeqMonotonic

\* And of all that is written.
LEMMA ItemsOfWritten ==
    ASSUME NEW s \in Seq(Written) PROVE s \in Seq(Items)
BY SymbolsAreItems, SeqMonotonic

\* The decoder behind the collected symbols is one.
LEMMA AheadType ==
    ASSUME TypeI, NEW f \in BOOLEAN
    PROVE  Ahead(f) \in Readers /\ <<Block(f, "coded")>> \o syms \in Seq(Written)
<1>1. syms \in Seq(Written) /\ syms \in Seq(Items)
  BY ItemsOfSymbols DEF TypeI
<1>2. <<Block(f, "coded")>> \in Seq(Written)
  BY BlocksWritten
<1>3. <<Block(f, "coded")>> \o syms \in Seq(Written)
  BY <1>1, <1>2, ConcatProperties
<1> DEFINE x == <<Block(f, "coded")>> \o syms
<1>4. x \in Seq(Items)
  BY <1>3, ItemsOfWritten
<1>5. reader \in Readers
  BY DEF TypeI
<1> HIDE DEF x
<1>6. Read(reader, x) \in Readers
  BY <1>4, <1>5, ReadType
<1>7. QED
  BY <1>3, <1>5, <1>6 DEF Ahead, Opened, x

\* One more symbol.
LEMMA ReadMore ==
    ASSUME NEW s \in Readers, NEW us \in Seq(Items), NEW x \in Items
    PROVE  Read(s, us \o <<x>>) = Decoded(Read(s, us), x)
<1>1. <<x>> \in Seq(Items)
  OBVIOUS
<1>2. Read(s, us \o <<x>>) = Read(Read(s, us), <<x>>)
  BY <1>1, ReadConcat
<1>3. QED
  BY <1>2, ReadType, ReadOne

\* The header of a block where no block is begun.
LEMMA BlockDecoded ==
    ASSUME NEW s \in Readers, s.ok, s.block = "none", ~s.done, NEW f \in BOOLEAN, NEW k
    PROVE  Decoded(s, Block(f, k)) = [s EXCEPT !.block = k, !.final = f]
BY DEF Decoded, Block, Readers

\* The end of a block.
LEMMA EobDecoded ==
    ASSUME NEW s \in Readers, s.ok, s.block = "coded"
    PROVE  Decoded(s, Eob) = [s EXCEPT !.block = "none", !.done = s.final]
BY DEF Decoded, Eob, Readers, Ends

\* The collected symbols in a block of their own.
LEMMA CollectedRead ==
    ASSUME TypeI, NEW f \in BOOLEAN, job.dynamic, Ahead(f).ok, Ahead(f).block = "coded"
    PROVE  /\ Collected(f) \in Seq(Written)
           /\ Read(reader, Collected(f)) = [Ahead(f) EXCEPT !.block = "none", !.done = Ahead(f).final]
<1> DEFINE x == <<Block(f, "coded")>> \o syms
<1>1. x \in Seq(Written) /\ Ahead(f) \in Readers
  BY AheadType
<1>2. x \in Seq(Items) /\ Eob \in Items /\ Eob \in Written /\ reader \in Readers
  BY <1>1, ItemsOfWritten, BlocksWritten, SymbolsAreItems DEF TypeI
<1>3. Ahead(f) = Read(reader, x)
  BY DEF Ahead, Opened
<1> HIDE DEF x
<1>4. Read(reader, x \o <<Eob>>) = Decoded(Ahead(f), Eob)
  BY <1>2, <1>3, ReadMore
<1>5. x \o <<Eob>> \in Seq(Written)
  <2>1. <<Eob>> \in Seq(Written)
    BY <1>2
  <2>2. QED
    BY <1>1, <2>1, ConcatProperties
<1>6. Collected(f) = x \o <<Eob>>
  BY DEF Collected, x
<1>7. QED
  BY <1>1, <1>4, <1>5, <1>6, EobDecoded

\* An empty stored block.
LEMMA EmptyStoredRead ==
    ASSUME NEW s \in Readers, s.ok, s.block = "none", ~s.done, NEW f \in BOOLEAN
    PROVE  /\ EmptyStored(f) \in Seq(Written) /\ Len(EmptyStored(f)) = 3
           /\ EmptyStored(f)[2] = Align /\ EmptyStored(f)[3] = Lengths
           /\ Read(s, EmptyStored(f)) = [s EXCEPT !.final = f, !.done = f]
<1> DEFINE b == Block(f, "stored")
           r == [s EXCEPT !.block = "stored", !.final = f]
<1>1. b \in Written /\ Align \in Written /\ Lengths \in Written
  BY BlocksWritten
<1>2. b \in Items /\ Align \in Items /\ Lengths \in Items
  BY <1>1, SymbolsAreItems
<1>3. r \in Readers /\ r.ok /\ r.block = "stored"
  BY DEF Readers
<1>4. Decoded(s, b) = r
  BY BlockDecoded
<1>5. Decoded(r, Align) = r
  <2> HIDE DEF r
  <2> QED
    BY <1>3 DEF Decoded, Align
<1>6. Decoded(r, Lengths) = Ends(r)
  <2> HIDE DEF r
  <2> QED
    BY <1>3 DEF Decoded, Lengths
<1>7. Ends(r) = [s EXCEPT !.final = f, !.done = f]
  BY DEF Ends, Readers
<1> HIDE DEF b, r
<1>8. <<b>> \in Seq(Items) /\ <<b, Align>> \in Seq(Items)
      /\ <<b>> \o <<Align>> = <<b, Align>>
      /\ <<b, Align>> \o <<Lengths>> = <<b, Align, Lengths>>
  BY <1>2, Pair, Triple
<1>9. Read(s, <<b>>) = r
  BY <1>2, <1>4, ReadOne
<1>10. Read(s, <<b, Align>>) = r
  <2>1. Read(s, <<b>> \o <<Align>>) = Decoded(Read(s, <<b>>), Align)
    BY <1>2, <1>8, ReadMore
  <2>2. QED
    BY <1>5, <1>8, <1>9, <2>1
<1>11. Read(s, <<b, Align, Lengths>>) = Ends(r)
  <2>1. Read(s, <<b, Align>> \o <<Lengths>>) = Decoded(Read(s, <<b, Align>>), Lengths)
    BY <1>2, <1>8, ReadMore
  <2>2. QED
    BY <1>6, <1>8, <1>10, <2>1
<1>12. EmptyStored(f) = <<b, Align, Lengths>>
  BY DEF EmptyStored, b
<1>13. <<b, Align, Lengths>> \in Seq(Written)
  BY <1>1
<1>14. Len(<<b, Align, Lengths>>) = 3 /\ <<b, Align, Lengths>>[2] = Align
       /\ <<b, Align, Lengths>>[3] = Lengths
  OBVIOUS
<1>15. QED
  BY <1>7, <1>11, <1>12, <1>13, <1>14

\* What comes of writing: all of it, or the buffer was full and what got through is on its way there.
LEMMA PutOutcome ==
    ASSUME TypeI, NEW items \in Seq(Written), NEW next, Put(items, next), Whole(Read(reader, items))
    PROVE  /\ reader' \in Readers /\ bits' \in Nat
           /\ Whole(reader') /\ Len(reader'.plain) <= Len(Read(reader, items).plain)
           /\ reader'.floor = reader.floor
           /\ \/ /\ reader' = Read(reader, items) /\ pc' = next /\ err' = err
                 /\ Fitting(bits, items, job.cap).items = Len(items)
                 /\ bits' = Fitting(bits, items, job.cap).bits
              \/ err' = "BUFFER_TOO_SMALL" /\ pc' = IF then = "finish" THEN "close" ELSE "out"
<1> DEFINE n == Fitting(bits, items, job.cap).items
           r == Read(reader, items)
<1>1. bits \in Nat /\ reader \in Readers
  BY DEF TypeI
<1>2. n \in 0 .. Len(items) /\ Fitting(bits, items, job.cap).bits \in Nat
  BY <1>1, FittingType
<1>3. /\ reader' = Read(reader, SubSeq(items, 1, n)) /\ bits' = Fitting(bits, items, job.cap).bits
      /\ n = Len(items) => err' = err /\ pc' = next
      /\ n # Len(items) => err' = "BUFFER_TOO_SMALL" /\ pc' = IF then = "finish" THEN "close" ELSE "out"
  BY DEF Put
<1>4. items \in Seq(Items)
  BY ItemsOfWritten
<1>5. SubSeq(items, 1, n) \in Seq(Items) /\ Onward(Read(reader, SubSeq(items, 1, n)), r)
      /\ Onward(reader, Read(reader, SubSeq(items, 1, n)))
  <2> HIDE DEF n, r
  <2>1. SubSeq(items, 1, n) \in Seq(Items) /\ Onward(Read(reader, SubSeq(items, 1, n)), r)
    BY <1>1, <1>2, <1>4, ReadPrefix DEF r
  <2>2. QED
    BY <1>1, <2>1, ReadOnward
<1>6. reader' \in Readers /\ Onward(reader', r) /\ r \in Readers /\ Onward(reader, reader')
  <2> HIDE DEF n
  <2> QED
    BY <1>1, <1>3, <1>4, <1>5, ReadType
<1>7. n = Len(items) => SubSeq(items, 1, n) = items
  BY SubSeqFull
<1> HIDE DEF n, r
<1>8. Whole(reader') /\ Len(reader'.plain) <= Len(r.plain) /\ reader'.floor = reader.floor
  <2>1. Len(r.plain) \in Nat /\ Len(reader'.plain) \in Nat /\ Whole(r)
    BY <1>6 DEF Readers, r
  <2>2. QED
    BY <1>6, <2>1 DEF Onward, Whole, Begins, Readers
<1>9. QED
  BY <1>2, <1>3, <1>6, <1>7, <1>8 DEF r, n

-----------------------------------------------------------------------------
(* At first.                                                               *)

\* Where no block is begun and nothing is collected.
LEMMA OpenedOnNone ==
    ASSUME NEW s \in Readers, s.ok, s.block = "none", ~s.done, NEW f \in BOOLEAN
    PROVE  Opened(s, <<>>, f) = [s EXCEPT !.block = "coded", !.final = f]
<1> DEFINE x == Block(f, "coded")
<1>1. x \in Items
  BY BlocksWritten, SymbolsAreItems
<1> HIDE DEF x
<1>2. <<x>> \o <<>> = <<x>>
  BY <1>1
<1>3. Read(s, <<x>>) = Decoded(s, x)
  BY <1>1, ReadOne
<1>4. Decoded(s, x) = [s EXCEPT !.block = "coded", !.final = f]
  BY BlockDecoded DEF x
<1>5. QED
  BY <1>2, <1>3, <1>4 DEF Opened, x

\* The empty table is a table.
LEMMA ClearedType == Cleared \in HashTables
<1>1. Window \in Nat
  BY Lz77Assumption
<1>2. QED
  BY <1>1 DEF Cleared, HashTables

\* A job, and its text: the dictionary and then the bytes.
LEMMA JobType ==
    ASSUME NEW j \in Jobs
    PROVE  /\ j.bytes \in Seq(Byte) /\ j.dict \in Seq(Byte) /\ Len(j.dict) <= Window
           /\ Len(j.bytes) \in Nat /\ Len(j.dict) \in Nat
           /\ j.dynamic \in BOOLEAN /\ j.cap \in Nat
           /\ j.dict \o j.bytes \in Seq(Byte)
           /\ Len(j.dict \o j.bytes) = Len(j.dict) + Len(j.bytes)
           /\ \A i \in 1 .. Len(j.dict) : (j.dict \o j.bytes)[i] = j.dict[i]
           /\ \A i \in 1 .. Len(j.bytes) : (j.dict \o j.bytes)[Len(j.dict) + i] = j.bytes[i]
<1> DEFINE d == j.dict
           b == j.bytes
<1>1. b \in Seq(Byte) /\ d \in Seq(Byte) /\ Len(d) <= Window /\ j.dynamic \in BOOLEAN /\ j.cap \in Nat
  BY DeflateEncAssumption
<1> HIDE DEF d, b
<1>2. Len(b) \in Nat /\ Len(d) \in Nat
  BY <1>1
<1>3. /\ d \o b \in Seq(Byte) /\ Len(d \o b) = Len(d) + Len(b)
      /\ \A i \in 1 .. Len(d) + Len(b) : (d \o b)[i] = IF i <= Len(d) THEN d[i] ELSE b[i - Len(d)]
  BY <1>1, ConcatProperties
<1>4. \A i \in 1 .. Len(d) : (d \o b)[i] = d[i]
  BY <1>2, <1>3
<1>5. ASSUME NEW i \in 1 .. Len(b) PROVE (d \o b)[Len(d) + i] = b[i]
  <2>1. Len(d) + i \in 1 .. Len(d) + Len(b) /\ ~(Len(d) + i <= Len(d)) /\ (Len(d) + i) - Len(d) = i
    BY <1>2
  <2>2. QED
    BY <1>3, <2>1
<1>6. QED
  BY <1>1, <1>2, <1>3, <1>4, <1>5 DEF d, b

\* At first the decoder has the dictionary, and the window is at its end.
LEMMA InitInv == Init => Inv
<1> SUFFICES ASSUME Init PROVE Inv
  OBVIOUS
<1>1. job \in Jobs /\ Window \in Nat \ {0} /\ Byte \subseteq Nat
  BY Lz77Assumption DEF Init
<1>2. /\ job.dict \in Seq(Byte) /\ Len(job.dict) \in Nat /\ Len(job.dict) <= Window
      /\ Len(job.bytes) \in Nat
      /\ \A i \in 1 .. Len(job.dict) : Text[i] = job.dict[i]
  BY <1>1, JobType DEF Text
<1>3. Start(job.dict) \in Readers
  <2>1. job.dict \in Seq(Nat)
    BY <1>1, <1>2, SeqMonotonic
  <2>2. QED
    BY <2>1 DEF Start, Readers
<1>4. table \in HashTables
  <2>1. InsertAll(Cleared, job.dict, 0, Len(job.dict)) \in HashTables
    <3> DEFINE d == job.dict
               n == Len(d)
    <3>1. d \in Seq(Byte) /\ n \in Nat /\ 0 \in Nat /\ 0 <= n
      BY <1>2
    <3> HIDE DEF d, n
    <3>2. InsertAll(Cleared, d, 0, n) \in HashTables
      BY <3>1, ClearedType, InsertAllType
    <3>3. QED
      BY <3>2 DEF d, n
  <2>2. QED
    BY <2>1 DEF Init, Preloaded
<1>5. TypeI
  <2>1. job \in Jobs /\ table \in HashTables /\ reader \in Readers
    BY <1>1, <1>3, <1>4 DEF Init
  <2>2. sent \in 0 .. Len(job.bytes) /\ rest \in 0 .. sent /\ flushed \in Int /\ bits \in Nat
        /\ open \in BOOLEAN /\ syms \in Seq(Symbols)
    <3>1. sent = 0 /\ rest = 0 /\ flushed = -1 /\ bits = 0 /\ open = FALSE /\ syms = <<>>
      BY DEF Init
    <3>2. <<>> \in Seq(Symbols)
      OBVIOUS
    <3>3. sent \in 0 .. Len(job.bytes) /\ rest \in 0 .. sent /\ flushed \in Int /\ bits \in Nat
      BY <1>2, <3>1
    <3>4. QED
      BY <3>1, <3>2, <3>3
  <2>3. window \in Seq(Byte) /\ Len(window) <= WindowCap /\ cptr \in 0 .. Len(window)
    <3>1. window = job.dict /\ cptr = Len(job.dict)
      BY DEF Init
    <3>2. QED
      BY <1>1, <1>2, <3>1 DEF WindowCap
  <2>4. QED
    BY <2>1, <2>2, <2>3 DEF TypeI, Init
<1>6. ControlInv
  BY DEF Init, ControlInv
<1>7. Behind = 0
  BY <1>2 DEF Init, Behind, Seen
<1>8. WindowI
  BY <1>2, <1>7 DEF Init, WindowI
<1>9. reader = Start(job.dict)
  BY DEF Init
<1>10. Whole(reader) /\ Len(reader.plain) = Len(job.dict)
  BY <1>2, <1>9 DEF Whole, Begins, Start
<1>11. CodeI
  <2>1. ASSUME NEW f \in BOOLEAN PROVE ReachedI(Ahead(f), f)
    <3>1. CASE job.dynamic
      <4>1. Opened(reader, <<>>, f) = [reader EXCEPT !.block = "coded", !.final = f]
        BY <1>3, <1>9, OpenedOnNone DEF Start
      <4>2. Ahead(f) = [reader EXCEPT !.block = "coded", !.final = f]
        BY <3>1, <4>1 DEF Ahead, Init
      <4>3. QED
        BY <1>2, <1>7, <1>9, <1>10, <4>2 DEF ReachedI, Init, Start, Whole
    <3>2. CASE ~job.dynamic
      BY <3>2, <1>2, <1>7, <1>9, <1>10 DEF ReachedI, Ahead, Init, Start
    <3>3. QED
      BY <3>1, <3>2
  <2>2. Slots = 0
    <3>1. syms = <<>> /\ {k \in DOMAIN syms : syms[k].t = "match"} = {}
      BY DEF Init
    <3>2. QED
      BY <3>1, FS_EmptySet DEF Slots, SlotsOf
  <2>3. QED
    BY <1>7, <1>9, <2>1, <2>2, DeflateEncAssumption DEF CodeI, Init, Start
<1>12. FaithfulI /\ EndI /\ FlushI
  BY <1>2, <1>10 DEF FaithfulI, EndI, FlushI, Init
<1>13. QED
  BY <1>5, <1>6, <1>8, <1>11, <1>12 DEF Inv

-----------------------------------------------------------------------------
(* The caller.                                                             *)

\* What an action leaves alone keeps its part of the invariant.
LEMMA Stutter == ASSUME Inv, UNCHANGED vars PROVE Inv'
<1>1. /\ UNCHANGED <<job, sent, rest, window, cptr, table, state, err, open>>
      /\ UNCHANGED <<syms, bits, reader, pc, upto, then, flushed, verdict>>
  BY DEF vars
<1>2. Text' = Text /\ Behind' = Behind /\ Slots' = Slots /\ Active' = Active
  BY <1>1 DEF Text, Behind, Seen, Slots, SlotsOf, Active
<1>3. TypeI'
  BY <1>1, Zenon DEF Inv, TypeI
<1>4. ControlInv'
  BY <1>1, Zenon DEF Inv, ControlInv
<1>5. WindowI'
  BY <1>1, <1>2, Zenon DEF Inv, WindowI
<1>6. CodeI'
  <2>1. ASSUME Active, NEW f \in BOOLEAN PROVE ReachedI(Ahead(f), f)'
    <3>1. ReachedI(Ahead(f), f)
      BY <2>1 DEF Inv, CodeI
    <3>2. QED
      BY <1>1, <1>2, <3>1, Zenon DEF ReachedI, Whole, Ahead, Opened
  <2>2. QED
    BY <1>1, <1>2, <2>1, Zenon DEF Inv, CodeI
<1>7. FaithfulI' /\ EndI' /\ FlushI'
  BY <1>1, <1>2, Zenon DEF Inv, FaithfulI, Whole, EndI, FlushI
<1>8. QED
  BY <1>3, <1>4, <1>5, <1>6, <1>7 DEF Inv

\* A write hands over bytes of the text.
LEMMA WriteInv == ASSUME Inv, NEW n \in 1 .. Len(job.bytes), Write(n) PROVE Inv'
<1>1. /\ job' = job /\ sent' = sent + n /\ rest' = n /\ state' = "WRITING" /\ pc' = "room"
      /\ flushed' = -1 /\ window' = window /\ cptr' = cptr /\ table' = table /\ err' = err
      /\ open' = open /\ syms' = syms /\ bits' = bits /\ reader' = reader /\ verdict' = verdict
      /\ then' = then /\ upto' = upto
      /\ pc = "out" /\ err = "none" /\ state # "DONE" /\ n \in 1 .. Len(job.bytes) - sent
  BY DEF Write, writer, run, Writable
<1>2. /\ TypeI /\ ControlInv /\ WindowI /\ CodeI /\ FaithfulI /\ EndI /\ FlushI
  BY DEF Inv
<1>3. rest = 0 /\ Active
  BY <1>1, <1>2 DEF ControlInv, Active
<1>4. /\ Len(job.bytes) \in Nat /\ Len(job.dict) \in Nat /\ sent \in 0 .. Len(job.bytes)
      /\ Len(window) \in Nat
  BY <1>2, JobType DEF TypeI
<1>5. Text' = Text /\ Seen' = Seen /\ Behind' = Behind
  BY <1>1, <1>3, <1>4 DEF Text, Seen, Behind
<1>6. TypeI'
  BY <1>1, <1>2, <1>4 DEF TypeI
<1>7. ControlInv'
  BY <1>1, <1>2 DEF ControlInv
<1>8. WindowI'
  BY <1>1, <1>2, <1>5 DEF WindowI
<1>9. CodeI'
  BY <1>1, <1>2, <1>3, <1>5 DEF CodeI, ReachedI, Whole, Ahead, Slots
<1>10. FaithfulI'
  <2>1. Len(reader.plain) \in Nat
    BY <1>2 DEF TypeI, Readers
  <2>2. Len(reader.plain) <= Len(job.dict) + sent
    BY <1>2 DEF FaithfulI
  <2>3. Len(reader.plain) <= Len(job.dict) + (sent + n)
    <3>1. sent \in Nat /\ n \in Nat /\ Len(job.dict) \in Nat
      BY <1>4
    <3>2. \A a, b, c, d \in Nat : a <= b + c => a <= b + (c + d)
      OBVIOUS
    <3>3. QED
      BY <2>1, <2>2, <3>1, <3>2
  <2>4. QED
    BY <1>1, <1>2, <1>5, <2>3 DEF FaithfulI, Whole
<1>11. EndI' /\ FlushI'
  BY <1>1, <1>2 DEF EndI, FlushI, ControlInv
<1>12. QED
  BY <1>6, <1>7, <1>8, <1>9, <1>10, <1>11 DEF Inv

\* A flush runs to the end of the window.
LEMMA FlushInv == ASSUME Inv, Flush PROVE Inv'
<1>1. /\ job' = job /\ sent' = sent /\ rest' = rest /\ state' = state /\ pc' = "consume"
      /\ flushed' = sent /\ window' = window /\ cptr' = cptr /\ table' = table /\ err' = err
      /\ open' = open /\ syms' = syms /\ bits' = bits /\ reader' = reader /\ verdict' = verdict
      /\ then' = "flush" /\ upto' = Len(window)
      /\ pc = "out" /\ err = "none" /\ state # "DONE"
  BY DEF Flush, writer, Writable, Consume, FlushEnd
<1>2. /\ TypeI /\ ControlInv /\ WindowI /\ CodeI /\ FaithfulI /\ EndI /\ FlushI
  BY DEF Inv
<1>3. rest = 0 /\ Active
  BY <1>1, <1>2 DEF ControlInv, Active
<1>4. Text' = Text /\ Seen' = Seen /\ Behind' = Behind
  BY <1>1 DEF Text, Seen, Behind
<1>5. TypeI'
  <2>1. sent \in Int
    BY <1>2, JobType DEF TypeI
  <2>2. QED
    BY <1>1, <1>2, <2>1 DEF TypeI
<1>6. ControlInv'
  BY <1>1, <1>2, <1>3 DEF ControlInv
<1>7. WindowI'
  BY <1>1, <1>2, <1>4 DEF WindowI
<1>8. CodeI'
  BY <1>1, <1>2, <1>3, <1>4 DEF CodeI, ReachedI, Whole, Ahead, Slots
<1>9. FaithfulI'
  BY <1>1, <1>2, <1>4 DEF FaithfulI, Whole
<1>10. EndI' /\ FlushI'
  BY <1>1, <1>2 DEF EndI, FlushI, ControlInv
<1>11. QED
  BY <1>5, <1>6, <1>7, <1>8, <1>9, <1>10 DEF Inv

\* So does finish, unless there was an error.
LEMMA FinishInv == ASSUME Inv, Finish PROVE Inv'
<1>1. /\ job' = job /\ sent' = sent /\ rest' = rest /\ state' = state
      /\ flushed' = -1 /\ window' = window /\ cptr' = cptr /\ table' = table /\ err' = err
      /\ open' = open /\ syms' = syms /\ bits' = bits /\ reader' = reader /\ verdict' = verdict
      /\ pc = "out" /\ state # "DONE"
      /\ IF err # "none" THEN pc' = "close" /\ then' = then /\ upto' = upto
         ELSE pc' = "consume" /\ then' = "finish" /\ upto' = Len(window)
  BY DEF Finish, writer, Consume, run
<1>2. /\ TypeI /\ ControlInv /\ WindowI /\ CodeI /\ FaithfulI /\ EndI /\ FlushI
  BY DEF Inv
<1>3. err # "none" \/ (rest = 0 /\ Active)
  BY <1>1, <1>2 DEF ControlInv, Active
<1>4. Text' = Text /\ Seen' = Seen /\ Behind' = Behind
  BY <1>1 DEF Text, Seen, Behind
<1>5. TypeI'
  BY <1>1, <1>2 DEF TypeI
<1>6. ControlInv'
  BY <1>1, <1>2, <1>3 DEF ControlInv
<1>7. WindowI'
  BY <1>1, <1>2, <1>4 DEF WindowI
<1>8. CodeI'
  BY <1>1, <1>2, <1>3, <1>4 DEF CodeI, ReachedI, Whole, Ahead, Slots, Active
<1>9. FaithfulI'
  BY <1>1, <1>2, <1>4 DEF FaithfulI, Whole
<1>10. EndI' /\ FlushI'
  BY <1>1, <1>2 DEF EndI, FlushI, ControlInv
<1>11. QED
  BY <1>5, <1>6, <1>7, <1>8, <1>9, <1>10 DEF Inv

\* Where the encoder stands in the text.
LEMMA Standing ==
    ASSUME Inv
    PROVE  /\ Behind \in Nat /\ cptr \in Nat /\ cptr <= Len(window) /\ Len(window) \in Nat
           /\ rest \in Nat /\ Len(job.dict) + sent \in Nat
           /\ Behind + Len(window) + rest = Len(job.dict) + sent
           /\ Behind + cptr <= Len(job.dict) + sent
<1>1. /\ job \in Jobs /\ sent \in 0 .. Len(job.bytes) /\ rest \in 0 .. sent /\ window \in Seq(Byte)
      /\ cptr \in 0 .. Len(window) /\ Behind \in Nat
  BY DEF Inv, TypeI, WindowI
<1> DEFINE d == Len(job.dict)
           l == Len(window)
<1>2. d \in Nat /\ Len(job.bytes) \in Nat /\ l \in Nat
  BY <1>1, JobType
<1>3. sent \in Nat /\ rest \in Nat /\ rest <= sent /\ cptr \in Nat /\ cptr <= l
  BY <1>1, <1>2
<1>4. Behind = (d + (sent - rest)) - l
  <2>1. Seen = d + (sent - rest)
    BY <1>2, <1>3 DEF Seen
  <2>2. QED
    BY <2>1 DEF Behind
<1> HIDE DEF d, l
<1>5. Behind + l + rest = d + sent
  BY <1>1, <1>2, <1>3, <1>4
<1>6. Behind + cptr <= d + sent
  BY <1>1, <1>2, <1>3, <1>5
<1>7. QED
  BY <1>1, <1>2, <1>3, <1>5, <1>6 DEF d, l

\* A reset forgets the window when all of it is behind cptr: the decoder has it all.
LEMMA ResetContextInv == ASSUME Inv, ResetContext PROVE Inv'
<1>1. /\ job' = job /\ sent' = sent /\ rest' = rest /\ state' = state /\ pc' = pc
      /\ flushed' = flushed /\ window' = <<>> /\ cptr' = 0 /\ table' = Cleared /\ err' = err
      /\ open' = open /\ syms' = syms /\ bits' = bits /\ verdict' = verdict
      /\ then' = then /\ upto' = upto
      /\ reader' = [reader EXCEPT !.floor = Len(reader.plain)]
      /\ pc = "out" /\ err = "none" /\ state # "DONE" /\ cptr = Len(window)
      /\ IF job.dynamic THEN syms = <<>> ELSE ~open
  BY DEF ResetContext, Writable, ForgottenHistory, caller, run
<1>2. /\ TypeI /\ ControlInv /\ WindowI /\ CodeI /\ FaithfulI /\ EndI /\ FlushI
  BY DEF Inv
<1>3. rest = 0 /\ Active
  BY <1>1, <1>2 DEF ControlInv, Active
<1>4. /\ reader \in Readers /\ reader.ok /\ reader.block = "none" /\ ~reader.done
      /\ Whole(reader)
  BY <1>1, <1>2, <1>3 DEF TypeI, CodeI, FaithfulI, Whole
<1>5. /\ Behind \in Nat /\ Len(window) \in Nat /\ Len(reader.plain) \in Nat
      /\ Behind + Len(window) = Len(job.dict) + sent
  BY <1>3, <1>4, Standing DEF Readers
<1>6. Len(reader.plain) = Behind + Len(window)
  <2>1. ReachedI(Ahead(FALSE), FALSE)
    BY <1>2, <1>3 DEF CodeI
  <2>2. CASE job.dynamic
    <3>1. Ahead(FALSE) = [reader EXCEPT !.block = "coded", !.final = FALSE]
      BY <1>1, <1>4, <2>2, OpenedOnNone DEF Ahead
    <3>2. QED
      BY <1>1, <1>4, <2>1, <3>1 DEF ReachedI, Readers
  <2>3. CASE ~job.dynamic
    BY <1>1, <2>1, <2>3 DEF ReachedI, Ahead
  <2>4. QED
    BY <2>2, <2>3
<1>7. /\ Text' = Text /\ Behind' = Behind + Len(window)
  <2>1. Seen' = Seen /\ Behind' = Seen' - 0
    BY <1>1 DEF Seen, Behind
  <2>2. Seen = Len(job.dict) + sent
    BY <1>2, <1>3, JobType DEF Seen, TypeI
  <2>3. QED
    BY <1>1, <1>5, <2>1, <2>2 DEF Text
<1>8. reader' \in Readers /\ Whole(reader)' /\ reader'.plain = reader.plain
      /\ reader'.floor = Len(reader.plain) /\ reader'.block = "none" /\ ~reader'.done /\ reader'.ok
  BY <1>1, <1>4, <1>5, <1>7 DEF Readers, Whole
<1>9. TypeI'
  <2>1. window' \in Seq(Byte) /\ Len(window') <= WindowCap' /\ cptr' \in 0 .. Len(window')
    <3>1. WindowCap' \in Nat
      BY Lz77Assumption DEF WindowCap
    <3>2. QED
      BY <1>1, <3>1
  <2>2. QED
    BY <1>1, <1>2, <1>8, <2>1, ClearedType DEF TypeI
<1>10. ControlInv'
  BY <1>1, <1>2 DEF ControlInv
<1>11. WindowI'
  BY <1>1, <1>5, <1>7 DEF WindowI
<1>12. CodeI'
  <2>1. ASSUME NEW f \in BOOLEAN PROVE ReachedI(Ahead(f), f)'
    <3>1. CASE job.dynamic
      <4>1. Ahead(f)' = [reader' EXCEPT !.block = "coded", !.final = f]
        <5>1. Opened(reader', <<>>, f) = [reader' EXCEPT !.block = "coded", !.final = f]
          BY <1>8, OpenedOnNone
        <5>2. QED
          BY <1>1, <3>1, <5>1 DEF Ahead, Opened
      <4>2. QED
        BY <1>1, <1>5, <1>6, <1>7, <1>8, <4>1 DEF ReachedI, Whole, Readers
    <3>2. CASE ~job.dynamic
      BY <1>1, <1>5, <1>6, <1>7, <1>8, <3>2 DEF ReachedI, Whole, Ahead
    <3>3. QED
      BY <3>1, <3>2
  <2>2. open' => ~job'.dynamic /\ ~reader'.final
    BY <1>1, <1>2, <1>3 DEF CodeI
  <2>3. reader'.floor <= Behind'
    BY <1>5, <1>6, <1>7, <1>8
  <2>4. reader'.block = IF open' THEN "coded" ELSE "none"
    BY <1>1, <1>2, <1>3, <1>8 DEF CodeI
  <2>5. Slots' < SymMax
    BY <1>1, <1>2, <1>3 DEF CodeI, Slots
  <2>6. QED
    BY <1>8, <2>1, <2>2, <2>3, <2>4, <2>5 DEF CodeI
<1>13. FaithfulI'
  BY <1>1, <1>2, <1>8 DEF FaithfulI
<1>14. EndI'
  BY <1>1, <1>2 DEF EndI, ControlInv
<1>15. FlushI'
  BY <1>1, <1>2, <1>5, <1>6, <1>8 DEF FlushI
<1>16. QED
  BY <1>9, <1>10, <1>11, <1>12, <1>13, <1>14, <1>15 DEF Inv

-----------------------------------------------------------------------------
(* Inside a write.                                                         *)

\* Whether the window must slide first.
LEMMA RoomInv == ASSUME Inv, Room PROVE Inv'
<1>1. /\ job' = job /\ sent' = sent /\ rest' = rest /\ state' = state
      /\ flushed' = flushed /\ window' = window /\ cptr' = cptr /\ table' = table /\ err' = err
      /\ open' = open /\ syms' = syms /\ bits' = bits /\ reader' = reader /\ verdict' = verdict
      /\ pc = "room"
      /\ \/ rest = 0 /\ pc' = "out" /\ then' = then /\ upto' = upto
         \/ rest # 0 /\ pc' = "consume" /\ then' = "slide" /\ upto' = ProcessEnd(window)
         \/ rest # 0 /\ Len(window) + rest <= WindowCap /\ pc' = "copy" /\ then' = then /\ upto' = upto
  <2>1. Len(window) \in Nat /\ rest \in Nat /\ WindowCap \in Nat
    BY JobType, Lz77Assumption DEF Inv, TypeI, WindowCap
  <2>2. QED
    BY <2>1 DEF Room, writer, Consume, run, caller
<1>2. /\ TypeI /\ ControlInv /\ WindowI /\ CodeI /\ FaithfulI /\ EndI /\ FlushI
  BY DEF Inv
<1>3. Active
  BY <1>1, <1>2 DEF ControlInv, Active
<1>4. Text' = Text /\ Seen' = Seen /\ Behind' = Behind
  BY <1>1 DEF Text, Seen, Behind
<1>5. TypeI'
  BY <1>1, <1>2 DEF TypeI
<1>6. ControlInv'
  <2>1. Len(window) \in Nat /\ rest \in Nat /\ WindowCap \in Nat
    BY <1>2, JobType, Lz77Assumption DEF TypeI, WindowCap
  <2>2. ProcessEnd(window)' = ProcessEnd(window) /\ WindowCap' = WindowCap
    BY <1>1 DEF ProcessEnd, WindowCap
  <2>3. rest # 0 /\ Len(window) + rest <= WindowCap => Len(window) < WindowCap
    BY <2>1
  <2>4. QED
    BY <1>1, <1>2, <2>1, <2>2, <2>3 DEF ControlInv
<1>7. WindowI'
  BY <1>1, <1>2, <1>4 DEF WindowI
<1>8. CodeI'
  BY <1>1, <1>2, <1>3, <1>4 DEF CodeI, ReachedI, Whole, Ahead, Slots, Active
<1>9. FaithfulI'
  BY <1>1, <1>2, <1>4 DEF FaithfulI, Whole
<1>10. EndI' /\ FlushI'
  BY <1>1, <1>2 DEF EndI, FlushI, ControlInv
<1>11. QED
  BY <1>5, <1>6, <1>7, <1>8, <1>9, <1>10 DEF Inv

\* A run that is over goes on to what comes after it.
LEMMA ConsumedInv == ASSUME Inv, Consumed PROVE Inv'
<1>1. /\ job' = job /\ sent' = sent /\ rest' = rest /\ state' = state
      /\ flushed' = flushed /\ window' = window /\ cptr' = cptr /\ table' = table /\ err' = err
      /\ open' = open /\ syms' = syms /\ bits' = bits /\ reader' = reader /\ verdict' = verdict
      /\ pc = "consume" /\ cptr >= upto /\ pc' = then /\ then' = then /\ upto' = upto
  BY DEF Consumed, writer, run, caller, In
<1>2. /\ TypeI /\ ControlInv /\ WindowI /\ CodeI /\ FaithfulI /\ EndI /\ FlushI
  BY DEF Inv
<1>3. Active /\ then \in {"slide", "room", "flush", "finish"}
  BY <1>1, <1>2 DEF ControlInv, Active, TypeI
<1>4. Text' = Text /\ Seen' = Seen /\ Behind' = Behind
  BY <1>1 DEF Text, Seen, Behind
<1>5. TypeI'
  BY <1>1, <1>2 DEF TypeI
<1>6. ControlInv'
  <2>1. ProcessEnd(window)' = ProcessEnd(window)
    BY <1>1 DEF ProcessEnd
  <2>2. then \in {"flush", "finish"} => cptr = Len(window)
    BY <1>1, <1>2 DEF ControlInv, TypeI
  <2>3. then = "slide" => cptr >= ProcessEnd(window)
    BY <1>1, <1>2 DEF ControlInv
  <2>4. QED
    BY <1>1, <1>2, <1>3, <2>1, <2>2, <2>3 DEF ControlInv
<1>7. WindowI'
  BY <1>1, <1>2, <1>4 DEF WindowI
<1>8. CodeI'
  BY <1>1, <1>2, <1>3, <1>4 DEF CodeI, ReachedI, Whole, Ahead, Slots, Active
<1>9. FaithfulI'
  BY <1>1, <1>2, <1>4 DEF FaithfulI, Whole
<1>10. EndI' /\ FlushI'
  BY <1>1, <1>2, <1>3 DEF EndI, FlushI, ControlInv
<1>11. QED
  BY <1>5, <1>6, <1>7, <1>8, <1>9, <1>10 DEF Inv

\* Finish is over: its verdict is ok only if all was written.
LEMMA CloseInv == ASSUME Inv, CloseContext PROVE Inv'
<1>1. /\ job' = job /\ sent' = sent /\ rest' = rest /\ state' = "DONE"
      /\ flushed' = flushed /\ window' = window /\ cptr' = cptr /\ table' = table /\ err' = err
      /\ open' = open /\ syms' = syms /\ bits' = bits /\ reader' = reader
      /\ pc = "close" /\ pc' = "out" /\ then' = then /\ upto' = upto
      /\ verdict' = IF err = "none" THEN "ok" ELSE err
  BY DEF CloseContext, writer, run, caller, In
<1>2. /\ TypeI /\ ControlInv /\ WindowI /\ CodeI /\ FaithfulI /\ EndI /\ FlushI
  BY DEF Inv
<1>3. Text' = Text /\ Seen' = Seen /\ Behind' = Behind
  BY <1>1 DEF Text, Seen, Behind
<1>4. TypeI'
  BY <1>1, <1>2 DEF TypeI
<1>5. ControlInv'
  BY <1>1, <1>2 DEF ControlInv, TypeI
<1>6. WindowI'
  BY <1>1, <1>2, <1>3 DEF WindowI
<1>7. CodeI'
  BY <1>1 DEF CodeI, Active
<1>8. FaithfulI'
  BY <1>1, <1>2, <1>3 DEF FaithfulI, Whole
<1>9. EndI' /\ FlushI'
  BY <1>1, <1>2 DEF EndI, FlushI, ControlInv, TypeI
<1>10. QED
  BY <1>4, <1>5, <1>6, <1>7, <1>8, <1>9 DEF Inv

\* A slide drops bytes below cptr only: the lookahead is no longer than what it keeps.
LEMMA SlideStep ==
    ASSUME Inv, Slide
    PROVE  \E delta \in 0 .. Len(window) :
              /\ delta <= cptr /\ Len(window) - delta <= Window
              /\ cptr' = cptr - delta /\ table' = Rebase(table, delta)
              /\ window' \in Seq(Byte) /\ Len(window') = Len(window) - delta
              /\ \A i \in 1 .. Len(window) - delta : window'[i] = window[delta + i]
<1> DEFINE L == Len(window)
           delta == SlideBy
<1>1. /\ job' = job /\ sent' = sent /\ rest' = rest /\ state' = state
      /\ flushed' = flushed /\ err' = err
      /\ open' = open /\ syms' = syms /\ bits' = bits /\ reader' = reader /\ verdict' = verdict
      /\ pc = "slide" /\ pc' = "copy" /\ then' = then /\ upto' = upto
      /\ window' = SubSeq(window, delta + 1, L) /\ cptr' = Max({0, cptr - delta})
      /\ table' = Rebase(table, delta)
  BY DEF Slide, writer, run, caller
<1>2. /\ TypeI /\ ControlInv /\ WindowI /\ CodeI /\ FaithfulI /\ EndI /\ FlushI
  BY DEF Inv
<1>3. Active /\ rest > 0 /\ cptr >= ProcessEnd(window)
  BY <1>1, <1>2 DEF ControlInv, Active
<1>4. /\ window \in Seq(Byte) /\ L \in Nat /\ cptr \in 0 .. L /\ table \in HashTables
      /\ Window \in Nat \ {0} /\ MaxMatch \in Nat /\ MaxMatch <= Window
      /\ Len(job.dict) \in Nat /\ sent \in Nat /\ rest \in 0 .. sent
  BY <1>2, JobType, Lz77Assumption DEF TypeI
<1> HIDE DEF L
<1>5. delta \in 0 .. L /\ delta <= cptr /\ L - delta <= Window
  <2>1. L - Window \in Int /\ delta = Max({0, L - Window})
    BY <1>4 DEF SlideBy, Retain, L
  <2>2. delta \in {0, L - Window} /\ delta >= 0 /\ delta >= L - Window
    <3> DEFINE k == L - Window
    <3>1. k \in Int /\ 0 \in Int
      BY <2>1
    <3> HIDE DEF k
    <3>2. Max({0, k}) \in {0, k} /\ Max({0, k}) >= 0 /\ Max({0, k}) >= k
      BY <3>1, MaxOfTwo, Zenon
    <3>3. QED
      BY <2>1, <3>2 DEF k
  <2>3. ProcessEnd(window) = IF L > MaxMatch THEN L - MaxMatch ELSE 0
    BY DEF ProcessEnd, Lookahead, L
  <2> HIDE DEF delta
  <2>4. QED
    BY <1>3, <1>4, <2>2, <2>3
<1> HIDE DEF delta
<1>6. cptr' = cptr - delta
  <2> DEFINE k == cptr - delta
  <2>1. k \in Nat /\ k \in Int /\ 0 \in Int
    BY <1>4, <1>5
  <2> HIDE DEF k
  <2>2. Max({0, k}) \in {0, k} /\ Max({0, k}) >= 0 /\ Max({0, k}) >= k
    BY <2>1, MaxOfTwo, Zenon
  <2>3. Max({0, k}) = k
    BY <2>1, <2>2
  <2>4. QED
    BY <1>1, <2>3 DEF k
<1>7. /\ window' \in Seq(Byte) /\ Len(window') = L - delta
      /\ \A i \in 1 .. L - delta : window'[i] = window[delta + i]
  <2> DEFINE m == delta + 1
  <2>1. m \in Int /\ L \in Int /\ \A i \in m .. L : window[i] \in Byte
    BY <1>4, <1>5 DEF L
  <2>2. /\ SubSeq(window, m, L) \in Seq(Byte)
        /\ Len(SubSeq(window, m, L)) = IF m <= L THEN L - m + 1 ELSE 0
        /\ \A i \in 1 .. L - m + 1 : SubSeq(window, m, L)[i] = window[m + i - 1]
    <3> HIDE DEF m
    <3> QED
      BY <2>1, SubSeqProperties
  <2>3. (IF m <= L THEN L - m + 1 ELSE 0) = L - delta /\ L - m + 1 = L - delta
    BY <1>4, <1>5
  <2>4. ASSUME NEW i \in 1 .. L - delta PROVE m + i - 1 = delta + i
    BY <1>4, <1>5
  <2>5. QED
    BY <1>1, <2>2, <2>3, <2>4
<1>8. QED
  BY <1>1, <1>4, <1>5, <1>6, <1>7 DEF L

\* So the window is still a part of the text, and cptr at the same byte of it.
LEMMA SlideInv == ASSUME Inv, Slide PROVE Inv'
<1> DEFINE L == Len(window)
<1>1. /\ job' = job /\ sent' = sent /\ rest' = rest /\ state' = state
      /\ flushed' = flushed /\ err' = err
      /\ open' = open /\ syms' = syms /\ bits' = bits /\ reader' = reader /\ verdict' = verdict
      /\ pc = "slide" /\ pc' = "copy" /\ then' = then /\ upto' = upto
  BY DEF Slide, writer, run, caller
<1>2. /\ TypeI /\ ControlInv /\ WindowI /\ CodeI /\ FaithfulI /\ EndI /\ FlushI
  BY DEF Inv
<1>3. Active /\ rest > 0
  BY <1>1, <1>2 DEF ControlInv, Active
<1>4. /\ window \in Seq(Byte) /\ L \in Nat /\ cptr \in 0 .. L /\ table \in HashTables
      /\ Window \in Nat \ {0}
      /\ Len(job.dict) \in Nat /\ sent \in Nat /\ rest \in 0 .. sent
  BY <1>2, JobType, Lz77Assumption DEF TypeI
<1>5. PICK delta \in 0 .. L :
        /\ delta <= cptr /\ L - delta <= Window
        /\ cptr' = cptr - delta /\ table' = Rebase(table, delta)
        /\ window' \in Seq(Byte) /\ Len(window') = L - delta
        /\ \A i \in 1 .. L - delta : window'[i] = window[delta + i]
  BY SlideStep
<1> HIDE DEF L
<1>6. table' \in HashTables
  <2>1. table.base + delta \in Nat
    BY <1>4, <1>5 DEF HashTables
  <2> DEFINE b == table.base + delta
  <2> HIDE DEF b
  <2>2. [table EXCEPT !.base = b] \in HashTables
    <3>1. b \in Nat
      BY <2>1 DEF b
    <3>2. QED
      BY <1>4, <3>1 DEF HashTables
  <2>3. Rebase(table, delta) = [table EXCEPT !.base = b]
    BY DEF Rebase, b
  <2>4. QED
    BY <1>5, <2>2, <2>3
<1>7. Text' = Text /\ Seen' = Seen /\ Seen \in Int /\ Behind \in Nat /\ Behind = Seen - L
  BY <1>1, <1>2, <1>4 DEF Text, Seen, Behind, WindowI, L
<1>8. Behind' = Behind + delta
  <2>1. Behind' = Seen' - Len(window')
    BY DEF Behind
  <2>2. QED
    BY <1>4, <1>5, <1>7, <2>1
<1>9. TypeI'
  <2>1. Len(window') <= WindowCap' /\ cptr' \in 0 .. Len(window')
    BY <1>4, <1>5 DEF WindowCap
  <2>2. QED
    BY <1>1, <1>2, <1>5, <1>6, <2>1 DEF TypeI
<1>10. ControlInv'
  <2>1. Len(window') < WindowCap'
    BY <1>4, <1>5 DEF WindowCap
  <2>2. QED
    BY <1>1, <1>2, <1>3, <2>1 DEF ControlInv
<1>11. WindowI'
  <2>1. ASSUME NEW i \in 1 .. L - delta PROVE window'[i] = Text[(Behind + delta) + i]
    <3>1. delta + i \in 1 .. L /\ Behind + (delta + i) = (Behind + delta) + i
      BY <1>4, <1>5, <1>7
    <3>2. window[delta + i] = Text[Behind + (delta + i)]
      BY <1>2, <3>1 DEF WindowI, L
    <3>3. QED
      BY <1>5, <3>1, <3>2
  <2>2. Behind + delta \in Nat
    BY <1>5, <1>7
  <2>3. QED
    BY <1>5, <1>7, <1>8, <2>1, <2>2 DEF WindowI
<1>12. CodeI'
  <2>1. Behind' + cptr' = Behind + cptr
    BY <1>4, <1>5, <1>7, <1>8
  <2>2. ASSUME NEW f \in BOOLEAN PROVE ReachedI(Ahead(f), f)'
    <3>1. ReachedI(Ahead(f), f) /\ Ahead(f)' = Ahead(f)
      BY <1>1, <1>2, <1>3 DEF CodeI, Ahead
    <3>2. QED
      BY <1>1, <1>7, <2>1, <3>1 DEF ReachedI, Whole
  <2>3. reader'.floor <= Behind'
    <3>1. reader.floor \in Nat /\ reader.floor <= Behind
      BY <1>2, <1>3 DEF CodeI, TypeI, Readers
    <3>2. reader.floor <= Behind + delta
      BY <1>5, <1>7, <3>1
    <3>3. QED
      BY <1>1, <1>8, <3>2
  <2>4. QED
    BY <1>1, <1>2, <1>3, <2>2, <2>3 DEF CodeI, Slots
<1>13. FaithfulI'
  BY <1>1, <1>2, <1>7 DEF FaithfulI, Whole
<1>14. EndI' /\ FlushI'
  BY <1>1, <1>2 DEF EndI, FlushI, ControlInv
<1>15. QED
  BY <1>9, <1>10, <1>11, <1>12, <1>13, <1>14 DEF Inv

\* Some bytes are copied, in order and no more than there is room for.
LEMMA CopyInStep ==
    ASSUME Inv, CopyIn
    PROVE  \E n \in 1 .. rest :
              /\ rest' = rest - n /\ Len(window) + n <= WindowCap
              /\ sent - rest + n <= Len(job.bytes)
              /\ window' \in Seq(Byte) /\ Len(window') = Len(window) + n
              /\ \A i \in 1 .. Len(window) : window'[i] = window[i]
              /\ \A i \in 1 .. n : window'[Len(window) + i] = job.bytes[(sent - rest) + i]
<1> DEFINE L == Len(window)
           room == WindowCap - L
           n == Min({rest, room})
           from == sent - rest
           piece == SubSeq(job.bytes, from + 1, from + n)
<1>1. /\ job' = job /\ sent' = sent /\ rest' = rest - n /\ state' = state
      /\ flushed' = flushed /\ err' = err /\ cptr' = cptr /\ table' = table
      /\ open' = open /\ syms' = syms /\ bits' = bits /\ reader' = reader /\ verdict' = verdict
      /\ pc = "copy" /\ pc' = "consume" /\ then' = "room" /\ upto' = ProcessEnd(window')
      /\ window' = window \o piece
  BY DEF CopyIn, writer, caller, Consume
<1>2. /\ TypeI /\ ControlInv /\ WindowI /\ CodeI /\ FaithfulI /\ EndI /\ FlushI
  BY DEF Inv
<1>3. Active /\ rest > 0
  BY <1>1, <1>2 DEF ControlInv, Active
<1>4. /\ window \in Seq(Byte) /\ L \in Nat /\ cptr \in 0 .. L /\ L < WindowCap /\ WindowCap \in Nat
      /\ Len(job.dict) \in Nat /\ sent \in Nat /\ sent <= Len(job.bytes) /\ rest \in 0 .. sent
      /\ Len(job.bytes) \in Nat /\ job.bytes \in Seq(Byte)
      /\ \A i \in 1 .. Len(job.bytes) : Text[Len(job.dict) + i] = job.bytes[i]
  <2>1. /\ window \in Seq(Byte) /\ cptr \in 0 .. L /\ job \in Jobs
        /\ sent \in 0 .. Len(job.bytes) /\ rest \in 0 .. sent
    BY <1>2 DEF TypeI
  <2>2. L < WindowCap
    BY <1>1, <1>2 DEF ControlInv
  <2>3. WindowCap \in Nat
    BY Lz77Assumption DEF WindowCap
  <2>4. Len(job.dict) \in Nat /\ Len(job.bytes) \in Nat /\ job.bytes \in Seq(Byte)
        /\ \A i \in 1 .. Len(job.bytes) : Text[Len(job.dict) + i] = job.bytes[i]
    BY <2>1, JobType DEF Text
  <2>5. L \in Nat
    BY <2>1
  <2>6. sent \in Nat /\ sent <= Len(job.bytes)
    BY <2>1, <2>4
  <2>7. QED
    BY <2>1, <2>2, <2>3, <2>4, <2>5, <2>6
<1> HIDE DEF L
<1>5. n \in 1 .. rest /\ L + n <= WindowCap
  <2>1. room \in Nat \ {0} /\ room \in Int /\ rest \in Int /\ L + room = WindowCap
    BY <1>4
  <2> HIDE DEF room
  <2>2. Min({rest, room}) \in {rest, room} /\ Min({rest, room}) <= rest /\ Min({rest, room}) <= room
    BY <2>1, MinOfTwo, Zenon
  <2> HIDE DEF n
  <2>3. n \in {rest, room} /\ n <= rest /\ n <= room
    BY <2>2 DEF n
  <2>4. QED
    BY <1>3, <1>4, <2>1, <2>3
<1> HIDE DEF n, room
<1>6. from \in Nat /\ from + n <= Len(job.bytes)
  BY <1>4, <1>5
<1>7. /\ piece \in Seq(Byte) /\ Len(piece) = n
      /\ \A i \in 1 .. n : piece[i] = job.bytes[from + i]
  <2> DEFINE m == from + 1
             k == from + n
  <2>1. m \in Int /\ k \in Int /\ \A i \in m .. k : job.bytes[i] \in Byte
    BY <1>4, <1>5, <1>6, SMTT(30)
  <2>2. /\ SubSeq(job.bytes, m, k) \in Seq(Byte)
        /\ Len(SubSeq(job.bytes, m, k)) = IF m <= k THEN k - m + 1 ELSE 0
        /\ \A i \in 1 .. k - m + 1 : SubSeq(job.bytes, m, k)[i] = job.bytes[m + i - 1]
    <3> HIDE DEF m, k
    <3> QED
      BY <2>1, SubSeqProperties
  <2>3. m <= k /\ k - m + 1 = n
    BY <1>5, <1>6
  <2>4. ASSUME NEW i \in 1 .. n PROVE m + i - 1 = from + i
    BY <1>5, <1>6
  <2>5. QED
    BY <2>2, <2>3, <2>4
<1> HIDE DEF piece
<1>8. /\ window' \in Seq(Byte) /\ Len(window') = L + n
      /\ \A i \in 1 .. L : window'[i] = window[i]
      /\ \A i \in 1 .. n : window'[L + i] = piece[i]
  <2>1. /\ window \o piece \in Seq(Byte) /\ Len(window \o piece) = L + n
        /\ \A i \in 1 .. L + n : (window \o piece)[i] = IF i <= L THEN window[i] ELSE piece[i - L]
    BY <1>4, <1>7, ConcatProperties DEF L
  <2>2. \A i \in 1 .. L : window'[i] = window[i]
    BY <1>1, <1>4, <1>5, <2>1
  <2>3. ASSUME NEW i \in 1 .. n PROVE window'[L + i] = piece[i]
    <3>1. L + i \in 1 .. L + n /\ ~(L + i <= L) /\ (L + i) - L = i
      BY <1>4, <1>5
    <3>2. QED
      BY <1>1, <2>1, <3>1
  <2>4. QED
    BY <1>1, <2>1, <2>2, <2>3
<1>9. QED
  BY <1>1, <1>5, <1>6, <1>7, <1>8 DEF L

\* The window grows at its end by the next bytes of the text.
LEMMA CopyInInv == ASSUME Inv, CopyIn PROVE Inv'
<1> DEFINE L == Len(window)
           from == sent - rest
<1>1. /\ job' = job /\ sent' = sent /\ state' = state
      /\ flushed' = flushed /\ err' = err /\ cptr' = cptr /\ table' = table
      /\ open' = open /\ syms' = syms /\ bits' = bits /\ reader' = reader /\ verdict' = verdict
      /\ pc = "copy" /\ pc' = "consume" /\ then' = "room" /\ upto' = ProcessEnd(window')
  BY DEF CopyIn, writer, caller, Consume
<1>2. /\ TypeI /\ ControlInv /\ WindowI /\ CodeI /\ FaithfulI /\ EndI /\ FlushI
  BY DEF Inv
<1>3. Active /\ rest > 0
  BY <1>1, <1>2 DEF ControlInv, Active
<1>4. /\ L \in Nat /\ cptr \in 0 .. L /\ WindowCap \in Nat
      /\ Len(job.dict) \in Nat /\ sent \in Nat /\ sent <= Len(job.bytes) /\ rest \in 0 .. sent
      /\ Len(job.bytes) \in Nat
      /\ \A i \in 1 .. Len(job.bytes) : Text[Len(job.dict) + i] = job.bytes[i]
  <2>1. job \in Jobs /\ window \in Seq(Byte) /\ cptr \in 0 .. L
        /\ sent \in 0 .. Len(job.bytes) /\ rest \in 0 .. sent
    BY <1>2 DEF TypeI
  <2>2. WindowCap \in Nat
    BY Lz77Assumption DEF WindowCap
  <2>3. Len(job.dict) \in Nat /\ Len(job.bytes) \in Nat
        /\ \A i \in 1 .. Len(job.bytes) : Text[Len(job.dict) + i] = job.bytes[i]
    BY <2>1, JobType DEF Text
  <2>4. QED
    BY <2>1, <2>2, <2>3
<1>5. PICK n \in 1 .. rest :
        /\ rest' = rest - n /\ L + n <= WindowCap
        /\ from + n <= Len(job.bytes)
        /\ window' \in Seq(Byte) /\ Len(window') = L + n
        /\ \A i \in 1 .. L : window'[i] = window[i]
        /\ \A i \in 1 .. n : window'[L + i] = job.bytes[from + i]
  BY CopyInStep
<1> HIDE DEF L
<1>6. from \in Nat
  BY <1>4
<1>7. Text' = Text /\ Behind \in Nat /\ Behind = Len(job.dict) + from - L /\ Behind' = Behind
  <2>1. Seen = Len(job.dict) + from /\ Seen' = Len(job.dict) + sent - (rest - n)
    BY <1>1, <1>4, <1>5 DEF Seen
  <2>2. Behind' = Seen' - (L + n)
    BY <1>5 DEF Behind
  <2>3. Behind = Seen - L /\ Behind \in Nat
    BY <1>2 DEF Behind, L, WindowI
  <2> DEFINE d == Len(job.dict)
  <2>4. d \in Int /\ sent \in Int /\ rest \in Int /\ L \in Int /\ n \in Int
    BY <1>4, <1>5
  <2>5. Behind = (d + (sent - rest)) - L /\ Behind' = (d + (sent - (rest - n))) - (L + n)
    <3>1. Seen = d + (sent - rest) /\ Seen' = d + (sent - (rest - n))
      BY <2>1, <2>4
    <3>2. QED
      BY <2>2, <2>3, <3>1
  <2> HIDE DEF d
  <2>6. \A a, b, r, l, k \in Int : (a + (b - (r - k))) - (l + k) = (a + (b - r)) - l
    OBVIOUS
  <2>7. Behind' = Behind
    BY <2>4, <2>5, <2>6
  <2>8. Text' = Text
    BY <1>1 DEF Text
  <2>9. Len(job.dict) + from - L = (d + (sent - rest)) - L
    BY <2>4 DEF d
  <2>10. QED
    BY <2>3, <2>5, <2>7, <2>8, <2>9
<1>8. TypeI'
  <2>1. Len(window') <= WindowCap' /\ cptr' \in 0 .. Len(window') /\ rest' \in 0 .. sent'
    BY <1>1, <1>4, <1>5 DEF WindowCap
  <2>2. QED
    BY <1>1, <1>2, <1>5, <2>1 DEF TypeI
<1>9. ControlInv'
  <2>1. ProcessEnd(window') = ProcessEnd(window)'
    BY DEF ProcessEnd, Lookahead
  <2>2. QED
    BY <1>1, <1>2, <2>1 DEF ControlInv
<1>10. WindowI'
  <2>1. ASSUME NEW i \in 1 .. L + n PROVE window'[i] = Text[Behind + i]
    <3>1. CASE i <= L
      <4>1. i \in 1 .. L
        BY <1>4, <3>1
      <4>2. QED
        BY <1>2, <1>5, <4>1 DEF WindowI, L
    <3>2. CASE i > L
      <4>1. i - L \in 1 .. n /\ L + (i - L) = i /\ from + (i - L) \in 1 .. Len(job.bytes)
            /\ Behind + i = Len(job.dict) + (from + (i - L))
        <5>1. i \in Nat /\ i - L \in 1 .. n /\ L + (i - L) = i
          BY <1>4, <1>5, <3>2
        <5>2. from + (i - L) \in 1 .. Len(job.bytes)
          <6> DEFINE j == i - L
          <6>1. j \in 1 .. n
            BY <5>1
          <6> HIDE DEF j
          <6>2. from + j \in 1 .. Len(job.bytes)
            BY <1>4, <1>5, <1>6, <6>1
          <6>3. QED
            BY <6>2 DEF j
        <5> DEFINE d == Len(job.dict)
        <5>3. d \in Int /\ from \in Int /\ L \in Int /\ i \in Int /\ Behind = d + from - L
          BY <1>4, <1>6, <1>7, <5>1
        <5> HIDE DEF d, from
        <5>4. Behind + i = d + (from + (i - L))
          BY <5>3
        <5>5. QED
          BY <5>1, <5>2, <5>4 DEF d
      <4>2. window'[i] = job.bytes[from + (i - L)]
        BY <1>5, <4>1
      <4>3. Text[Len(job.dict) + (from + (i - L))] = job.bytes[from + (i - L)]
        BY <1>4, <4>1
      <4>4. QED
        BY <4>1, <4>2, <4>3
    <3>3. QED
      BY <1>4, <1>5, <3>1, <3>2
  <2>2. QED
    BY <1>5, <1>7, <2>1 DEF WindowI
<1>11. CodeI'
  <2>1. ASSUME NEW f \in BOOLEAN PROVE ReachedI(Ahead(f), f)'
    <3>1. ReachedI(Ahead(f), f) /\ Ahead(f)' = Ahead(f)
      BY <1>1, <1>2, <1>3 DEF CodeI, Ahead
    <3>2. QED
      BY <1>1, <1>7, <3>1 DEF ReachedI, Whole
  <2>2. QED
    BY <1>1, <1>2, <1>3, <1>7, <2>1 DEF CodeI, Slots
<1>12. FaithfulI'
  BY <1>1, <1>2, <1>7 DEF FaithfulI, Whole
<1>13. EndI' /\ FlushI'
  BY <1>1, <1>2 DEF EndI, FlushI, ControlInv
<1>14. QED
  BY <1>8, <1>9, <1>10, <1>11, <1>12, <1>13 DEF Inv

-----------------------------------------------------------------------------
(* A run over the window.                                                  *)

\* What a run over the window finds.
LEMMA RunningAt ==
    ASSUME Inv, Running
    PROVE  Active /\ err = "none" /\ pc = "consume" /\ cptr < Len(window) /\ cptr \in Nat
<1>1. /\ pc = "consume" /\ cptr < upto /\ TypeI /\ ControlInv
  BY DEF Inv, Running, In
<1>2. Active /\ err = "none"
  BY <1>1 DEF ControlInv, Active
<1>3. Len(window) \in Nat /\ cptr \in Nat /\ MaxMatch \in Nat
  BY <1>1, Lz77Assumption DEF TypeI
<1>4. ProcessEnd(window) <= Len(window)
  BY <1>3 DEF ProcessEnd, Lookahead
<1>5. upto = Len(window) \/ upto = ProcessEnd(window)
  BY <1>1 DEF ControlInv
<1>6. ProcessEnd(window) \in Nat
  BY <1>3 DEF ProcessEnd, Lookahead
<1>7. QED
  BY <1>1, <1>2, <1>3, <1>4, <1>5, <1>6

\* The buffer of symbols is empty.
LEMMA NoSlots == SlotsOf(<<>>) = 0
<1>1. {k \in DOMAIN <<>> : (<<>>)[k].t = "match"} = {}
  OBVIOUS
<1>2. QED
  BY <1>1, FS_EmptySet DEF SlotsOf

\* A full block: the decoder gets to where the collected symbols had reached.
LEMMA WriteFullBlockInv == ASSUME Inv, WriteFullBlock PROVE Inv'
<1> DEFINE items == Collected(FALSE)
<1>1. /\ job' = job /\ sent' = sent /\ rest' = rest /\ state' = state
      /\ flushed' = flushed /\ window' = window /\ cptr' = cptr /\ table' = table
      /\ open' = open /\ verdict' = verdict /\ then' = then /\ upto' = upto
      /\ job.dynamic /\ Running /\ Put(items, "consume")
      /\ syms' = IF err' = "none" THEN <<>> ELSE syms
  BY DEF WriteFullBlock, caller, run
<1>2. /\ TypeI /\ ControlInv /\ WindowI /\ CodeI /\ FaithfulI /\ EndI /\ FlushI
  BY DEF Inv
<1>3. Active /\ err = "none" /\ pc = "consume" /\ state # "DONE"
  BY <1>1, RunningAt DEF Active
<1>4. ReachedI(Ahead(FALSE), FALSE) /\ Ahead(FALSE) \in Readers
  BY <1>2, <1>3, AheadType DEF CodeI
<1>5. /\ items \in Seq(Written)
      /\ Read(reader, items) = [Ahead(FALSE) EXCEPT !.block = "none", !.done = Ahead(FALSE).final]
  BY <1>1, <1>2, <1>4, CollectedRead DEF ReachedI, Whole
<1> DEFINE r == Read(reader, items)
<1>6. /\ r.block = "none" /\ ~r.done /\ r.ok /\ Whole(r) /\ r.floor = Ahead(FALSE).floor
      /\ Len(r.plain) = Behind + cptr
  BY <1>1, <1>4, <1>5 DEF ReachedI, Whole, Readers
<1> HIDE DEF items
<1>7. /\ reader' \in Readers /\ bits' \in Nat
      /\ Whole(reader') /\ Len(reader'.plain) <= Len(r.plain)
      /\ reader'.floor = reader.floor
      /\ \/ reader' = r /\ pc' = "consume" /\ err' = err
         \/ err' = "BUFFER_TOO_SMALL" /\ pc' = IF then = "finish" THEN "close" ELSE "out"
  BY <1>1, <1>2, <1>5, <1>6, PutOutcome
<1> HIDE DEF r
<1>8. Text' = Text /\ Behind' = Behind
  BY <1>1 DEF Text, Seen, Behind
<1>9. TypeI'
  <2>1. syms' \in Seq(Symbols)
    BY <1>1, <1>2 DEF TypeI
  <2>2. QED
    BY <1>1, <1>2, <1>3, <1>7, <2>1 DEF TypeI
<1>10. ControlInv'
  BY <1>1, <1>2, <1>3, <1>7 DEF ControlInv
<1>11. WindowI'
  BY <1>1, <1>2, <1>8 DEF WindowI
<1>12. CodeI'
  <2> SUFFICES ASSUME Active' PROVE CodeI'
    BY DEF CodeI
  <2>1. reader' = r /\ pc' = "consume" /\ err' = "none" /\ syms' = <<>>
    BY <1>1, <1>3, <1>7 DEF Active
  <2>2. ASSUME NEW f \in BOOLEAN PROVE ReachedI(Ahead(f), f)'
    <3>1. Opened(reader', <<>>, f) = [reader' EXCEPT !.block = "coded", !.final = f]
      BY <1>6, <1>7, <2>1, OpenedOnNone
    <3>2. Ahead(f)' = [reader' EXCEPT !.block = "coded", !.final = f]
      BY <1>1, <2>1, <3>1 DEF Ahead, Opened
    <3>3. QED
      BY <1>1, <1>6, <1>7, <1>8, <2>1, <3>2 DEF ReachedI, Whole, Readers
  <2>3. Slots' < SymMax
    BY <2>1, NoSlots, DeflateEncAssumption DEF Slots, SlotsOf
  <2>4. open' = FALSE
    BY <1>1, <1>2, <1>3 DEF CodeI, TypeI
  <2>5. reader'.floor <= Behind'
    BY <1>2, <1>3, <1>7, <1>8 DEF CodeI
  <2>6. QED
    BY <1>6, <2>1, <2>2, <2>3, <2>4, <2>5 DEF CodeI
<1>13. FaithfulI'
  <2>1. Behind + cptr <= Len(job.dict) + sent
    BY Standing
  <2>2. Whole(reader)'
    BY <1>7, <1>8 DEF Whole
  <2>3. Len(reader'.plain) <= Len(job.dict) + sent
    BY <1>6, <1>7, <2>1, Standing DEF Readers
  <2>4. QED
    BY <1>1, <2>2, <2>3 DEF FaithfulI
<1>14. EndI' /\ FlushI'
  BY <1>1, <1>2, <1>3, <1>7 DEF EndI, FlushI, ControlInv
<1>15. QED
  BY <1>9, <1>10, <1>11, <1>12, <1>13, <1>14 DEF Inv

\* A symbol takes two slots at most.
LEMMA SlotsGrow ==
    ASSUME NEW s \in Seq(Symbols), NEW x \in Symbols
    PROVE  SlotsOf(s) \in Nat /\ SlotsOf(Append(s, x)) <= SlotsOf(s) + 2
<1> DEFINE n == Len(s)
           more == Append(s, x)
           M == {k \in DOMAIN s : s[k].t = "match"}
           N == {k \in DOMAIN more : more[k].t = "match"}
<1>1. n \in Nat /\ DOMAIN s = 1 .. n /\ DOMAIN more = 1 .. n + 1 /\ Len(more) = n + 1
      /\ \A k \in 1 .. n : more[k] = s[k]
  OBVIOUS
<1>2. N \subseteq M \cup {n + 1}
  <2> SUFFICES ASSUME NEW k \in 1 .. n + 1, more[k].t = "match", k # n + 1 PROVE k \in M
    BY <1>1
  <2>1. k \in 1 .. n
    BY <1>1
  <2>2. QED
    BY <1>1, <2>1
<1>3. IsFiniteSet(1 .. n) /\ M \subseteq 1 .. n
  BY <1>1, FS_Interval
<1> HIDE DEF more, M, N, n
<1>4. IsFiniteSet(M)
  BY <1>3, FS_Subset
<1>5. Cardinality(M) \in Nat
  BY <1>4, FS_CardinalityType
<1>6. IsFiniteSet(M \cup {n + 1}) /\ Cardinality(M \cup {n + 1}) \in {Cardinality(M), Cardinality(M) + 1}
  BY <1>4, FS_AddElement
<1>7. IsFiniteSet(N) /\ Cardinality(N) <= Cardinality(M \cup {n + 1})
  BY <1>2, <1>6, FS_Subset
<1>8. Cardinality(N) \in Nat
  BY <1>7, FS_CardinalityType
<1>9. SlotsOf(s) = n + Cardinality(M) /\ SlotsOf(more) = (n + 1) + Cardinality(N)
  BY <1>1 DEF SlotsOf, M, N, n, more
<1>10. SlotsOf(more) <= SlotsOf(s) + 2
  BY <1>1, <1>5, <1>6, <1>7, <1>8, <1>9
<1>11. QED
  BY <1>1, <1>5, <1>9, <1>10 DEF more

\* The symbol at the place reached takes a decoder that has the text up to it over
\* the bytes it stands for.
LEMMA SymbolReached ==
    ASSUME Inv, Running, NEW f \in BOOLEAN, Ahead(f).block = "coded"
    PROVE  /\ Symbol \in Symbols /\ Stride \in Nat \ {0} /\ cptr + Stride <= Len(window)
           /\ Ahead(f) \in Readers /\ Decoded(Ahead(f), Symbol) \in Readers
           /\ Longer(Ahead(f), Decoded(Ahead(f), Symbol), Stride)
           /\ Begins(Decoded(Ahead(f), Symbol).plain, Text)
           /\ InsertAll(table, window, cptr, cptr + Stride) \in HashTables
<1> DEFINE a == Ahead(f)
           b == Behind
<1>1. Active /\ cptr < Len(window) /\ cptr \in Nat
  BY RunningAt
<1>2. a \in Readers /\ ReachedI(a, f) /\ reader.floor <= b /\ reader \in Readers
  BY <1>1, AheadType DEF Inv, CodeI, TypeI
<1>3. a.floor = reader.floor
  <2> DEFINE x == <<Block(f, "coded")>> \o syms
  <2>1. x \in Seq(Items)
    BY AheadType, ItemsOfWritten DEF Inv
  <2> HIDE DEF x
  <2>2. Onward(reader, Read(reader, x))
    BY <1>2, <2>1, ReadOnward
  <2>3. QED
    BY <2>2 DEF Ahead, Opened, Onward, x
<1>4. /\ table \in HashTables /\ window \in Seq(Byte) /\ b \in Nat
      /\ \A i \in 1 .. Len(window) : window[i] = Text[b + i]
  BY DEF Inv, TypeI, WindowI
<1>5. a.ok /\ ~a.crossed /\ a.floor <= b /\ Len(a.plain) = b + cptr /\ Begins(a.plain, Text)
      /\ a.block = "coded"
  BY <1>2, <1>3 DEF ReachedI, Whole
<1>6. Symbol = SymbolAt(table, window, cptr) /\ Stride = StrideAt(table, window, cptr)
  BY DEF Symbol, Stride, Found, SymbolAt, StrideAt
<1> HIDE DEF a, b
<1>7. Symbol \in Symbols /\ Stride \in Nat \ {0} /\ cptr + Stride <= Len(window)
  BY <1>1, <1>4, <1>6, SymbolType
<1>8. Longer(a, Decoded(a, Symbol), Stride) /\ Begins(Decoded(a, Symbol).plain, Text)
  <2> DEFINE text == Text
  <2> HIDE DEF text
  <2>1. \A i \in 1 .. Len(window) : window[i] = text[b + i]
    BY <1>4 DEF text
  <2>2. Begins(a.plain, text)
    BY <1>5 DEF text
  <2>3. /\ Longer(a, Decoded(a, SymbolAt(table, window, cptr)), StrideAt(table, window, cptr))
        /\ Begins(Decoded(a, SymbolAt(table, window, cptr)).plain, text)
    BY <1>1, <1>2, <1>4, <1>5, <2>1, <2>2, SymbolDecoded DEF a
  <2>4. QED
    BY <1>6, <2>3 DEF text
<1>9. Decoded(a, Symbol) \in Readers
  BY <1>2, <1>7, DecodedType, SymbolsAreItems DEF a
<1>10. InsertAll(table, window, cptr, cptr + Stride) \in HashTables
  <2> DEFINE q == cptr + Stride
  <2>1. q \in Nat /\ cptr <= q
    BY <1>1, <1>7
  <2> HIDE DEF q
  <2>2. InsertAll(table, window, cptr, q) \in HashTables
    BY <1>1, <1>4, <2>1, InsertAllType
  <2>3. QED
    BY <2>2 DEF q
<1>11. QED
  BY <1>2, <1>7, <1>8, <1>9, <1>10 DEF a

\* One more symbol collected, which takes the decoder behind the collected ones over its bytes.
LEMMA CollectInv == ASSUME Inv, Collect PROVE Inv'
<1>1. /\ job' = job /\ sent' = sent /\ rest' = rest /\ state' = state /\ pc' = pc
      /\ flushed' = flushed /\ window' = window /\ err' = err /\ bits' = bits /\ reader' = reader
      /\ open' = open /\ verdict' = verdict /\ then' = then /\ upto' = upto
      /\ job.dynamic /\ Running /\ ~Full
      /\ syms' = Append(syms, Symbol)
      /\ table' = InsertAll(table, window, cptr, cptr + Stride)
      /\ cptr' = cptr + Stride
  BY DEF Collect, caller, run, writer, Advance
<1>2. /\ TypeI /\ ControlInv /\ WindowI /\ CodeI /\ FaithfulI /\ EndI /\ FlushI
  BY DEF Inv
<1>3. Active /\ err = "none" /\ pc = "consume" /\ cptr \in Nat
  BY <1>1, RunningAt
<1>4. \A f \in BOOLEAN : ReachedI(Ahead(f), f)
  BY <1>2, <1>3 DEF CodeI
<1>5. ASSUME NEW f \in BOOLEAN
      PROVE  /\ Ahead(f).block = "coded" /\ Symbol \in Symbols /\ Stride \in Nat \ {0}
             /\ cptr + Stride <= Len(window)
             /\ Longer(Ahead(f), Decoded(Ahead(f), Symbol), Stride)
             /\ Begins(Decoded(Ahead(f), Symbol).plain, Text)
             /\ InsertAll(table, window, cptr, cptr + Stride) \in HashTables
  BY <1>1, <1>4, SymbolReached DEF ReachedI
<1>6. Symbol \in Symbols /\ Stride \in Nat \ {0} /\ cptr + Stride <= Len(window)
      /\ table' \in HashTables
  BY <1>1, <1>5
<1>7. syms \in Seq(Symbols) /\ syms' \in Seq(Symbols)
  BY <1>1, <1>2, <1>6 DEF TypeI
<1>8. Text' = Text /\ Behind' = Behind
  BY <1>1 DEF Text, Seen, Behind
<1>9. TypeI'
  <2>1. cptr' \in 0 .. Len(window')
    BY <1>1, <1>3, <1>6, Standing
  <2>2. QED
    BY <1>1, <1>2, <1>6, <1>7, <2>1 DEF TypeI
<1>10. ControlInv'
  BY <1>1, <1>2, <1>3 DEF ControlInv
<1>11. WindowI'
  BY <1>1, <1>2, <1>8 DEF WindowI
<1>12. CodeI'
  <2>1. ASSUME NEW f \in BOOLEAN PROVE ReachedI(Ahead(f), f)'
    <3>1. Ahead(f)' = Decoded(Ahead(f), Symbol)
      <4> DEFINE h == <<Block(f, "coded")>>
                 x == Symbol
      <4>1. h \in Seq(Items) /\ syms \in Seq(Items) /\ x \in Items /\ reader \in Readers
        <5>1. h \in Seq(Items) /\ x \in Items
          BY <1>6, BlocksWritten, SymbolsAreItems
        <5>2. QED
          BY <1>2, <1>7, <5>1, ItemsOfSymbols DEF TypeI
      <4>2. Ahead(f)' = Read(reader, h \o Append(syms, x)) /\ Ahead(f) = Read(reader, h \o syms)
        BY <1>1 DEF Ahead, Opened
      <4> HIDE DEF h, x
      <4>3. h \o Append(syms, x) = Append(h \o syms, x) /\ h \o syms \in Seq(Items)
        BY <4>1, ConcatAppend
      <4>4. Read(reader, Append(h \o syms, x)) = Decoded(Read(reader, h \o syms), x)
        BY <4>1, <4>3, ReadAppend
      <4>5. QED
        BY <4>2, <4>3, <4>4 DEF x
    <3>2. Longer(Ahead(f), Decoded(Ahead(f), Symbol), Stride)
          /\ Begins(Decoded(Ahead(f), Symbol).plain, Text)
      BY <1>5
    <3>3. ReachedI(Ahead(f), f)
      BY <1>4
    <3>4. Len(Ahead(f).plain) + Stride = Behind' + cptr'
      BY <1>1, <1>3, <1>6, <1>8, <3>3, Standing DEF ReachedI
    <3> DEFINE a == Ahead(f)'
    <3>5. a.ok /\ ~a.crossed /\ ~a.done /\ a.block = "coded" /\ a.final = f
          /\ Len(a.plain) = Behind' + cptr' /\ Begins(a.plain, Text')
      BY <1>1, <1>8, <3>1, <3>2, <3>3, <3>4 DEF Longer, ReachedI
    <3> HIDE DEF a
    <3>6. QED
      BY <3>5 DEF ReachedI, Whole, a
  <2>2. Slots' < SymMax
    <3>1. SlotsOf(syms) \in Nat /\ SlotsOf(syms') <= SlotsOf(syms) + 2
      BY <1>1, <1>6, <1>7, SlotsGrow
    <3>2. ~(SlotsOf(syms) >= SymMax - 3) /\ SymMax \in Nat
      BY <1>1, DeflateEncAssumption DEF Full, Slots
    <3>3. SlotsOf(syms') \in Nat
      BY <1>6, <1>7, SlotsGrow
    <3>4. QED
      BY <3>1, <3>2, <3>3 DEF Slots, SlotsOf
  <2>3. QED
    BY <1>1, <1>2, <1>3, <1>8, <2>1, <2>2 DEF CodeI
<1>13. FaithfulI'
  BY <1>1, <1>2, <1>8 DEF FaithfulI, Whole
<1>14. EndI' /\ FlushI'
  BY <1>1, <1>2, <1>3 DEF EndI, FlushI, ControlInv
<1>15. QED
  BY <1>9, <1>10, <1>11, <1>12, <1>13, <1>14 DEF Inv

\* On the fixed path, what was written is where the decoder is.
LEMMA OpenBlockInv == ASSUME Inv, OpenBlock PROVE Inv'
<1> DEFINE b == Block(FALSE, "coded")
           items == <<b>>
<1>1. /\ job' = job /\ sent' = sent /\ rest' = rest /\ state' = state
      /\ flushed' = flushed /\ window' = window /\ cptr' = cptr /\ table' = table
      /\ syms' = syms /\ verdict' = verdict /\ then' = then /\ upto' = upto
      /\ ~job.dynamic /\ ~open /\ Running /\ Put(items, "consume")
      /\ open' = (err' = "none")
  BY DEF OpenBlock, caller, run
<1>2. /\ TypeI /\ ControlInv /\ WindowI /\ CodeI /\ FaithfulI /\ EndI /\ FlushI
  BY DEF Inv
<1>3. Active /\ err = "none" /\ pc = "consume" /\ state # "DONE"
  BY <1>1, RunningAt DEF Active
<1>4. /\ reader \in Readers /\ reader.ok /\ reader.block = "none" /\ ~reader.done
      /\ Whole(reader) /\ Len(reader.plain) = Behind + cptr
  BY <1>1, <1>2, <1>3 DEF TypeI, CodeI, ReachedI, Whole, Ahead
<1>5. items \in Seq(Written) /\ b \in Items
  <2>1. b \in Written
    BY BlocksWritten
  <2> HIDE DEF b
  <2>2. QED
    BY <2>1, SymbolsAreItems
<1> DEFINE r == Read(reader, items)
<1>6. r = [reader EXCEPT !.block = "coded", !.final = FALSE]
  <2>1. Decoded(reader, b) = [reader EXCEPT !.block = "coded", !.final = FALSE]
    BY <1>4, BlockDecoded
  <2> HIDE DEF b
  <2>2. Read(reader, <<b>>) = Decoded(reader, b)
    BY <1>4, <1>5, ReadOne
  <2>3. QED
    BY <2>1, <2>2
<1> HIDE DEF items
<1>7. /\ Whole(r) /\ r.block = "coded" /\ ~r.final /\ ~r.done /\ r.plain = reader.plain
  BY <1>4, <1>6 DEF Whole, Readers
<1>8. /\ reader' \in Readers /\ bits' \in Nat
      /\ Whole(reader') /\ Len(reader'.plain) <= Len(r.plain)
      /\ reader'.floor = reader.floor
      /\ \/ reader' = r /\ pc' = "consume" /\ err' = err
         \/ err' = "BUFFER_TOO_SMALL" /\ pc' = IF then = "finish" THEN "close" ELSE "out"
  BY <1>1, <1>2, <1>5, <1>7, PutOutcome
<1> HIDE DEF r
<1>9. Text' = Text /\ Behind' = Behind
  BY <1>1 DEF Text, Seen, Behind
<1>10. TypeI'
  BY <1>1, <1>2, <1>3, <1>8 DEF TypeI
<1>11. ControlInv'
  BY <1>1, <1>2, <1>3, <1>8 DEF ControlInv
<1>12. WindowI'
  BY <1>1, <1>2, <1>9 DEF WindowI
<1>13. CodeI'
  <2> SUFFICES ASSUME Active' PROVE CodeI'
    BY DEF CodeI
  <2>1. reader' = r /\ err' = "none" /\ open' = TRUE
    BY <1>1, <1>3, <1>8 DEF Active
  <2>2. ASSUME NEW f \in BOOLEAN PROVE ReachedI(Ahead(f), f)'
    BY <1>1, <1>4, <1>7, <1>9, <2>1 DEF ReachedI, Whole, Ahead
  <2>3. reader'.floor <= Behind' /\ Slots' < SymMax
    BY <1>1, <1>2, <1>3, <1>8, <1>9 DEF CodeI, Slots
  <2>4. QED
    BY <1>1, <1>7, <2>1, <2>2, <2>3 DEF CodeI
<1>14. FaithfulI'
  <2>1. Whole(reader)'
    BY <1>8, <1>9 DEF Whole
  <2>2. Len(reader'.plain) <= Len(job.dict) + sent
    BY <1>2, <1>7, <1>8, <1>4, Standing DEF FaithfulI, Readers
  <2>3. QED
    BY <1>1, <2>1, <2>2 DEF FaithfulI
<1>15. EndI' /\ FlushI'
  BY <1>1, <1>2, <1>3, <1>8 DEF EndI, FlushI, ControlInv
<1>16. QED
  BY <1>10, <1>11, <1>12, <1>13, <1>14, <1>15 DEF Inv

\* A symbol of the fixed path takes the decoder itself over its bytes.
LEMMA WriteSymbolInv == ASSUME Inv, WriteSymbol PROVE Inv'
<1> DEFINE x == Symbol
           items == <<x>>
<1>1. /\ job' = job /\ sent' = sent /\ rest' = rest /\ state' = state
      /\ flushed' = flushed /\ window' = window
      /\ syms' = syms /\ verdict' = verdict /\ then' = then /\ upto' = upto /\ open' = open
      /\ ~job.dynamic /\ open /\ Running /\ Put(items, "consume")
      /\ IF err' = "none"
         THEN table' = InsertAll(table, window, cptr, cptr + Stride) /\ cptr' = cptr + Stride
         ELSE table' = table /\ cptr' = cptr
  BY DEF WriteSymbol, caller, run, Advance
<1>2. /\ TypeI /\ ControlInv /\ WindowI /\ CodeI /\ FaithfulI /\ EndI /\ FlushI
  BY DEF Inv
<1>3. Active /\ err = "none" /\ pc = "consume" /\ state # "DONE" /\ cptr \in Nat
  BY <1>1, RunningAt DEF Active
<1>4. /\ reader \in Readers /\ reader.ok /\ reader.block = "coded" /\ ~reader.done /\ ~reader.final
      /\ Whole(reader) /\ Len(reader.plain) = Behind + cptr /\ Ahead(FALSE) = reader
  BY <1>1, <1>2, <1>3 DEF TypeI, CodeI, ReachedI, Whole, Ahead
<1> DEFINE r == Decoded(reader, x)
<1>5. /\ x \in Symbols /\ Stride \in Nat \ {0} /\ cptr + Stride <= Len(window)
      /\ r \in Readers /\ Longer(reader, r, Stride) /\ Begins(r.plain, Text)
      /\ InsertAll(table, window, cptr, cptr + Stride) \in HashTables
  <2>1. Ahead(FALSE).block = "coded"
    BY <1>4
  <2>2. QED
    BY <1>1, <1>4, <2>1, SymbolReached
<1> HIDE DEF x
<1>6. items \in Seq(Written) /\ x \in Items
  BY <1>5, SymbolsAreItems
<1>7. r = Read(reader, items)
  BY <1>4, <1>6, ReadOne
<1>8. /\ Whole(r) /\ r.block = "coded" /\ ~r.final /\ ~r.done /\ Len(r.plain) = Behind + cptr + Stride
  BY <1>4, <1>5 DEF Whole, Longer
<1> HIDE DEF items, r
<1>9. /\ reader' \in Readers /\ bits' \in Nat
      /\ Whole(reader') /\ Len(reader'.plain) <= Len(r.plain)
      /\ reader'.floor = reader.floor
      /\ \/ reader' = r /\ pc' = "consume" /\ err' = err
         \/ err' = "BUFFER_TOO_SMALL" /\ pc' = IF then = "finish" THEN "close" ELSE "out"
  BY <1>1, <1>2, <1>6, <1>7, <1>8, PutOutcome
<1>10. Text' = Text /\ Behind' = Behind
  BY <1>1 DEF Text, Seen, Behind
<1>11. TypeI'
  <2>1. cptr' \in 0 .. Len(window')
    BY <1>1, <1>3, <1>5, Standing
  <2>2. table' \in HashTables
    BY <1>1, <1>2, <1>5 DEF TypeI
  <2>3. QED
    BY <1>1, <1>2, <1>3, <1>9, <2>1, <2>2 DEF TypeI
<1>12. ControlInv'
  BY <1>1, <1>2, <1>3, <1>9 DEF ControlInv
<1>13. WindowI'
  BY <1>1, <1>2, <1>10 DEF WindowI
<1>14. CodeI'
  <2> SUFFICES ASSUME Active' PROVE CodeI'
    BY DEF CodeI
  <2>1. reader' = r /\ err' = "none" /\ cptr' = cptr + Stride
    BY <1>1, <1>3, <1>9 DEF Active
  <2>2. Behind' + cptr' = Behind + cptr + Stride
    BY <1>3, <1>5, <1>10, <2>1, Standing
  <2>3. ASSUME NEW f \in BOOLEAN PROVE ReachedI(Ahead(f), f)'
    BY <1>1, <1>8, <1>9, <1>10, <2>1, <2>2 DEF ReachedI, Whole, Ahead
  <2>4. reader'.floor <= Behind' /\ Slots' < SymMax
    BY <1>1, <1>2, <1>3, <1>9, <1>10 DEF CodeI, Slots
  <2>5. QED
    BY <1>1, <1>8, <2>1, <2>3, <2>4 DEF CodeI
<1>15. FaithfulI'
  <2>1. Whole(reader)'
    BY <1>9, <1>10 DEF Whole
  <2>2. Behind + cptr + Stride <= Len(job.dict) + sent
    <3>1. Behind + (cptr + Stride) <= Behind + Len(window)
      BY <1>3, <1>5, Standing
    <3>2. QED
      BY <1>3, <1>5, <3>1, Standing
  <2>3. Len(reader'.plain) <= Len(job.dict) + sent
    <3>1. Len(reader'.plain) \in Nat
      BY <1>9 DEF Readers
    <3>2. QED
      BY <1>3, <1>5, <1>8, <1>9, <2>2, <3>1, Standing
  <2>4. QED
    BY <1>1, <2>1, <2>3 DEF FaithfulI
<1>16. EndI' /\ FlushI'
  BY <1>1, <1>2, <1>3, <1>9 DEF EndI, FlushI, ControlInv
<1>17. QED
  BY <1>11, <1>12, <1>13, <1>14, <1>15, <1>16 DEF Inv

-----------------------------------------------------------------------------
(* The end of a block.                                                     *)

\* Behind the end of the block in hand.
LEMMA EndingRead ==
    ASSUME Inv, Active
    PROVE  /\ Ending \in Seq(Written) /\ Ending \in Seq(Items)
           /\ Read(reader, Ending) \in Readers /\ Whole(Read(reader, Ending))
           /\ Read(reader, Ending).ok
           /\ Read(reader, Ending).block = "none" /\ ~Read(reader, Ending).done
           /\ Len(Read(reader, Ending).plain) = Behind + cptr
<1>1. /\ reader \in Readers /\ Whole(reader) /\ ~reader.done
      /\ reader.block = (IF open THEN "coded" ELSE "none")
      /\ open => ~job.dynamic /\ ~reader.final
      /\ open \in BOOLEAN /\ TypeI
      /\ ReachedI(Ahead(FALSE), FALSE) /\ Ahead(FALSE) \in Readers
  BY AheadType DEF Inv, TypeI, CodeI, FaithfulI
<1>2. CASE job.dynamic /\ syms # <<>>
  <2>1. Ending = Collected(FALSE)
    BY <1>2 DEF Ending
  <2>2. /\ Collected(FALSE) \in Seq(Written)
        /\ Read(reader, Collected(FALSE)) = [Ahead(FALSE) EXCEPT !.block = "none", !.done = Ahead(FALSE).final]
    BY <1>1, <1>2, CollectedRead DEF ReachedI, Whole
  <2> DEFINE e == Collected(FALSE)
  <2> HIDE DEF e
  <2>3. e \in Seq(Items)
    BY <2>2, ItemsOfWritten DEF e
  <2>4. Read(reader, e) \in Readers /\ Whole(Read(reader, e)) /\ Read(reader, e).block = "none"
        /\ ~Read(reader, e).done /\ Len(Read(reader, e).plain) = Behind + cptr
    BY <1>1, <1>2, <2>2 DEF ReachedI, Whole, Readers, e
  <2>5. QED
    BY <2>1, <2>2, <2>3, <2>4 DEF e, Whole
<1>3. CASE job.dynamic /\ syms = <<>>
  <2>1. Ending = <<>> /\ <<>> \in Seq(Written) /\ <<>> \in Seq(Items)
    BY <1>3 DEF Ending
  <2>2. Ahead(FALSE) = [reader EXCEPT !.block = "coded", !.final = FALSE]
    BY <1>1, <1>3, OpenedOnNone DEF Ahead, Whole
  <2>3. Read(reader, <<>>) = reader
    BY <1>1, ReadEmpty
  <2>4. QED
    BY <1>1, <1>3, <2>1, <2>2, <2>3 DEF ReachedI, Whole, Readers
<1>4. CASE ~job.dynamic /\ open
  <2>1. Ending = <<Eob>> /\ <<Eob>> \in Seq(Written) /\ <<Eob>> \in Seq(Items) /\ Eob \in Items
    BY <1>4, BlocksWritten, SymbolsAreItems DEF Ending
  <2>2. Read(reader, <<Eob>>) = Decoded(reader, Eob)
    BY <1>1, <2>1, ReadOne
  <2>3. Decoded(reader, Eob) = [reader EXCEPT !.block = "none", !.done = reader.final]
    BY <1>1, <1>4, EobDecoded DEF Whole
  <2>4. QED
    BY <1>1, <1>4, <2>1, <2>2, <2>3 DEF ReachedI, Whole, Readers, Ahead
<1>5. CASE ~job.dynamic /\ ~open
  <2>1. Ending = <<>> /\ <<>> \in Seq(Written) /\ <<>> \in Seq(Items)
    BY <1>5 DEF Ending
  <2>2. Read(reader, <<>>) = reader
    BY <1>1, ReadEmpty
  <2>3. QED
    BY <1>1, <1>5, <2>1, <2>2 DEF ReachedI, Whole, Ahead
<1>6. QED
  BY <1>2, <1>3, <1>4, <1>5

\* An empty stored block behind it.
LEMMA StoredRead ==
    ASSUME Inv, Active, NEW f \in BOOLEAN
    PROVE  LET items == Ending \o EmptyStored(f)
               r     == Read(reader, items)
           IN  /\ items \in Seq(Written)
               /\ Whole(r) /\ r.block = "none" /\ r.done = f
               /\ Len(r.plain) = Behind + cptr
               /\ \A cap : Fitting(bits, items, cap).items = Len(items)
                             => Fitting(bits, items, cap).bits % 8 = 0
<1> DEFINE e == Ending
           z == EmptyStored(f)
           a == Read(reader, e)
<1>1. /\ e \in Seq(Written) /\ e \in Seq(Items) /\ a \in Readers /\ Whole(a) /\ a.ok
      /\ a.block = "none" /\ ~a.done /\ Len(a.plain) = Behind + cptr
  BY EndingRead
<1>2. reader \in Readers /\ bits \in Nat
  BY DEF Inv, TypeI
<1> HIDE DEF e
<1>3. /\ z \in Seq(Written) /\ Len(z) = 3 /\ z[2] = Align /\ z[3] = Lengths
      /\ Read(a, z) = [a EXCEPT !.final = f, !.done = f]
  <2> HIDE DEF a
  <2> QED
    BY <1>1, EmptyStoredRead
<1> HIDE DEF z
<1>4. z \in Seq(Items)
  BY <1>3, ItemsOfWritten
<1>5. Read(reader, e \o z) = [a EXCEPT !.final = f, !.done = f]
  BY <1>1, <1>2, <1>3, <1>4, ReadConcat
<1>6. /\ e \o z \in Seq(Written) /\ Len(e \o z) = Len(e) + 3 /\ Len(e) \in Nat
      /\ (e \o z)[Len(e) + 2] = Align /\ (e \o z)[Len(e) + 3] = Lengths
  <2>1. /\ e \o z \in Seq(Written) /\ Len(e \o z) = Len(e) + Len(z) /\ Len(e) \in Nat
        /\ \A i \in 1 .. Len(e) + Len(z) : (e \o z)[i] = IF i <= Len(e) THEN e[i] ELSE z[i - Len(e)]
    <3>1. e \in Seq(Written) /\ z \in Seq(Written)
      BY <1>1, <1>3
    <3>2. Len(e) \in Nat
      BY <3>1
    <3>3. QED
      BY <3>1, <3>2, ConcatProperties
  <2> DEFINE l == Len(e)
  <2>2. l + 2 \in 1 .. l + 3 /\ l + 3 \in 1 .. l + 3 /\ ~(l + 2 <= l) /\ ~(l + 3 <= l)
        /\ (l + 2) - l = 2 /\ (l + 3) - l = 3
    BY <2>1
  <2>3. (e \o z)[l + 2] = z[2] /\ (e \o z)[l + 3] = z[3]
    BY <1>3, <2>1, <2>2
  <2>4. QED
    BY <1>3, <2>1, <2>3
<1> DEFINE x == e \o z
<1>7. ASSUME NEW cap, Fitting(bits, x, cap).items = Len(x) PROVE Fitting(bits, x, cap).bits % 8 = 0
  <2>1. x \in Seq(Written) /\ Len(x) >= 2 /\ x[Len(x) - 1] = Align /\ x[Len(x)] = Lengths
    <3>1. Len(x) = Len(e) + 3 /\ (Len(e) + 3) - 1 = Len(e) + 2
      BY <1>6
    <3>2. QED
      BY <1>6, <3>1
  <2> HIDE DEF x
  <2>2. QED
    BY <1>2, <1>7, <2>1, StoredEndsOnByte
<1>8. Whole([a EXCEPT !.final = f, !.done = f])
  BY <1>1 DEF Whole, Readers
<1> HIDE DEF a
<1>9. /\ [a EXCEPT !.final = f, !.done = f].block = "none"
      /\ [a EXCEPT !.final = f, !.done = f].done = f
      /\ [a EXCEPT !.final = f, !.done = f].plain = a.plain
  BY <1>1 DEF Readers
<1>10. QED
  BY <1>1, <1>5, <1>6, <1>7, <1>8, <1>9 DEF e, z

\* A flush ends the block in hand and puts an empty stored block behind it.
LEMMA FlushBlockInv == ASSUME Inv, FlushBlock PROVE Inv'
<1> DEFINE items == Ending \o EmptyStored(FALSE)
           r == Read(reader, items)
<1>1. /\ job' = job /\ sent' = sent /\ rest' = rest /\ state' = state
      /\ flushed' = flushed /\ window' = window /\ cptr' = cptr /\ table' = table
      /\ verdict' = verdict /\ then' = then /\ upto' = upto
      /\ pc = "flush" /\ Put(items, "out")
      /\ syms' = IF err' = "none" THEN <<>> ELSE syms
      /\ open' = IF err' = "none" THEN FALSE ELSE open
  BY DEF FlushBlock, caller, run, In
<1>2. /\ TypeI /\ ControlInv /\ WindowI /\ CodeI /\ FaithfulI /\ EndI /\ FlushI
  BY DEF Inv
<1>3. Active /\ err = "none" /\ state # "DONE" /\ cptr = Len(window) /\ then = "flush" /\ rest = 0
  BY <1>1, <1>2 DEF Active, ControlInv
<1>4. /\ items \in Seq(Written) /\ Whole(r) /\ r.block = "none" /\ ~r.done
      /\ Len(r.plain) = Behind + cptr
      /\ Fitting(bits, items, job.cap).items = Len(items) => Fitting(bits, items, job.cap).bits % 8 = 0
  BY <1>3, StoredRead
<1> HIDE DEF items
<1>5. /\ reader' \in Readers /\ bits' \in Nat
      /\ Whole(reader') /\ Len(reader'.plain) <= Len(r.plain)
      /\ reader'.floor = reader.floor
      /\ \/ reader' = r /\ pc' = "out" /\ err' = err /\ bits' % 8 = 0
         \/ err' = "BUFFER_TOO_SMALL" /\ pc' = "out"
  <2>1. then # "finish"
    BY <1>3
  <2>2. QED
    BY <1>1, <1>2, <1>4, <2>1, PutOutcome
<1> HIDE DEF r
<1>6. Text' = Text /\ Behind' = Behind
  BY <1>1 DEF Text, Seen, Behind
<1>7. Behind + cptr = Len(job.dict) + sent
  BY <1>3, Standing
<1>8. TypeI'
  <2>1. syms' \in Seq(Symbols) /\ open' \in BOOLEAN
    <3>1. syms \in Seq(Symbols) /\ <<>> \in Seq(Symbols) /\ open \in BOOLEAN
      BY <1>2 DEF TypeI
    <3>2. syms' \in {<<>>, syms} /\ open' \in {FALSE, open}
      BY <1>1
    <3>3. QED
      BY <3>1, <3>2
  <2>2. QED
    BY <1>1, <1>2, <1>3, <1>5, <2>1 DEF TypeI
<1>9. ControlInv'
  BY <1>1, <1>2, <1>3, <1>5 DEF ControlInv
<1>10. WindowI'
  BY <1>1, <1>2, <1>6 DEF WindowI
<1>11. CodeI'
  <2> SUFFICES ASSUME Active' PROVE CodeI'
    BY DEF CodeI
  <2>1. reader' = r /\ err' = "none" /\ syms' = <<>> /\ open' = FALSE
    BY <1>1, <1>3, <1>5 DEF Active
  <2>2. ASSUME NEW f \in BOOLEAN PROVE ReachedI(Ahead(f), f)'
    <3>1. CASE job.dynamic
      <4>1. Opened(reader', <<>>, f) = [reader' EXCEPT !.block = "coded", !.final = f]
        BY <1>4, <1>5, <2>1, OpenedOnNone DEF Whole
      <4>2. Ahead(f)' = [reader' EXCEPT !.block = "coded", !.final = f]
        BY <1>1, <2>1, <3>1, <4>1 DEF Ahead, Opened
      <4>3. QED
        BY <1>1, <1>4, <1>5, <1>6, <2>1, <4>2 DEF ReachedI, Whole, Readers
    <3>2. CASE ~job.dynamic
      BY <1>1, <1>4, <1>5, <1>6, <2>1, <3>2 DEF ReachedI, Whole, Ahead
    <3>3. QED
      BY <3>1, <3>2
  <2>3. Slots' < SymMax
    BY <2>1, NoSlots, DeflateEncAssumption DEF Slots, SlotsOf
  <2>4. reader'.floor <= Behind'
    BY <1>2, <1>3, <1>5, <1>6 DEF CodeI
  <2>5. QED
    BY <1>4, <2>1, <2>2, <2>3, <2>4 DEF CodeI
<1>12. FaithfulI'
  <2>1. Whole(reader)'
    BY <1>5, <1>6 DEF Whole
  <2>2. QED
    BY <1>1, <1>4, <1>5, <1>7, <2>1 DEF FaithfulI
<1>13. EndI'
  BY <1>1, <1>2, <1>3, <1>5 DEF EndI, ControlInv
<1>14. FlushI'
  BY <1>1, <1>3, <1>4, <1>5, <1>7 DEF FlushI
<1>15. QED
  BY <1>8, <1>9, <1>10, <1>11, <1>12, <1>13, <1>14 DEF Inv

\* Finish writes a last block that says that it is the last.
LEMMA FinishBlockInv == ASSUME Inv, FinishBlock PROVE Inv'
<1> DEFINE items == LastBlock
           r == Read(reader, items)
<1>1. /\ job' = job /\ sent' = sent /\ rest' = rest /\ state' = state
      /\ flushed' = flushed /\ window' = window /\ cptr' = cptr /\ table' = table
      /\ verdict' = verdict /\ then' = then /\ upto' = upto /\ syms' = syms /\ open' = open
      /\ pc = "finish" /\ Put(items, "close")
  BY DEF FinishBlock, caller, run, In
<1>2. /\ TypeI /\ ControlInv /\ WindowI /\ CodeI /\ FaithfulI /\ EndI /\ FlushI
  BY DEF Inv
<1>3. Active /\ err = "none" /\ state # "DONE" /\ cptr = Len(window) /\ then = "finish" /\ rest = 0
  BY <1>1, <1>2 DEF Active, ControlInv
<1>4. /\ items \in Seq(Written) /\ Whole(r) /\ r.done /\ Len(r.plain) = Behind + cptr
  <2>1. CASE job.dynamic
    <3>1. ReachedI(Ahead(TRUE), TRUE) /\ Ahead(TRUE) \in Readers
      BY <1>2, <1>3, AheadType DEF CodeI
    <3>2. /\ Collected(TRUE) \in Seq(Written)
          /\ Read(reader, Collected(TRUE)) = [Ahead(TRUE) EXCEPT !.block = "none", !.done = Ahead(TRUE).final]
      BY <1>2, <2>1, <3>1, CollectedRead DEF ReachedI, Whole
    <3>3. items = Collected(TRUE)
      BY <2>1 DEF LastBlock
    <3>4. QED
      BY <2>1, <3>1, <3>2, <3>3 DEF ReachedI, Whole, Readers
  <2>2. CASE ~job.dynamic
    <3>1. items = Ending \o EmptyStored(TRUE)
      BY <2>2 DEF LastBlock
    <3>2. QED
      BY <1>3, <3>1, StoredRead
  <2>3. QED
    BY <2>1, <2>2
<1> HIDE DEF items
<1>5. /\ reader' \in Readers /\ bits' \in Nat
      /\ Whole(reader') /\ Len(reader'.plain) <= Len(r.plain)
      /\ pc' = "close"
      /\ (reader' = r /\ err' = err) \/ err' = "BUFFER_TOO_SMALL"
  BY <1>1, <1>2, <1>3, <1>4, PutOutcome
<1> HIDE DEF r
<1>6. Text' = Text /\ Behind' = Behind
  BY <1>1 DEF Text, Seen, Behind
<1>7. Behind + cptr = Len(job.dict) + sent
  BY <1>3, Standing
<1>8. TypeI'
  BY <1>1, <1>2, <1>3, <1>5 DEF TypeI
<1>9. ControlInv'
  BY <1>1, <1>2, <1>3, <1>5 DEF ControlInv
<1>10. WindowI'
  BY <1>1, <1>2, <1>6 DEF WindowI
<1>11. CodeI'
  BY <1>5 DEF CodeI, Active
<1>12. FaithfulI'
  <2>1. Whole(reader)'
    BY <1>5, <1>6 DEF Whole
  <2>2. QED
    BY <1>1, <1>4, <1>5, <1>7, <2>1 DEF FaithfulI
<1>13. EndI'
  <2>1. verdict' # "ok"
    BY <1>1, <1>2, <1>3 DEF ControlInv
  <2>2. QED
    BY <1>1, <1>4, <1>5, <1>7, <2>1 DEF EndI
<1>14. FlushI'
  <2>1. ~(flushed >= 0)
    BY <1>1, <1>2, <1>3 DEF FlushI
  <2>2. QED
    BY <1>1, <2>1 DEF FlushI
<1>15. QED
  BY <1>8, <1>9, <1>10, <1>11, <1>12, <1>13, <1>14 DEF Inv

-----------------------------------------------------------------------------
(* The theorems.                                                           *)

\* The invariant holds of every encoder: every job, every cutting into writes, every cost of
\* the symbols, every hash and every chain depth.
THEOREM Invariance == Spec => []Inv
<1>1. ASSUME Inv, [Next]_vars PROVE Inv'
  <2>1. CASE UNCHANGED vars
    BY <1>1, <2>1, Stutter
  <2>2. ASSUME NEW n \in 1 .. Len(job.bytes), Write(n) PROVE Inv'
    BY <1>1, <2>2, WriteInv
  <2>3. CASE Flush
    BY <1>1, <2>3, FlushInv
  <2>4. CASE ResetContext
    BY <1>1, <2>4, ResetContextInv
  <2>5. CASE Finish
    BY <1>1, <2>5, FinishInv
  <2>6. CASE Room
    BY <1>1, <2>6, RoomInv
  <2>7. CASE Slide
    BY <1>1, <2>7, SlideInv
  <2>8. CASE CopyIn
    BY <1>1, <2>8, CopyInInv
  <2>9. CASE Consumed
    BY <1>1, <2>9, ConsumedInv
  <2>10. CASE WriteFullBlock
    BY <1>1, <2>10, WriteFullBlockInv
  <2>11. CASE Collect
    BY <1>1, <2>11, CollectInv
  <2>12. CASE OpenBlock
    BY <1>1, <2>12, OpenBlockInv
  <2>13. CASE WriteSymbol
    BY <1>1, <2>13, WriteSymbolInv
  <2>14. CASE FlushBlock
    BY <1>1, <2>14, FlushBlockInv
  <2>15. CASE FinishBlock
    BY <1>1, <2>15, FinishBlockInv
  <2>16. CASE CloseContext
    BY <1>1, <2>16, CloseInv
  <2>17. QED
    BY <1>1, <2>1, <2>2, <2>3, <2>4, <2>5, <2>6, <2>7, <2>8, <2>9, <2>10, <2>11, <2>12,
       <2>13, <2>14, <2>15, <2>16 DEF Next, Step
<1>2. QED
  BY <1>1, InitInv, PTL DEF Spec

\* A prefix, element by element.
LEMMA PrefixAt ==
    ASSUME NEW S, NEW s \in Seq(S), NEW n \in 0 .. Len(s)
    PROVE  /\ SubSeq(s, 1, n) \in Seq(S) /\ Len(SubSeq(s, 1, n)) = n
           /\ \A i \in 1 .. n : SubSeq(s, 1, n)[i] = s[i]
<1>1. n \in Int /\ Len(s) \in Nat /\ n <= Len(s) /\ \A i \in 1 .. Len(s) : s[i] \in S
  OBVIOUS
<1>2. \A i \in 1 .. n : s[i] \in S
  BY <1>1
<1>3. /\ SubSeq(s, 1, n) \in Seq(S) /\ Len(SubSeq(s, 1, n)) = (IF 1 <= n THEN n - 1 + 1 ELSE 0)
      /\ \A i \in 1 .. n - 1 + 1 : SubSeq(s, 1, n)[i] = s[1 + i - 1]
  BY <1>1, <1>2, SubSeqProperties
<1>4. n - 1 + 1 = n /\ (IF 1 <= n THEN n - 1 + 1 ELSE 0) = n
  BY <1>1
<1>5. ASSUME NEW i \in 1 .. n PROVE 1 + i - 1 = i
  BY <1>1
<1>6. QED
  BY <1>3, <1>4, <1>5

\* What was given is the beginning of the text.
LEMMA GivenIsText ==
    ASSUME TypeI
    PROVE  /\ Given \in Seq(Nat) /\ Len(Given) = Len(job.dict) + sent
           /\ Len(job.dict) + sent \in Nat
           /\ \A i \in 1 .. Len(job.dict) + sent : Given[i] = Text[i]
<1> DEFINE d == job.dict
           b == job.bytes
           g == SubSeq(b, 1, sent)
<1>1. job \in Jobs /\ sent \in 0 .. Len(job.bytes) /\ Byte \subseteq Nat
  BY Lz77Assumption DEF TypeI
<1>2. /\ d \in Seq(Byte) /\ b \in Seq(Byte) /\ Len(d) \in Nat /\ Len(b) \in Nat
      /\ \A i \in 1 .. Len(d) : Text[i] = d[i]
      /\ \A i \in 1 .. Len(b) : Text[Len(d) + i] = b[i]
  BY <1>1, JobType DEF Text
<1> HIDE DEF b, d
<1>3. sent \in 0 .. Len(b)
  BY <1>1 DEF b
<1>4. g \in Seq(Byte) /\ Len(g) = sent /\ \A i \in 1 .. sent : g[i] = b[i]
  BY <1>2, <1>3, PrefixAt
<1> HIDE DEF g
<1>5. d \in Seq(Nat) /\ g \in Seq(Nat)
  BY <1>1, <1>2, <1>4, SeqMonotonic
<1>6. /\ d \o g \in Seq(Nat) /\ Len(d \o g) = Len(d) + Len(g)
      /\ \A i \in 1 .. Len(d) + Len(g) : (d \o g)[i] = IF i <= Len(d) THEN d[i] ELSE g[i - Len(d)]
  <2>1. Len(g) \in Nat
    BY <1>5
  <2>2. QED
    BY <1>2, <1>5, <2>1, ConcatProperties
<1>7. ASSUME NEW i \in 1 .. Len(d) + sent PROVE (d \o g)[i] = Text[i]
  <2> DEFINE n == Len(d)
  <2>0. n \in Nat /\ sent \in Nat /\ i \in Nat /\ i <= n + sent /\ 1 <= i /\ sent <= Len(b)
    BY <1>2, <1>3
  <2> HIDE DEF n
  <2>1. CASE i <= Len(d)
    <3>1. i \in 1 .. Len(d)
      BY <1>2, <2>1
    <3>2. QED
      BY <1>2, <1>4, <1>6, <2>1, <3>1
  <2>2. CASE i > Len(d)
    <3>1. i - n \in 1 .. sent /\ n + (i - n) = i /\ i - n \in 1 .. Len(b) /\ ~(i <= n)
      BY <1>2, <2>0, <2>2 DEF n
    <3>2. (d \o g)[i] = g[i - n]
      BY <1>4, <1>6, <3>1 DEF n
    <3>3. g[i - n] = b[i - n] /\ Text[n + (i - n)] = b[i - n]
      BY <1>2, <1>4, <3>1 DEF n
    <3>4. QED
      BY <3>1, <3>2, <3>3
  <2>3. i <= Len(d) \/ i > Len(d)
    BY <2>0 DEF n
  <2>4. QED
    BY <2>1, <2>2, <2>3
<1>8. Given = d \o g /\ Len(d) + sent \in Nat
  BY <1>2, <1>3 DEF Given, d, g, b
<1>9. QED
  BY <1>4, <1>6, <1>7, <1>8 DEF d

\* Decoded so far and the window from where it ends.
LEMMA Joined ==
    ASSUME Inv, NEW p \in Seq(Nat), Len(p) = Behind + cptr, Begins(p, Text)
    PROVE  p \o SubSeq(window, cptr + 1, Len(window)) = SubSeq(Given, 1, Len(Given) - rest)
<1> DEFINE l == Len(window)
           tail == SubSeq(window, cptr + 1, l)
           n == Behind + l
           left == Len(Given) - rest
           g == SubSeq(Given, 1, left)
<1>1. /\ Behind \in Nat /\ cptr \in Nat /\ cptr <= l /\ l \in Nat /\ rest \in Nat
      /\ n + rest = Len(job.dict) + sent
  BY Standing
<1>2. Given \in Seq(Nat) /\ Len(Given) = Len(job.dict) + sent
      /\ \A i \in 1 .. Len(Given) : Given[i] = Text[i]
  BY GivenIsText DEF Inv
<1>3. window \in Seq(Nat) /\ \A i \in 1 .. l : window[i] = Text[Behind + i]
  <2>1. window \in Seq(Byte) /\ Byte \subseteq Nat
    BY Lz77Assumption DEF Inv, TypeI
  <2>2. window \in Seq(Nat)
    BY <2>1, SeqMonotonic
  <2>3. QED
    BY <2>2 DEF Inv, WindowI
<1>4. left = n /\ left \in 0 .. Len(Given)
  BY <1>1, <1>2, SMTT(30)
<1>5. g \in Seq(Nat) /\ Len(g) = n /\ \A i \in 1 .. n : g[i] = Text[i]
  <2>1. left \in 0 .. Len(Given) /\ left = n /\ \A i \in 1 .. left : Given[i] = Text[i]
    BY <1>1, <1>2, <1>4
  <2> HIDE DEF left, n
  <2>2. SubSeq(Given, 1, left) \in Seq(Nat) /\ Len(SubSeq(Given, 1, left)) = left
        /\ \A i \in 1 .. left : SubSeq(Given, 1, left)[i] = Given[i]
    BY <1>2, <2>1, PrefixAt
  <2>3. QED
    BY <2>1, <2>2
<1>6. /\ tail \in Seq(Nat) /\ Len(tail) = l - cptr
      /\ \A i \in 1 .. l - cptr : tail[i] = window[cptr + i]
  <2> DEFINE m == cptr + 1
  <2>1. m \in Int /\ l \in Int /\ \A i \in m .. l : window[i] \in Nat
    BY <1>1, <1>3
  <2> HIDE DEF l
  <2>2. /\ SubSeq(window, m, l) \in Seq(Nat)
        /\ Len(SubSeq(window, m, l)) = IF m <= l THEN l - m + 1 ELSE 0
        /\ \A i \in 1 .. l - m + 1 : SubSeq(window, m, l)[i] = window[m + i - 1]
    <3> HIDE DEF m
    <3> QED
      BY <2>1, SubSeqProperties
  <2>3. (IF m <= l THEN l - m + 1 ELSE 0) = l - cptr /\ l - m + 1 = l - cptr
    BY <1>1
  <2>4. ASSUME NEW i \in 1 .. l - cptr PROVE m + i - 1 = cptr + i
    BY <1>1
  <2>5. QED
    BY <2>2, <2>3, <2>4
<1> HIDE DEF l, tail, g, left
<1>7. /\ p \o tail \in Seq(Nat) /\ Len(p \o tail) = n
      /\ \A i \in 1 .. n : (p \o tail)[i] = IF i <= Behind + cptr THEN p[i] ELSE tail[i - (Behind + cptr)]
  <2>1. Len(p) \in Nat /\ Len(tail) \in Nat
    BY <1>6
  <2>2. /\ p \o tail \in Seq(Nat) /\ Len(p \o tail) = Len(p) + Len(tail)
        /\ \A i \in 1 .. Len(p) + Len(tail) : (p \o tail)[i] = IF i <= Len(p) THEN p[i] ELSE tail[i - Len(p)]
    BY <1>6, <2>1, ConcatProperties
  <2>3. Len(p) + Len(tail) = n
    BY <1>1, <1>6
  <2>4. QED
    BY <1>3, <2>2, <2>3
<1>8. ASSUME NEW i \in 1 .. n PROVE (p \o tail)[i] = g[i]
  <2>1. CASE i <= Behind + cptr
    <3>1. i \in 1 .. Len(p)
      BY <1>1, <2>1
    <3>2. QED
      BY <1>5, <1>7, <2>1, <3>1 DEF Begins
  <2>2. CASE i > Behind + cptr
    <3> DEFINE k == i - (Behind + cptr)
    <3>1. k \in 1 .. l - cptr /\ cptr + k \in 1 .. l /\ Behind + (cptr + k) = i
      BY <1>1, <2>2
    <3>2. tail[k] = Text[Behind + (cptr + k)]
      BY <1>3, <1>6, <3>1
    <3>3. (p \o tail)[i] = tail[k]
      BY <1>1, <1>7, <2>2, SMTT(30)
    <3>4. QED
      BY <1>5, <3>1, <3>2, <3>3
  <2>3. Behind + cptr \in Int /\ i \in Int
    BY <1>1
  <2>4. i <= Behind + cptr \/ i > Behind + cptr
    BY <2>3
  <2>5. QED
    BY <2>1, <2>2, <2>4
<1>9. p \o tail = g
  BY <1>5, <1>7, <1>8, SeqEqual
<1>10. QED
  BY <1>9 DEF tail, l, g, left

\* What is written, what is collected and what is in the window make up what was given.
LEMMA InvNothingLost == Inv => NothingLost
<1> SUFFICES ASSUME Inv, err = "none", state # "DONE", pc # "close"
             PROVE  LET pending == IF job.dynamic THEN Collected(FALSE) ELSE <<>>
                    IN  /\ Slots < SymMax /\ Len(window) <= WindowCap
                        /\ Read(reader, pending).plain \o SubSeq(window, cptr + 1, Len(window))
                             = SubSeq(Given, 1, Len(Given) - rest)
  BY DEF NothingLost
<1> DEFINE pending == IF job.dynamic THEN Collected(FALSE) ELSE <<>>
           r == Read(reader, pending)
<1>1. Active /\ reader \in Readers /\ TypeI
  BY DEF Active, Inv, TypeI
<1>2. Slots < SymMax /\ Len(window) <= WindowCap
  BY <1>1 DEF Inv, TypeI, CodeI
<1>3. ReachedI(Ahead(FALSE), FALSE) /\ Ahead(FALSE) \in Readers
  BY <1>1, AheadType DEF Inv, CodeI
<1>4. r.plain \in Seq(Nat) /\ Len(r.plain) = Behind + cptr /\ Begins(r.plain, Text)
  <2>1. r.plain = Ahead(FALSE).plain
    <3>1. CASE job.dynamic
      <4>1. Read(reader, Collected(FALSE)) = [Ahead(FALSE) EXCEPT !.block = "none", !.done = Ahead(FALSE).final]
        BY <1>1, <1>3, <3>1, CollectedRead DEF ReachedI, Whole
      <4>2. QED
        BY <1>3, <3>1, <4>1 DEF Readers
    <3>2. CASE ~job.dynamic
      BY <1>1, <3>2, ReadEmpty DEF Ahead
    <3>3. QED
      BY <3>1, <3>2
  <2>2. QED
    BY <1>3, <2>1 DEF ReachedI, Whole, Readers
<1> HIDE DEF r
<1>5. r.plain \o SubSeq(window, cptr + 1, Len(window)) = SubSeq(Given, 1, Len(Given) - rest)
  BY <1>4, Joined
<1>6. QED
  BY <1>2, <1>5 DEF r

\* A decoder that read as much as was given has what was given.
LEMMA AllRead ==
    ASSUME Inv, Len(reader.plain) = Len(job.dict) + sent
    PROVE  reader.plain = Given
<1>1. reader.plain \in Seq(Nat) /\ \A i \in 1 .. Len(reader.plain) : reader.plain[i] = Text[i]
  BY DEF Inv, TypeI, FaithfulI, Whole, Begins, Readers
<1>2. Given \in Seq(Nat) /\ Len(Given) = Len(job.dict) + sent
      /\ \A i \in 1 .. Len(job.dict) + sent : Given[i] = Text[i]
  BY GivenIsText DEF Inv
<1> DEFINE p == reader.plain
<1>3. p \in Seq(Nat) /\ Len(p) = Len(Given) /\ \A i \in 1 .. Len(p) : p[i] = Given[i]
  BY <1>1, <1>2
<1> HIDE DEF p
<1>4. p = Given
  BY <1>2, <1>3, SeqEqual
<1>5. QED
  BY <1>4 DEF p

\* What is decoded is the beginning of what was given.
LEMMA InvFaithful == Inv => Faithful
<1> SUFFICES ASSUME Inv PROVE reader.ok /\ IsPrefix(reader.plain, Given)
  BY DEF Faithful
<1> DEFINE p == reader.plain
           n == Len(p)
<1>1. p \in Seq(Nat) /\ n \in Nat /\ (\A i \in 1 .. n : p[i] = Text[i])
      /\ n <= Len(job.dict) + sent /\ reader.ok
  BY DEF Inv, TypeI, FaithfulI, Whole, Begins, Readers
<1>2. Given \in Seq(Nat) /\ Len(Given) = Len(job.dict) + sent /\ Len(Given) \in Nat
      /\ \A i \in 1 .. Len(job.dict) + sent : Given[i] = Text[i]
  BY GivenIsText DEF Inv
<1>3. n \in 0 .. Len(Given) /\ n \in 0 .. Len(p) /\ \A i \in 1 .. n : p[i] = Given[i]
  BY <1>1, <1>2
<1> HIDE DEF p, n
<1>4. SubSeq(p, 1, n) \in Seq(Nat) /\ Len(SubSeq(p, 1, n)) = n
      /\ \A i \in 1 .. n : SubSeq(p, 1, n)[i] = p[i]
  BY <1>1, <1>3, PrefixAt
<1>5. SubSeq(Given, 1, n) \in Seq(Nat) /\ Len(SubSeq(Given, 1, n)) = n
      /\ \A i \in 1 .. n : SubSeq(Given, 1, n)[i] = Given[i]
  BY <1>2, <1>3, PrefixAt
<1>6. SubSeq(p, 1, n) = SubSeq(Given, 1, n)
  <2> DEFINE u == SubSeq(p, 1, n)
             v == SubSeq(Given, 1, n)
  <2>1. u \in Seq(Nat) /\ v \in Seq(Nat) /\ Len(u) = Len(v) /\ \A i \in 1 .. Len(u) : u[i] = v[i]
    BY <1>3, <1>4, <1>5
  <2> HIDE DEF u, v
  <2>2. u = v
    BY <2>1, SeqEqual
  <2>3. QED
    BY <2>2 DEF u, v
<1>7. QED
  BY <1>1, <1>3, <1>6 DEF IsPrefix, p, n

\* After a flush it is all of it.
LEMMA InvFlushDelivers == Inv => FlushDelivers
<1> SUFFICES ASSUME Inv, pc = "out", flushed >= 0, err = "none"
             PROVE  reader.plain = Given /\ reader.block = "none" /\ ~reader.done /\ bits % 8 = 0
  BY DEF FlushDelivers
<1>1. Len(reader.plain) = Len(job.dict) + sent /\ reader.block = "none" /\ ~reader.done /\ bits % 8 = 0
  BY DEF Inv, FlushI
<1>2. QED
  BY <1>1, AllRead

\* And after finish.
LEMMA InvFinishDelivers == Inv => FinishDelivers
<1> SUFFICES ASSUME Inv, verdict = "ok" PROVE reader.done /\ reader.plain = Given
  BY DEF FinishDelivers
<1>1. reader.done /\ Len(reader.plain) = Len(job.dict) + sent
  BY DEF Inv, EndI
<1>2. QED
  BY <1>1, AllRead

\* deflate_enc_write: slides, runs that stop before the lookahead, full blocks and full buffers
\* neither drop nor repeat a byte, and the symbol buffer keeps a slot for the end of the block.
THEOREM NothingLostHolds == Spec => []NothingLost
BY Invariance, InvNothingLost, PTL

\* Whatever has been written is a well-formed beginning of a stream that decodes to what was given.
THEOREM FaithfulHolds == Spec => []Faithful
BY Invariance, InvFaithful, PTL

\* deflate_enc_flush: the receiver has everything, and the stream ends on a byte.
THEOREM FlushDeliversHolds == Spec => []FlushDelivers
BY Invariance, InvFlushDelivers, PTL

\* deflate_enc_finish: a stream that was finished without an error is complete.
THEOREM FinishDeliversHolds == Spec => []FinishDelivers
BY Invariance, InvFinishDelivers, PTL

\* deflate_enc_reset_context: no match reaches what came before it.
THEOREM ForgetsContextHolds == Spec => []ForgetsContext
<1>1. Inv => ForgetsContext
  BY DEF Inv, FaithfulI, Whole, ForgetsContext
<1>2. QED
  BY <1>1, Invariance, PTL

-----------------------------------------------------------------------------
(* Every call ends.                                                        *)

\* Writing goes on or ends the run.
LEMMA PutEnds ==
    ASSUME NEW items, NEW next, err = "none", Put(items, next)
    PROVE  \/ err' = "none" /\ pc' = next
           \/ err' # "none" /\ pc' = IF then = "finish" THEN "close" ELSE "out"
BY DEF Put

\* What a call has left to do, but for the place it is at.
Left == 20 * rest + 4 * (Len(window) - cptr)
\* The parts that one turn of a loop settles.
Flags == (IF Full THEN 1 ELSE 0) + (IF open THEN 0 ELSE 1)

\* Work is the sum of three numbers.
WorkI == Work = Left + Place + Flags /\ Left \in Int /\ Flags \in 0 .. 2 /\ Place \in 1 .. 10

\* It is.
LEMMA WorkParts == Inv => WorkI
<1> SUFFICES ASSUME Inv PROVE WorkI
  OBVIOUS
<1>1. rest \in Nat /\ cptr \in Nat /\ Len(window) \in Nat
  BY Standing
<1>2. Left \in Int
  BY <1>1 DEF Left
<1>3. Flags \in 0 .. 2
  BY DEF Flags
<1>4. Place \in 1 .. 10
  BY DEF Place
<1>5. Work = Left + Place + Flags
  BY <1>1, <1>4 DEF Work, Left, Flags
<1>6. QED
  BY <1>2, <1>3, <1>4, <1>5 DEF WorkI

\* Each step of a call takes something off: input, bytes of the window, a place, or a block to open or close.
LEMMA StepEnds ==
    ASSUME Inv, Inv', pc # "out", pc' # "out", Step
    PROVE  \/ Left' <= Left - 16
           \/ Left' = Left /\ Place' < Place /\ Flags' <= Flags
           \/ Left' = Left /\ Place' = Place /\ Flags' < Flags
           \/ Left' <= Left - 4 /\ Place' = Place /\ Flags' <= Flags + 1
<1>1. rest \in Nat /\ cptr \in Nat /\ Len(window) \in Nat /\ rest' \in Nat /\ cptr' \in Nat
      /\ Len(window') \in Nat
  <2>1. rest \in Nat /\ cptr \in Nat /\ Len(window) \in Nat
    BY Standing
  <2>2. /\ job' \in Jobs /\ sent' \in 0 .. Len(job'.bytes) /\ rest' \in 0 .. sent'
        /\ window' \in Seq(Byte) /\ cptr' \in 0 .. Len(window')
    BY DEF Inv, TypeI
  <2>3. QED
    BY <2>1, <2>2, JobType
<1>2. SymMax \in Nat /\ SymMax > 5
  BY DeflateEncAssumption
<1>3. TypeI /\ ControlInv /\ Flags \in 0 .. 2 /\ Flags' \in 0 .. 2
  BY DEF Inv, Flags
<1>4. CASE Room
  <2>1. UNCHANGED <<rest, window, cptr, syms, open>> /\ pc = "room"
        /\ ((pc' = "consume" /\ then' = "slide") \/ pc' = "copy")
    BY <1>4 DEF Room, Consume, writer
  <2>2. Left' = Left /\ Flags' = Flags
    BY <2>1 DEF Left, Flags, Full, Slots, SlotsOf
  <2>3. Place = 9 /\ Place' \in {6, 8}
    BY <2>1 DEF Place
  <2>4. QED
    BY <1>3, <2>2, <2>3
<1>5. CASE Slide
  <2>1. UNCHANGED <<rest, syms, open>> /\ pc = "slide" /\ pc' = "copy"
    BY <1>5 DEF Slide, writer
  <2>2. PICK delta \in 0 .. Len(window) : delta <= cptr /\ cptr' = cptr - delta /\ Len(window') = Len(window) - delta
    BY <1>5, SlideStep
  <2>3. Left' = Left
    BY <1>1, <2>1, <2>2 DEF Left
  <2>4. Flags' = Flags
    BY <2>1 DEF Flags, Full, Slots, SlotsOf
  <2>5. Place = 7 /\ Place' = 6
    BY <2>1 DEF Place
  <2>6. QED
    BY <1>3, <2>3, <2>4, <2>5
<1>6. CASE CopyIn
  <2>1. PICK n \in 1 .. rest : rest' = rest - n /\ Len(window') = Len(window) + n
    BY <1>6, CopyInStep
  <2>2. cptr' = cptr
    BY <1>6 DEF CopyIn
  <2>3. Left' <= Left - 16
    BY <1>1, <2>1, <2>2 DEF Left
  <2>4. QED
    BY <2>3
<1>7. CASE Consumed
  <2>1. UNCHANGED <<rest, window, cptr, syms, open, then>> /\ pc = "consume" /\ pc' = then
        /\ then \in {"slide", "room", "flush", "finish"}
    BY <1>3, <1>7 DEF Consumed, In, run, writer, ControlInv, TypeI
  <2>2. Left' = Left /\ Flags' = Flags
    BY <2>1 DEF Left, Flags, Full, Slots, SlotsOf
  <2>3. Place' < Place
    BY <2>1 DEF Place
  <2>4. QED
    BY <1>3, <2>2, <2>3
<1>8. ASSUME UNCHANGED <<rest, window, cptr, then>>, Running,
             \/ err' = "none" /\ pc' = "consume" /\ Flags' < Flags
             \/ pc' = (IF then = "finish" THEN "close" ELSE "out") /\ Flags' = Flags
      PROVE  \/ Left' = Left /\ Place' < Place /\ Flags' <= Flags
             \/ Left' = Left /\ Place' = Place /\ Flags' < Flags
  <2>1. Left' = Left
    BY <1>8 DEF Left
  <2>2. pc = "consume" /\ Flags \in 0 .. 2
    BY <1>3, <1>8, RunningAt
  <2>3. CASE pc' = "consume" /\ Flags' < Flags
    BY <1>8, <2>1, <2>2, <2>3 DEF Place
  <2>4. CASE pc' = "close" /\ then = "finish" /\ Flags' = Flags
    <3>1. Place' = 1 /\ Place = 3
      BY <2>2, <2>4 DEF Place
    <3>2. QED
      BY <2>1, <2>2, <2>4, <3>1
  <2>5. QED
    BY <1>8, <2>3, <2>4
<1>9. CASE WriteFullBlock
  <2>1. UNCHANGED <<rest, window, cptr, then, open>> /\ Running /\ Full
        /\ Put(Collected(FALSE), "consume") /\ syms' = IF err' = "none" THEN <<>> ELSE syms
    BY <1>9 DEF WriteFullBlock, run
  <2>2. \/ err' = "none" /\ pc' = "consume"
        \/ err' # "none" /\ pc' = IF then = "finish" THEN "close" ELSE "out"
    BY <2>1, RunningAt, PutEnds
  <2>3. CASE err' = "none" /\ pc' = "consume"
    <3>1. ~Full'
      BY <1>2, <2>1, <2>3, NoSlots DEF Full, Slots, SlotsOf
    <3>2. Flags' < Flags
      BY <2>1, <3>1 DEF Flags
    <3>3. QED
      BY <1>8, <2>1, <2>3, <3>2
  <2>4. CASE err' # "none" /\ pc' = IF then = "finish" THEN "close" ELSE "out"
    <3>1. Flags' = Flags
      BY <2>1, <2>4 DEF Flags, Full, Slots, SlotsOf
    <3>2. QED
      BY <1>8, <2>1, <2>4, <3>1
  <2>5. QED
    BY <2>2, <2>3, <2>4
<1>10. CASE OpenBlock
  <2>1. UNCHANGED <<rest, window, cptr, then, syms>> /\ Running /\ ~open
        /\ Put(<<Block(FALSE, "coded")>>, "consume") /\ open' = (err' = "none")
    BY <1>10 DEF OpenBlock, run
  <2>2. \/ err' = "none" /\ pc' = "consume"
        \/ err' # "none" /\ pc' = IF then = "finish" THEN "close" ELSE "out"
    BY <2>1, RunningAt, PutEnds
  <2>3. Full' = Full
    BY <2>1 DEF Full, Slots, SlotsOf
  <2>4. (err' = "none" => Flags' < Flags) /\ (err' # "none" => Flags' = Flags)
    <3>1. CASE err' = "none"
      <4>1. open' = TRUE
        BY <2>1, <3>1
      <4>2. QED
        BY <2>1, <2>3, <3>1, <4>1 DEF Flags
    <3>2. CASE err' # "none"
      <4>1. open' = FALSE
        BY <2>1, <3>2
      <4>2. QED
        BY <2>1, <2>3, <3>2, <4>1 DEF Flags
    <3>3. QED
      BY <3>1, <3>2
  <2>5. QED
    BY <1>8, <2>1, <2>2, <2>4
<1>11. ASSUME UNCHANGED <<rest, window, then>>, Running, pc' = "consume", cptr' = cptr + Stride,
              Stride \in Nat \ {0}, UNCHANGED open
       PROVE  Left' <= Left - 4 /\ Place' = Place /\ Flags' <= Flags + 1
  <2>1. Left' <= Left - 4
    BY <1>1, <1>11 DEF Left
  <2>2. Place' = Place
    BY <1>11, RunningAt DEF Place
  <2>3. Flags' <= Flags + 1
    BY <1>11 DEF Flags
  <2>4. QED
    BY <2>1, <2>2, <2>3
<1>12. CASE Collect
  <2>1. UNCHANGED <<rest, window, then, open>> /\ Running /\ pc' = pc /\ cptr' = cptr + Stride /\ job.dynamic
    BY <1>12 DEF Collect, run, Advance
  <2>2. Stride \in Nat \ {0}
    <3>1. Ahead(FALSE).block = "coded"
      BY <2>1, RunningAt DEF Inv, CodeI, ReachedI
    <3>2. QED
      BY <2>1, <3>1, SymbolReached
  <2>3. QED
    BY <1>11, <2>1, <2>2, RunningAt
<1>13. CASE WriteSymbol
  <2>1. UNCHANGED <<rest, window, then, open, syms>> /\ Running /\ ~job.dynamic /\ open
        /\ Put(<<Symbol>>, "consume")
        /\ (err' = "none" => cptr' = cptr + Stride) /\ (err' # "none" => cptr' = cptr)
    BY <1>13 DEF WriteSymbol, run, Advance
  <2>2. \/ err' = "none" /\ pc' = "consume"
        \/ err' # "none" /\ pc' = IF then = "finish" THEN "close" ELSE "out"
    BY <2>1, RunningAt, PutEnds
  <2>3. Stride \in Nat \ {0}
    <3>1. Ahead(FALSE).block = "coded"
      BY <2>1, RunningAt DEF Inv, CodeI, Ahead
    <3>2. QED
      BY <2>1, <3>1, SymbolReached
  <2>4. Flags' = Flags
    BY <2>1 DEF Flags, Full, Slots, SlotsOf
  <2>5. QED
    BY <1>8, <1>11, <2>1, <2>2, <2>3, <2>4
<1>14. CASE FlushBlock
  <2>1. pc = "flush" /\ Put(Ending \o EmptyStored(FALSE), "out")
    BY <1>14 DEF FlushBlock, In
  <2>2. then = "flush" /\ err = "none"
    BY <1>3, <2>1 DEF ControlInv
  <2>3. pc' = "out"
    BY <2>1, <2>2 DEF Put
  <2>4. QED
    BY <2>3
<1>15. CASE FinishBlock
  <2>1. UNCHANGED <<rest, window, cptr, syms, open>> /\ pc = "finish" /\ Put(LastBlock, "close")
    BY <1>15 DEF FinishBlock, In
  <2>2. pc' = "close"
    BY <1>3, <2>1 DEF ControlInv, Put
  <2>3. Left' = Left /\ Flags' = Flags
    BY <2>1 DEF Left, Flags, Full, Slots, SlotsOf
  <2>4. Place = 2 /\ Place' = 1
    BY <2>1, <2>2 DEF Place
  <2>5. QED
    BY <1>3, <2>3, <2>4
<1>16. CASE CloseContext
  BY <1>16 DEF CloseContext
<1>17. QED
  BY <1>4, <1>5, <1>6, <1>7, <1>9, <1>10, <1>12, <1>13, <1>14, <1>15, <1>16 DEF Step

\* Every call ends: each of its steps leaves it less to do.
THEOREM CallEndsHolds == Spec => CallEnds
<1>1. ASSUME Inv, Inv', [Next]_vars PROVE [pc # "out" /\ pc' # "out" => Work' < Work]_vars
  <2> SUFFICES ASSUME pc # "out", pc' # "out", Next PROVE Work' < Work
    BY <1>1
  <2>1. Step
    BY DEF Next, Write, Flush, ResetContext, Finish, Writable
  <2>2. /\ Work = Left + Place + Flags /\ Left \in Int /\ Flags \in 0 .. 2 /\ Place \in 1 .. 10
    BY <1>1, WorkParts DEF WorkI
  <2>3. /\ Work' = Left' + Place' + Flags' /\ Left' \in Int /\ Flags' \in 0 .. 2 /\ Place' \in 1 .. 10
    <3>1. WorkI'
      BY <1>1, WorkParts, PTL
    <3>2. QED
      BY <3>1 DEF WorkI
  <2>4. \/ Left' <= Left - 16
        \/ Left' = Left /\ Place' < Place /\ Flags' <= Flags
        \/ Left' = Left /\ Place' = Place /\ Flags' < Flags
        \/ Left' <= Left - 4 /\ Place' = Place /\ Flags' <= Flags + 1
    BY <1>1, <2>1, StepEnds
  <2>5. \A l, k \in Int : \A p, q \in 1 .. 10 : \A f, g \in 0 .. 2 :
           \/ k <= l - 16
           \/ k = l /\ q < p /\ g <= f
           \/ k = l /\ q = p /\ g < f
           \/ k <= l - 4 /\ q = p /\ g <= f + 1
           => k + q + g < l + p + f
    OBVIOUS
  <2>6. QED
    BY <2>2, <2>3, <2>4, <2>5
<1>2. QED
  BY <1>1, Invariance, PTL DEF Spec, CallEnds

-----------------------------------------------------------------------------
(* The batch encoder: what its items do to a decoder.                      *)

\* A decoder that has the first n bytes of src.
Has(r, src, n) ==
    /\ r \in Readers /\ r.ok /\ ~r.crossed /\ r.floor = 0
    /\ Len(r.plain) = n /\ Begins(r.plain, src)

\* Inside a block the items take a decoder from byte a of src to byte b.
InBlock(items, src, a, b) ==
    \A r \in Readers : Has(r, src, a) /\ r.block = "coded" =>
        /\ Has(Read(r, items), src, b) /\ Read(r, items).block = "coded"
        /\ Read(r, items).final = r.final /\ Read(r, items).done = r.done

\* They are whole blocks that take it there, the last of them marked as such if f.
AsBlocks(items, src, a, b, f) ==
    \A r \in Readers : Has(r, src, a) /\ r.block = "none" /\ ~r.done =>
        /\ Has(Read(r, items), src, b) /\ Read(r, items).block = "none"
        /\ Read(r, items).done = f

\* No items, no bytes.
LEMMA InBlockEmpty == ASSUME NEW src, NEW a PROVE InBlock(<<>>, src, a, a)
BY ReadEmpty DEF InBlock

\* One more item in a block.
LEMMA InBlockAppend ==
    ASSUME NEW src, NEW a, NEW b \in Nat, NEW n \in Nat, NEW items \in Seq(Items), NEW x \in Items,
           InBlock(items, src, a, b),
           \A s \in Readers : Has(s, src, b) /\ s.block = "coded" =>
               Longer(s, Decoded(s, x), n) /\ Begins(Decoded(s, x).plain, src)
    PROVE  Append(items, x) \in Seq(Items) /\ InBlock(Append(items, x), src, a, b + n)
<1>1. Append(items, x) \in Seq(Items)
  BY AppendProperties
<1>2. ASSUME NEW r \in Readers, Has(r, src, a), r.block = "coded"
      PROVE  /\ Has(Read(r, Append(items, x)), src, b + n) /\ Read(r, Append(items, x)).block = "coded"
             /\ Read(r, Append(items, x)).final = r.final /\ Read(r, Append(items, x)).done = r.done
  <2>1. PICK s \in Readers : s = Read(r, items)
    BY ReadType
  <2>2. Has(s, src, b) /\ s.block = "coded" /\ s.final = r.final /\ s.done = r.done
    BY <1>2, <2>1 DEF InBlock
  <2>3. PICK t \in Readers : t = Decoded(s, x)
    BY DecodedType
  <2>4. Read(r, Append(items, x)) = t
    BY <2>1, <2>3, ReadAppend
  <2>5. Longer(s, t, n) /\ Begins(t.plain, src)
    BY <2>2, <2>3
  <2>6. Has(t, src, b + n) /\ t.block = "coded" /\ t.final = s.final /\ t.done = s.done
    BY <2>2, <2>5 DEF Has, Longer
  <2>7. QED
    BY <2>2, <2>4, <2>6
<1>3. QED
  BY <1>1, <1>2 DEF InBlock

\* The literal of the next byte.
LEMMA InBlockLiteral ==
    ASSUME NEW src \in Seq(Byte), NEW a, NEW b \in Nat, b < Len(src), NEW items \in Seq(Items),
           InBlock(items, src, a, b)
    PROVE  /\ Append(items, Literal(src[b + 1])) \in Seq(Items)
           /\ InBlock(Append(items, Literal(src[b + 1])), src, a, b + 1)
<1>1. PICK c \in Nat : c = src[b + 1]
  <2>1. src[b + 1] \in Byte
    OBVIOUS
  <2>2. QED
    BY <2>1, Lz77Assumption
<1>2. Literal(c) \in Items
  BY DEF Literal, Items
<1>3. ASSUME NEW s \in Readers, Has(s, src, b), s.block = "coded"
      PROVE  Longer(s, Decoded(s, Literal(c)), 1) /\ Begins(Decoded(s, Literal(c)).plain, src)
  <2>1. s.ok /\ ~s.crossed /\ Begins(s.plain, src) /\ c = src[Len(s.plain) + 1]
    BY <1>1, <1>3 DEF Has
  <2>2. QED
    BY <1>3, <2>1, LiteralDecoded
<1> DEFINE x == Literal(c)
<1>4. x \in Items /\ \A s \in Readers : Has(s, src, b) /\ s.block = "coded" =>
          Longer(s, Decoded(s, x), 1) /\ Begins(Decoded(s, x).plain, src)
  BY <1>2, <1>3
<1> HIDE DEF x
<1>5. Append(items, x) \in Seq(Items) /\ InBlock(Append(items, x), src, a, b + 1)
  BY <1>4, InBlockAppend
<1>6. QED
  BY <1>1, <1>5 DEF x

\* A match at that byte.
LEMMA InBlockCopy ==
    ASSUME NEW src \in Seq(Byte), NEW a, NEW b \in Nat, NEW items \in Seq(Items),
           InBlock(items, src, a, b), NEW m, IsMatch(src, b, m)
    PROVE  /\ Append(items, Copy(m)) \in Seq(Items)
           /\ InBlock(Append(items, Copy(m)), src, a, b + m.len)
<1>1. m.len \in Nat /\ m.dist \in Nat \ {0} /\ m.dist <= b /\ m.dist <= MaxDistance
  <2>1. m.len \in MinMatch .. MaxMatch /\ m.dist \in 1 .. Window /\ m.dist <= b
    BY DEF IsMatch
  <2>2. QED
    BY <2>1, Lz77Assumption, DeflateEncAssumption
<1>2. Copy(m) \in Items
  BY <1>1 DEF Copy, Items
<1>3. Repeats(src, b, m.dist, m.len)
  BY DEF IsMatch, Repeats
<1>4. ASSUME NEW s \in Readers, Has(s, src, b), s.block = "coded"
      PROVE  Longer(s, Decoded(s, Copy(m)), m.len) /\ Begins(Decoded(s, Copy(m)).plain, src)
  <2>1. s.ok /\ ~s.crossed /\ Begins(s.plain, src) /\ Len(s.plain) = b /\ s.floor = 0
    BY <1>4 DEF Has
  <2>2. Repeats(src, Len(s.plain), m.dist, m.len)
    BY <1>3, <2>1
  <2>3. m.dist <= Len(s.plain) /\ Len(s.plain) - m.dist >= s.floor
    BY <1>1, <2>1
  <2>4. QED
    BY <1>1, <1>4, <2>1, <2>2, <2>3, MatchDecoded
<1> DEFINE x == Copy(m)
           n == m.len
<1>5. x \in Items /\ n \in Nat /\ \A s \in Readers : Has(s, src, b) /\ s.block = "coded" =>
          Longer(s, Decoded(s, x), n) /\ Begins(Decoded(s, x).plain, src)
  BY <1>1, <1>2, <1>4
<1> HIDE DEF x, n
<1>6. Append(items, x) \in Seq(Items) /\ InBlock(Append(items, x), src, a, b + n)
  BY <1>5, InBlockAppend
<1>7. QED
  BY <1>6 DEF x, n

\* A header in front and an end behind.
LEMMA BracketedBlocks ==
    ASSUME NEW src, NEW a, NEW b, NEW items \in Seq(Items), InBlock(items, src, a, b),
           NEW f \in BOOLEAN
    PROVE  /\ <<Block(f, "coded")>> \o items \o <<Eob>> \in Seq(Items)
           /\ AsBlocks(<<Block(f, "coded")>> \o items \o <<Eob>>, src, a, b, f)
<1> DEFINE h == <<Block(f, "coded")>>
<1>1. h \in Seq(Items) /\ <<Eob>> \in Seq(Items) /\ Block(f, "coded") \in Items /\ Eob \in Items
  BY BlocksWritten, SymbolsAreItems
<1>2. h \o items \in Seq(Items) /\ h \o items \o <<Eob>> \in Seq(Items)
  <2> HIDE DEF h
  <2>1. h \o items \in Seq(Items)
    BY <1>1, ConcatProperties
  <2>2. QED
    BY <1>1, <2>1, ConcatProperties
<1>3. ASSUME NEW r \in Readers, Has(r, src, a), r.block = "none", ~r.done
      PROVE  /\ Has(Read(r, h \o items \o <<Eob>>), src, b) /\ Read(r, h \o items \o <<Eob>>).block = "none"
             /\ Read(r, h \o items \o <<Eob>>).done = f
  <2>1. PICK s \in Readers : s = Read(r, h)
    BY <1>1, ReadType
  <2>2. s = [r EXCEPT !.block = "coded", !.final = f]
    <3>1. Read(r, h) = Decoded(r, Block(f, "coded"))
      BY <1>1, ReadOne
    <3>2. r.ok
      BY <1>3 DEF Has
    <3>3. Decoded(r, Block(f, "coded")) = [r EXCEPT !.block = "coded", !.final = f]
      BY <1>3, <3>2 DEF Decoded, Block, Readers
    <3>4. QED
      BY <2>1, <3>1, <3>3
  <2>3. Has(s, src, a) /\ s.block = "coded" /\ s.final = f /\ ~s.done
    BY <1>3, <2>2 DEF Has, Readers
  <2>4. PICK t \in Readers : t = Read(s, items)
    BY ReadType
  <2>5. Has(t, src, b) /\ t.block = "coded" /\ t.final = f
    BY <2>3, <2>4 DEF InBlock
  <2>6. Read(r, h \o items) = t
    <3> HIDE DEF h
    <3> QED
      BY <1>1, <2>1, <2>4, ReadConcat
  <2>7. Read(r, h \o items \o <<Eob>>) = Decoded(t, Eob)
    <3> HIDE DEF h
    <3> QED
      BY <1>1, <1>2, <2>6, ReadMore
  <2>8. Decoded(t, Eob) = [t EXCEPT !.block = "none", !.done = t.final]
    BY <2>5, EobDecoded DEF Has
  <2> DEFINE u == [t EXCEPT !.block = "none", !.done = t.final]
  <2>9. Has(u, src, b) /\ u.block = "none" /\ u.done = f
    BY <2>5 DEF Has, Readers
  <2> HIDE DEF u
  <2>10. Read(r, h \o items \o <<Eob>>) = u
    BY <2>7, <2>8 DEF u
  <2>11. QED
    BY <2>9, <2>10
<1>4. QED
  BY <1>2, <1>3 DEF AsBlocks

\* Blocks behind blocks.
LEMMA BlocksConcat ==
    ASSUME NEW src, NEW a, NEW b, NEW c, NEW f, NEW us \in Seq(Items), NEW vs \in Seq(Items),
           AsBlocks(us, src, a, b, FALSE), AsBlocks(vs, src, b, c, f)
    PROVE  us \o vs \in Seq(Items) /\ AsBlocks(us \o vs, src, a, c, f)
<1>1. us \o vs \in Seq(Items)
  BY ConcatProperties
<1>2. ASSUME NEW r \in Readers, Has(r, src, a), r.block = "none", ~r.done
      PROVE  /\ Has(Read(r, us \o vs), src, c) /\ Read(r, us \o vs).block = "none"
             /\ Read(r, us \o vs).done = f
  <2>1. PICK s \in Readers : s = Read(r, us)
    BY ReadType
  <2>2. Has(s, src, b) /\ s.block = "none" /\ ~s.done
    BY <1>2, <2>1 DEF AsBlocks
  <2>3. Read(r, us \o vs) = Read(s, vs)
    BY <2>1, ReadConcat
  <2>4. QED
    BY <2>2, <2>3 DEF AsBlocks
<1>3. QED
  BY <1>1, <1>2 DEF AsBlocks

\* No block yet.
LEMMA NoBlocks == ASSUME NEW src, NEW a PROVE AsBlocks(<<>>, src, a, a, FALSE)
<1>1. ASSUME NEW r \in Readers, ~r.done PROVE r.done = FALSE
  BY <1>1 DEF Readers
<1>2. QED
  BY <1>1, ReadEmpty DEF AsBlocks

\* The empty final block.
LEMMA MissingBlock ==
    ASSUME NEW src, NEW a, NEW sp
    PROVE  Missing(sp) \in Seq(Items) /\ AsBlocks(Missing(sp), src, a, a, TRUE)
<1>1. Block(TRUE, "coded") \in Items /\ Eob \in Items
  BY BlocksWritten, SymbolsAreItems
<1>2. <<Block(TRUE, "coded")>> \o <<>> = <<Block(TRUE, "coded")>>
  BY <1>1
<1>3. <<Block(TRUE, "coded")>> \o <<>> \o <<Eob>> = <<Block(TRUE, "coded"), Eob>>
  BY <1>1, <1>2, Pair, Zenon
<1>4. <<>> \in Seq(Items) /\ InBlock(<<>>, src, a, a)
  BY InBlockEmpty
<1>5. QED
  BY <1>3, <1>4, BracketedBlocks DEF Missing

-----------------------------------------------------------------------------
(* The batch encoder: a turn of its loop.                                  *)

\* The state of the loop with these parts, and what may be held in it.
Stand(sp, t, items, held) == [sp |-> sp, table |-> t, items |-> items, held |-> held]
Holdable == {NoMatch} \cup [len : MinMatch .. MaxMatch, dist : 1 .. Window]

\* Those are the states of the loop.
LEMMA StandType ==
    ASSUME NEW sp \in Nat, NEW t \in HashTables, NEW items \in Seq(Items), NEW held \in Holdable,
           held # NoMatch => sp > 0
    PROVE  /\ Stand(sp, t, items, held) \in Steps
           /\ Stand(sp, t, items, held).sp = sp /\ Stand(sp, t, items, held).table = t
           /\ Stand(sp, t, items, held).items = items /\ Stand(sp, t, items, held).held = held
<1>1. Stand(sp, t, items, held).held = held /\ Stand(sp, t, items, held).sp = sp
  BY DEF Stand
<1>2. Stand(sp, t, items, held) \in [sp : Nat, table : HashTables, items : Seq(Items), held : Holdable]
  BY DEF Stand
<1>3. QED
  BY <1>1, <1>2 DEF Steps, Holdable, Stand

\* Their parts, and what a held match is.
LEMMA StepParts ==
    ASSUME NEW s \in Steps
    PROVE  /\ s.sp \in Nat /\ s.table \in HashTables /\ s.items \in Seq(Items) /\ s.held \in Holdable
           /\ s = Stand(s.sp, s.table, s.items, s.held)
           /\ s.held # NoMatch => s.sp > 0 /\ s.held.len \in Nat \ {0}
<1>1. /\ s.sp \in Nat /\ s.table \in HashTables /\ s.items \in Seq(Items) /\ s.held \in Holdable
      /\ s = Stand(s.sp, s.table, s.items, s.held)
      /\ s.held # NoMatch => s.sp > 0
  BY DEF Steps, Holdable, Stand
<1>2. ASSUME s.held # NoMatch PROVE s.held.len \in Nat \ {0}
  <2>1. s.held.len \in MinMatch .. MaxMatch
    BY <1>1, <1>2 DEF Holdable
  <2>2. QED
    BY <2>1, Lz77Assumption
<1>3. QED
  BY <1>1, <1>2

\* What a match that was found is, as something to hold.
LEMMA MatchHeld ==
    ASSUME NEW w, NEW p \in Nat, NEW m, IsMatch(w, p, m)
    PROVE  m \in Holdable /\ m # NoMatch /\ m.len \in Nat \ {0} /\ p + m.len <= Len(w)
<1>1. m.len \in MinMatch .. MaxMatch /\ m.dist \in 1 .. Window /\ m = [len |-> m.len, dist |-> m.dist]
      /\ p + m.len <= Len(w)
  BY DEF IsMatch
<1>2. m.len \in Nat \ {0}
  BY <1>1, Lz77Assumption
<1>3. m # NoMatch
  BY <1>2 DEF NoMatch
<1>4. [len |-> m.len, dist |-> m.dist] \in [len : MinMatch .. MaxMatch, dist : 1 .. Window]
  BY <1>1
<1>5. m \in Holdable
  BY <1>1, <1>4, Zenon DEF Holdable
<1>6. QED
  BY <1>1, <1>2, <1>3, <1>5

\* The five ways a turn goes.
LEMMA TurnedCases ==
    ASSUME NEW src, NEW lazy \in BOOLEAN, NEW s \in Steps, NEW m, m.len \in Nat, NEW t
    PROVE  \/ /\ s.held # NoMatch /\ m.len > s.held.len
              /\ Turned(src, lazy, s, m, t)
                   = Stand(s.sp + 1, t, Append(s.items, Literal(src[s.sp])), m)
           \/ /\ s.held # NoMatch
              /\ Turned(src, lazy, s, m, t)
                   = Stand(s.sp - 1 + s.held.len, InsertAll(t, src, s.sp, s.sp - 1 + s.held.len),
                           Append(s.items, Copy(s.held)), NoMatch)
           \/ /\ s.held = NoMatch /\ m.len > 0 /\ lazy
              /\ Turned(src, lazy, s, m, t) = Stand(s.sp + 1, t, s.items, m)
           \/ /\ s.held = NoMatch /\ m.len > 0
              /\ Turned(src, lazy, s, m, t)
                   = Stand(s.sp + m.len, InsertAll(t, src, s.sp + 1, s.sp + m.len),
                           Append(s.items, Copy(m)), NoMatch)
           \/ /\ s.held = NoMatch /\ ~(m.len > 0)
              /\ Turned(src, lazy, s, m, t)
                   = Stand(s.sp + 1, t, Append(s.items, Literal(src[s.sp + 1])), NoMatch)
<1>1. PICK sp \in Nat, h \in HashTables, items \in Seq(Items), held \in Holdable :
        s = Stand(sp, h, items, held) /\ s.sp = sp /\ s.items = items /\ s.held = held
  BY StepParts
<1>2. held # NoMatch => held.len \in Nat
  BY <1>1, StepParts
<1>3. CASE held # NoMatch /\ m.len > held.len
  <2>1. Turned(src, lazy, s, m, t) = [s EXCEPT !.sp = @ + 1, !.table = t, !.held = m,
                                               !.items = Append(@, Literal(src[s.sp]))]
    BY <1>1, <1>2, <1>3 DEF Turned
  <2>2. QED
    BY <1>1, <1>3, <2>1 DEF Stand
<1>4. CASE held # NoMatch /\ m.len <= held.len
  <2>1. Turned(src, lazy, s, m, t)
          = [sp |-> s.sp - 1 + s.held.len, table |-> InsertAll(t, src, s.sp, s.sp - 1 + s.held.len),
             held |-> NoMatch, items |-> Append(s.items, Copy(s.held))]
    BY <1>1, <1>4 DEF Turned
  <2>2. QED
    BY <1>1, <1>4, <2>1 DEF Stand
<1>5. CASE held = NoMatch /\ m.len > 0 /\ lazy
  <2>1. Turned(src, lazy, s, m, t) = [s EXCEPT !.sp = @ + 1, !.table = t, !.held = m]
    BY <1>1, <1>5 DEF Turned
  <2>2. QED
    BY <1>1, <1>5, <2>1 DEF Stand
<1>6. CASE held = NoMatch /\ m.len > 0 /\ ~lazy
  <2>1. Turned(src, lazy, s, m, t) = [s EXCEPT !.sp = @ + m.len,
                                               !.table = InsertAll(t, src, s.sp + 1, s.sp + m.len),
                                               !.items = Append(@, Copy(m))]
    BY <1>1, <1>6 DEF Turned
  <2>2. QED
    BY <1>1, <1>6, <2>1 DEF Stand
<1>7. CASE held = NoMatch /\ ~(m.len > 0)
  <2>1. Turned(src, lazy, s, m, t) = [s EXCEPT !.sp = @ + 1, !.table = t,
                                               !.items = Append(@, Literal(src[s.sp + 1]))]
    BY <1>1, <1>7 DEF Turned
  <2>2. QED
    BY <1>1, <1>7, <2>1 DEF Stand
<1>8. QED
  BY <1>1, <1>2, <1>3, <1>4, <1>5, <1>6, <1>7

\* A turn gets on: by a byte at least, or the held match is written.
Forward(s, u) == u.sp > s.sp \/ (u.sp = s.sp /\ s.held # NoMatch /\ u.held = NoMatch)

\* It ends in a state of the loop, of any state that has not come to the end of the input.
LEMMA TurnedType ==
    ASSUME NEW src \in Seq(Byte), NEW lazy \in BOOLEAN, NEW s \in Steps, s.sp < Len(src),
           NEW m, m = NoMatch \/ IsMatch(src, s.sp, m), NEW t \in HashTables
    PROVE  Turned(src, lazy, s, m, t) \in Steps /\ Forward(s, Turned(src, lazy, s, m, t))
<1> DEFINE u == Turned(src, lazy, s, m, t)
<1> SUFFICES u \in Steps /\ Forward(s, u)
  OBVIOUS
<1>1. PICK sp \in Nat, items \in Seq(Items), held \in Holdable :
        s.sp = sp /\ s.items = items /\ s.held = held
  BY StepParts
<1>2. held # NoMatch => sp > 0 /\ held.len \in Nat \ {0}
  BY <1>1, StepParts
<1>3. /\ m.len \in Nat /\ m \in Holdable /\ (m.len > 0 => m # NoMatch)
      /\ (m # NoMatch => IsMatch(src, sp, m))
  BY <1>1, MatchHeld DEF NoMatch, Holdable
<1>4. ASSUME NEW k \in Nat, k < Len(src) PROVE Literal(src[k + 1]) \in Items
  <2>1. src[k + 1] \in Byte
    <3>1. k + 1 \in 1 .. Len(src)
      BY <1>4
    <3>2. QED
      BY <3>1
  <2>2. src[k + 1] \in Nat
    BY <2>1, Lz77Assumption
  <2>3. QED
    BY <2>2 DEF Literal, Items
<1>5. NoMatch \in Holdable
  BY DEF Holdable
<1>6. \/ held # NoMatch /\ m.len > held.len /\ u = Stand(sp + 1, t, Append(items, Literal(src[sp])), m)
      \/ /\ held # NoMatch
         /\ u = Stand(sp - 1 + held.len, InsertAll(t, src, sp, sp - 1 + held.len),
                      Append(items, Copy(held)), NoMatch)
      \/ held = NoMatch /\ m.len > 0 /\ u = Stand(sp + 1, t, items, m)
      \/ /\ held = NoMatch /\ m.len > 0
         /\ u = Stand(sp + m.len, InsertAll(t, src, sp + 1, sp + m.len), Append(items, Copy(m)), NoMatch)
      \/ held = NoMatch /\ ~(m.len > 0) /\ u = Stand(sp + 1, t, Append(items, Literal(src[sp + 1])), NoMatch)
  BY <1>1, <1>3, TurnedCases, SMTT(30)
<1> HIDE DEF u
<1>7. CASE /\ held # NoMatch /\ m.len > held.len
           /\ u = Stand(sp + 1, t, Append(items, Literal(src[sp])), m)
  <2>1. Literal(src[sp]) \in Items
    <3>1. sp - 1 \in Nat /\ sp - 1 < Len(src) /\ (sp - 1) + 1 = sp
      BY <1>1, <1>2, <1>7
    <3>2. QED
      BY <1>4, <3>1
  <2>2. Append(items, Literal(src[sp])) \in Seq(Items)
    BY <2>1, AppendProperties
  <2>3. u \in Steps /\ u.sp = sp + 1
    <3> DEFINE n == sp + 1
               xs == Append(items, Literal(src[sp]))
    <3>1. n \in Nat /\ xs \in Seq(Items) /\ u = Stand(n, t, xs, m)
      BY <1>7, <2>2
    <3>2. n = sp + 1
      OBVIOUS
    <3> HIDE DEF n, xs
    <3>3. QED
      BY <1>3, <1>7, <3>1, <3>2, StandType
  <2>4. QED
    BY <1>1, <2>3 DEF Forward
<1>8. CASE /\ held # NoMatch
           /\ u = Stand(sp - 1 + held.len, InsertAll(t, src, sp, sp - 1 + held.len),
                        Append(items, Copy(held)), NoMatch)
  <2>1. held.len \in Nat /\ held.dist \in Nat \ {0}
    BY <1>2, <1>8, Lz77Assumption DEF Holdable
  <2>2. Append(items, Copy(held)) \in Seq(Items)
    <3>1. Copy(held) \in Items
      BY <2>1 DEF Copy, Items
    <3>2. QED
      BY <3>1, AppendProperties
  <2>3. sp - 1 + held.len \in Nat /\ sp <= sp - 1 + held.len
    BY <1>2, <1>8
  <2>4. InsertAll(t, src, sp, sp - 1 + held.len) \in HashTables
    BY <2>3, InsertAllType
  <2>5. u \in Steps /\ u.sp = sp - 1 + held.len /\ u.held = NoMatch
    <3> DEFINE n == sp - 1 + held.len
               xs == Append(items, Copy(held))
               h == InsertAll(t, src, sp, sp - 1 + held.len)
    <3>1. n \in Nat /\ xs \in Seq(Items) /\ u = Stand(n, h, xs, NoMatch) /\ h \in HashTables
      BY <1>8, <2>2, <2>3, <2>4
    <3>2. n = sp - 1 + held.len
      OBVIOUS
    <3> HIDE DEF n, xs, h
    <3>3. QED
      BY <1>5, <3>1, <3>2, StandType
  <2>6. QED
    BY <1>1, <1>8, <2>3, <2>5 DEF Forward
<1>9. CASE held = NoMatch /\ m.len > 0 /\ u = Stand(sp + 1, t, items, m)
  <2>1. u \in Steps /\ u.sp = sp + 1
    BY <1>3, <1>9, StandType
  <2>2. QED
    BY <1>1, <2>1 DEF Forward
<1>10. CASE /\ held = NoMatch /\ m.len > 0
           /\ u = Stand(sp + m.len, InsertAll(t, src, sp + 1, sp + m.len), Append(items, Copy(m)), NoMatch)
  <2>1. m.dist \in Nat \ {0}
    BY <1>3, <1>10, Lz77Assumption DEF Holdable
  <2>2. Append(items, Copy(m)) \in Seq(Items)
    <3>1. Copy(m) \in Items
      BY <1>3, <2>1 DEF Copy, Items
    <3>2. QED
      BY <3>1, AppendProperties
  <2>3. sp + m.len \in Nat /\ sp + 1 \in Nat /\ sp + 1 <= sp + m.len
    BY <1>3, <1>10
  <2>4. InsertAll(t, src, sp + 1, sp + m.len) \in HashTables
    BY <2>3, InsertAllType
  <2>5. u \in Steps /\ u.sp = sp + m.len
    <3> DEFINE n == sp + m.len
               xs == Append(items, Copy(m))
               h == InsertAll(t, src, sp + 1, sp + m.len)
    <3>1. n \in Nat /\ xs \in Seq(Items) /\ u = Stand(n, h, xs, NoMatch) /\ h \in HashTables
      BY <1>10, <2>2, <2>3, <2>4
    <3>2. n = sp + m.len
      OBVIOUS
    <3> HIDE DEF n, xs, h
    <3>3. QED
      BY <1>5, <3>1, <3>2, StandType
  <2>6. QED
    BY <1>1, <2>3, <2>5 DEF Forward
<1>11. CASE held = NoMatch /\ u = Stand(sp + 1, t, Append(items, Literal(src[sp + 1])), NoMatch)
  <2>1. Literal(src[sp + 1]) \in Items
    BY <1>1, <1>4
  <2>2. Append(items, Literal(src[sp + 1])) \in Seq(Items)
    BY <2>1, AppendProperties
  <2>3. u \in Steps /\ u.sp = sp + 1
    <3> DEFINE n == sp + 1
               xs == Append(items, Literal(src[sp + 1]))
    <3>1. n \in Nat /\ xs \in Seq(Items) /\ u = Stand(n, t, xs, NoMatch)
      BY <1>11, <2>2
    <3>2. n = sp + 1
      OBVIOUS
    <3> HIDE DEF n, xs
    <3>3. QED
      BY <1>5, <3>1, <3>2, StandType
  <2>4. QED
    BY <1>1, <2>3 DEF Forward
<1>12. QED
  BY <1>7, <1>8, <1>9, <1>10, <1>11, <1>6

\* Up to where the items of s stand for the input: a held match is not among them.
Coded(s) == IF s.held = NoMatch THEN s.sp ELSE s.sp - 1

\* States the loop can be in that began a block at byte a of src.
Good(src, a) ==
    {s \in Steps :
        /\ s.sp <= Len(src)
        /\ s.held # NoMatch => IsMatch(src, s.sp - 1, s.held)
        /\ InBlock(s.items, src, a, Coded(s))}

\* A turn takes one to another.
LEMMA TurnedGood ==
    ASSUME NEW src \in Seq(Byte), NEW a \in Nat, NEW lazy \in BOOLEAN, NEW s \in Good(src, a), s.sp < Len(src),
           NEW m, m = NoMatch \/ IsMatch(src, s.sp, m), NEW t \in HashTables
    PROVE  Turned(src, lazy, s, m, t) \in Good(src, a)
<1> DEFINE u == Turned(src, lazy, s, m, t)
<1> SUFFICES u \in Good(src, a)
  OBVIOUS
<1>1. PICK sp \in Nat, items \in Seq(Items), held \in Holdable :
        s.sp = sp /\ s.items = items /\ s.held = held
  BY StepParts DEF Good
<1>2. /\ s \in Steps /\ (held # NoMatch => sp > 0 /\ held.len \in Nat \ {0} /\ IsMatch(src, sp - 1, held))
      /\ InBlock(items, src, a, IF held = NoMatch THEN sp ELSE sp - 1)
  BY <1>1, StepParts DEF Good, Coded
<1>3. /\ m.len \in Nat /\ m \in Holdable /\ (m.len > 0 => m # NoMatch)
      /\ (m # NoMatch => IsMatch(src, sp, m))
  BY <1>1, MatchHeld DEF NoMatch, Holdable
<1>4. u \in Steps
  BY <1>2, TurnedType
<1>5. NoMatch \in Holdable /\ Len(src) \in Nat
  BY DEF Holdable
<1>6. \/ held # NoMatch /\ m.len > held.len /\ u = Stand(sp + 1, t, Append(items, Literal(src[sp])), m)
      \/ /\ held # NoMatch
         /\ u = Stand(sp - 1 + held.len, InsertAll(t, src, sp, sp - 1 + held.len),
                      Append(items, Copy(held)), NoMatch)
      \/ held = NoMatch /\ m.len > 0 /\ u = Stand(sp + 1, t, items, m)
      \/ /\ held = NoMatch /\ m.len > 0
         /\ u = Stand(sp + m.len, InsertAll(t, src, sp + 1, sp + m.len), Append(items, Copy(m)), NoMatch)
      \/ held = NoMatch /\ ~(m.len > 0) /\ u = Stand(sp + 1, t, Append(items, Literal(src[sp + 1])), NoMatch)
  BY <1>1, <1>2, <1>3, TurnedCases, SMTT(30)
<1> HIDE DEF u
<1>7. CASE /\ held # NoMatch /\ m.len > held.len
           /\ u = Stand(sp + 1, t, Append(items, Literal(src[sp])), m)
  <2>1. u.sp = sp + 1 /\ u.items = Append(items, Literal(src[sp])) /\ u.held = m
    BY <1>7 DEF Stand
  <2>2. PICK b \in Nat : b = sp - 1
    BY <1>2, <1>7
  <2>3. b < Len(src) /\ b + 1 = sp /\ InBlock(items, src, a, b)
    BY <1>1, <1>2, <1>7, <2>2
  <2>4. InBlock(Append(items, Literal(src[b + 1])), src, a, b + 1)
    BY <2>3, InBlockLiteral
  <2>5. m # NoMatch /\ IsMatch(src, sp, m) /\ sp + 1 <= Len(src) /\ (sp + 1) - 1 = sp
    BY <1>1, <1>2, <1>3, <1>7
  <2>6. Coded(u) = sp
    BY <2>1, <2>5 DEF Coded
  <2>7. InBlock(u.items, src, a, Coded(u)) /\ IsMatch(src, u.sp - 1, u.held) /\ u.sp <= Len(src)
    BY <2>1, <2>3, <2>4, <2>5, <2>6
  <2>8. QED
    BY <1>4, <2>7 DEF Good
<1>8. CASE /\ held # NoMatch
           /\ u = Stand(sp - 1 + held.len, InsertAll(t, src, sp, sp - 1 + held.len),
                        Append(items, Copy(held)), NoMatch)
  <2>1. u.sp = sp - 1 + held.len /\ u.items = Append(items, Copy(held)) /\ u.held = NoMatch
    BY <1>8 DEF Stand
  <2>2. PICK b \in Nat : b = sp - 1
    BY <1>2, <1>8
  <2>3. IsMatch(src, b, held) /\ InBlock(items, src, a, b) /\ u.sp = b + held.len
    BY <1>2, <1>8, <2>1, <2>2
  <2>4. InBlock(Append(items, Copy(held)), src, a, b + held.len) /\ b + held.len <= Len(src)
    BY <2>3, InBlockCopy, MatchHeld
  <2>5. Coded(u) = u.sp
    BY <2>1 DEF Coded
  <2>6. InBlock(u.items, src, a, Coded(u)) /\ u.held = NoMatch /\ u.sp <= Len(src)
    BY <2>1, <2>3, <2>4, <2>5
  <2>7. QED
    BY <1>4, <2>6 DEF Good
<1>9. CASE held = NoMatch /\ m.len > 0 /\ u = Stand(sp + 1, t, items, m)
  <2>1. u.sp = sp + 1 /\ u.items = items /\ u.held = m
    BY <1>9 DEF Stand
  <2>2. m # NoMatch /\ IsMatch(src, sp, m) /\ sp + 1 <= Len(src) /\ (sp + 1) - 1 = sp
    BY <1>1, <1>3, <1>5, <1>9
  <2>3. Coded(u) = sp
    BY <2>1, <2>2 DEF Coded
  <2>4. InBlock(u.items, src, a, Coded(u)) /\ IsMatch(src, u.sp - 1, u.held) /\ u.sp <= Len(src)
    BY <1>2, <1>9, <2>1, <2>2, <2>3
  <2>5. QED
    BY <1>4, <2>4 DEF Good
<1>10. CASE /\ held = NoMatch /\ m.len > 0
           /\ u = Stand(sp + m.len, InsertAll(t, src, sp + 1, sp + m.len), Append(items, Copy(m)), NoMatch)
  <2>1. u.sp = sp + m.len /\ u.items = Append(items, Copy(m)) /\ u.held = NoMatch
    BY <1>10 DEF Stand
  <2>2. IsMatch(src, sp, m) /\ InBlock(items, src, a, sp)
    BY <1>2, <1>3, <1>10
  <2>3. InBlock(Append(items, Copy(m)), src, a, sp + m.len) /\ sp + m.len <= Len(src)
    BY <2>2, InBlockCopy, MatchHeld
  <2>4. Coded(u) = u.sp
    BY <2>1 DEF Coded
  <2>5. InBlock(u.items, src, a, Coded(u)) /\ u.held = NoMatch /\ u.sp <= Len(src)
    BY <2>1, <2>3, <2>4
  <2>6. QED
    BY <1>4, <2>5 DEF Good
<1>11. CASE held = NoMatch /\ u = Stand(sp + 1, t, Append(items, Literal(src[sp + 1])), NoMatch)
  <2>1. u.sp = sp + 1 /\ u.items = Append(items, Literal(src[sp + 1])) /\ u.held = NoMatch
    BY <1>11 DEF Stand
  <2>2. InBlock(items, src, a, sp) /\ sp < Len(src) /\ sp + 1 <= Len(src)
    BY <1>1, <1>2, <1>5, <1>11
  <2>3. InBlock(Append(items, Literal(src[sp + 1])), src, a, sp + 1)
    BY <2>2, InBlockLiteral
  <2>4. Coded(u) = u.sp
    BY <2>1 DEF Coded
  <2>5. InBlock(u.items, src, a, Coded(u)) /\ u.held = NoMatch /\ u.sp <= Len(src)
    BY <2>1, <2>2, <2>3, <2>4
  <2>6. QED
    BY <1>4, <2>5 DEF Good
<1>12. QED
  BY <1>7, <1>8, <1>9, <1>10, <1>11, <1>6

\* A turn, with the match it finds and the table it makes.
LEMMA TurnOf ==
    ASSUME NEW src \in Seq(Byte), NEW s \in Steps, s.sp < Len(src)
    PROVE  \E m : \E t \in HashTables :
              /\ m = NoMatch \/ IsMatch(src, s.sp, m)
              /\ \A lazy \in BOOLEAN : Turn(src, lazy, s) = Turned(src, lazy, s, m, t)
<1>1. s.sp \in Nat /\ s.table \in HashTables /\ s.sp <= Len(src) /\ s.sp + 1 \in Nat /\ s.sp <= s.sp + 1
  BY StepParts
<1>2. FindMatch(s.table, src, s.sp) = NoMatch \/ IsMatch(src, s.sp, FindMatch(s.table, src, s.sp))
  BY <1>1, MatchFound
<1>3. InsertAll(s.table, src, s.sp, s.sp + 1) \in HashTables
  BY <1>1, InsertAllType
<1>4. QED
  BY <1>2, <1>3 DEF Turn

\* What it makes of a state, and of a good one; without lazy matching nothing is held.
LEMMA TurnType ==
    ASSUME NEW src \in Seq(Byte), NEW lazy \in BOOLEAN, NEW s \in Steps, s.sp < Len(src)
    PROVE  /\ Turn(src, lazy, s) \in Steps /\ Forward(s, Turn(src, lazy, s))
           /\ \A a \in Nat : s \in Good(src, a) => Turn(src, lazy, s) \in Good(src, a)
           /\ s.held = NoMatch /\ ~lazy => Turn(src, lazy, s).held = NoMatch
<1>1. PICK m : \E t \in HashTables :
        (m = NoMatch \/ IsMatch(src, s.sp, m)) /\ Turn(src, lazy, s) = Turned(src, lazy, s, m, t)
  BY TurnOf
<1>2. PICK t \in HashTables :
        (m = NoMatch \/ IsMatch(src, s.sp, m)) /\ Turn(src, lazy, s) = Turned(src, lazy, s, m, t)
  BY <1>1
<1> DEFINE u == Turned(src, lazy, s, m, t)
<1>3. u \in Steps /\ Forward(s, u)
  BY <1>2, TurnedType
<1>4. ASSUME NEW a \in Nat, s \in Good(src, a) PROVE u \in Good(src, a)
  BY <1>2, <1>4, TurnedGood
<1>5. ASSUME s.held = NoMatch, ~lazy PROVE u.held = NoMatch
  <2>1. m.len \in Nat
    BY <1>2, StepParts, MatchHeld DEF NoMatch
  <2>2. \/ u = Stand(s.sp + m.len, InsertAll(t, src, s.sp + 1, s.sp + m.len),
                     Append(s.items, Copy(m)), NoMatch)
        \/ u = Stand(s.sp + 1, t, Append(s.items, Literal(src[s.sp + 1])), NoMatch)
    BY <1>5, <2>1, TurnedCases
  <2>3. QED
    BY <2>2 DEF Stand
<1>6. Turn(src, lazy, s) = u
  BY <1>2
<1> HIDE DEF u
<1>7. QED
  BY <1>3, <1>4, <1>5, <1>6

\* The loop as a recursion: how much there is to encode, and a held match to write.
Uncoded(n) ==
    [s \in Steps |-> IF s.sp < n THEN 2 * (n - s.sp) + (IF s.held = NoMatch THEN 0 ELSE 1) ELSE 0]
Turning(src, lazy) == [s \in Steps |-> Turn(src, lazy, s)]
Itself == [s \in Steps |-> s]

\* It ends, whatever else ends it.
LEMMA TurnsEnd ==
    ASSUME NEW src \in Seq(Byte), NEW lazy \in BOOLEAN, NEW go, go \subseteq Steps, \A s \in go : s.sp < Len(src)
    PROVE  Lowers(Steps, Uncoded(Len(src)), go, Turning(src, lazy))
<1> DEFINE n == Len(src)
<1>1. n \in Nat /\ \A s \in Steps : s.sp \in Nat
  BY StepParts
<1> HIDE DEF n
<1>2. Uncoded(n) \in [Steps -> Nat]
  BY <1>1 DEF Uncoded
<1>3. ASSUME NEW s \in go
      PROVE  Turning(src, lazy)[s] \in Steps /\ Uncoded(n)[Turning(src, lazy)[s]] < Uncoded(n)[s]
  <2>1. s \in Steps /\ s.sp < n /\ s.sp \in Nat
    BY <1>1, <1>3 DEF n
  <2>2. PICK u \in Steps : u = Turn(src, lazy, s) /\ Forward(s, u)
    BY <2>1, TurnType DEF n
  <2>3. Turning(src, lazy)[s] = u
    BY <2>1, <2>2 DEF Turning
  <2>4. Uncoded(n)[s] = 2 * (n - s.sp) + (IF s.held = NoMatch THEN 0 ELSE 1)
    BY <2>1 DEF Uncoded
  <2>5. Uncoded(n)[u] = IF u.sp < n THEN 2 * (n - u.sp) + (IF u.held = NoMatch THEN 0 ELSE 1) ELSE 0
    BY DEF Uncoded
  <2>6. u.sp \in Nat
    BY <1>1
  <2>7. Uncoded(n)[u] < Uncoded(n)[s]
    BY <1>1, <2>1, <2>2, <2>4, <2>5, <2>6 DEF Forward
  <2>8. QED
    BY <2>3, <2>7
<1>4. QED
  BY <1>2, <1>3 DEF Lowers, n

\* Where a run begins.
LEMMA AtGood ==
    ASSUME NEW src \in Seq(Byte), NEW sp \in Nat, sp <= Len(src), NEW t \in HashTables
    PROVE  /\ At(sp, t) \in Steps /\ At(sp, t) \in Good(src, sp)
           /\ At(sp, t).sp = sp /\ At(sp, t).held = NoMatch /\ At(sp, t).items = <<>>
           /\ At(sp, t).table = t
<1>1. At(sp, t) = Stand(sp, t, <<>>, NoMatch) /\ <<>> \in Seq(Items) /\ NoMatch \in Holdable
  BY DEF At, Stand, Holdable
<1>2. PICK u : u = At(sp, t)
  OBVIOUS
<1>3. u \in Steps /\ u.sp = sp /\ u.held = NoMatch /\ u.items = <<>> /\ u.table = t
  <2> DEFINE none == <<>>
             no == NoMatch
  <2>1. u = Stand(sp, t, none, no) /\ none \in Seq(Items) /\ no \in Holdable /\ ~(no # NoMatch)
    BY <1>1, <1>2
  <2> HIDE DEF none, no
  <2>2. u \in Steps /\ u.sp = sp /\ u.held = no /\ u.items = none /\ u.table = t
    BY <2>1, StandType
  <2>3. QED
    BY <2>2 DEF none, no
<1>4. InBlock(<<>>, src, sp, sp) /\ Coded(u) = sp
  BY <1>3, InBlockEmpty DEF Coded
<1>5. u \in Good(src, sp)
  BY <1>3, <1>4 DEF Good
<1>6. QED
  BY <1>2, <1>3, <1>5

\* The loop of the fixed path up to end.
Before(end) == {s \in Steps : ~(s.sp >= end)}

LEMMA FixedUnfolded ==
    ASSUME NEW src \in Seq(Byte), NEW lazy \in BOOLEAN, NEW end \in 0 .. Len(src)
    PROVE  \E from :
              /\ Lowers(Steps, Uncoded(Len(src)), Before(end), Turning(src, lazy))
              /\ IsTail(from, Steps, Before(end), Turning(src, lazy), Itself)
              /\ \A s, final : FixedChunk(src, s, end, final, lazy) = Bracketed(Settled(from[s]), final)
<1> DEFINE E(g) == g = [u \in Steps |-> IF u.sp >= end THEN u ELSE g[Turn(src, lazy, u)]]
           from == CHOOSE g : E(g)
           go == Before(end)
           step == Turning(src, lazy)
<1>1. \A g : IsTail(g, Steps, go, step, Itself) <=> E(g)
  <2> TAKE g
  <2>1. \A s \in Steps : (s \in go <=> ~(s.sp >= end)) /\ step[s] = Turn(src, lazy, s) /\ Itself[s] = s
    BY DEF Before, Turning, Itself
  <2> HIDE DEF go, step
  <2>2. [s \in Steps |-> IF s \in go THEN g[step[s]] ELSE Itself[s]]
        = [s \in Steps |-> IF s.sp >= end THEN s ELSE g[Turn(src, lazy, s)]]
    BY <2>1
  <2>3. QED
    BY <2>2 DEF IsTail
<1>2. Lowers(Steps, Uncoded(Len(src)), go, step)
  <2>1. go \subseteq Steps /\ \A s \in go : s.sp < Len(src)
    BY StepParts DEF Before
  <2> HIDE DEF go
  <2>2. QED
    BY <2>1, TurnsEnd
<1>3. \E g : E(g)
  <2> HIDE DEF go, step, E
  <2>1. \E g : IsTail(g, Steps, go, step, Itself)
    BY <1>2, TailRecursion
  <2>2. QED
    BY <1>1, <2>1
<1>4. E(from)
  BY <1>3, Zenon
<1>5. \A s, final : FixedChunk(src, s, end, final, lazy) = Bracketed(Settled(from[s]), final)
  BY DEF FixedChunk
<1>6. IsTail(from, Steps, go, step, Itself)
  BY <1>1, <1>4
<1>7. QED
  <2> HIDE DEF from, E
  <2>1. QED
    BY <1>2, <1>5, <1>6

\* A chunk: where it ends, the table, and what its items are to a decoder.
IsChunk(c, src, a, end, f) ==
    /\ c.sp \in Nat /\ end <= c.sp /\ c.sp <= Len(src)
    /\ c.table \in HashTables
    /\ c.items \in Seq(Items) /\ AsBlocks(c.items, src, a, c.sp, f)

\* A held match is written at the end.
LEMMA SettledGood ==
    ASSUME NEW src \in Seq(Byte), NEW a \in Nat, NEW s \in Good(src, a), NEW end \in Nat, end <= s.sp
    PROVE  /\ Settled(s).sp \in Nat /\ end <= Settled(s).sp /\ Settled(s).sp <= Len(src)
           /\ Settled(s).table \in HashTables
           /\ Settled(s).items \in Seq(Items) /\ InBlock(Settled(s).items, src, a, Settled(s).sp)
           /\ Settled(s) = Stand(Settled(s).sp, Settled(s).table, Settled(s).items, Settled(s).held)
<1>1. PICK sp \in Nat, t \in HashTables, items \in Seq(Items), held \in Holdable :
        s = Stand(sp, t, items, held) /\ s.sp = sp /\ s.items = items /\ s.held = held
  BY StepParts DEF Good
<1>2. /\ held # NoMatch => sp > 0 /\ held.len \in Nat \ {0} /\ IsMatch(src, sp - 1, held)
      /\ InBlock(items, src, a, IF held = NoMatch THEN sp ELSE sp - 1)
      /\ end <= sp /\ sp <= Len(src)
  BY <1>1, StepParts DEF Good, Coded
<1>3. CASE held = NoMatch
  <2>1. Settled(s) = Stand(sp, t, items, held)
    BY <1>1, <1>3 DEF Settled
  <2>2. QED
    BY <1>2, <1>3, <2>1 DEF Stand
<1>4. CASE held # NoMatch
  <2> DEFINE xs == Append(items, Copy(held))
             n == sp - 1 + held.len
  <2>1. Settled(s) = [s EXCEPT !.sp = @ - 1 + s.held.len, !.items = Append(@, Copy(s.held))]
    BY <1>1, <1>4 DEF Settled
  <2>2. Settled(s) = Stand(n, t, xs, held)
    BY <1>1, <2>1 DEF Stand
  <2>3. PICK b \in Nat : b = sp - 1
    BY <1>2, <1>4
  <2>4. IsMatch(src, b, held) /\ InBlock(items, src, a, b)
    BY <1>2, <1>4, <2>3
  <2>5. xs \in Seq(Items) /\ InBlock(xs, src, a, b + held.len) /\ b + held.len <= Len(src)
    BY <2>4, InBlockCopy, MatchHeld
  <2>6. n = b + held.len /\ n \in Nat /\ end <= n
    BY <1>2, <1>4, <2>3
  <2> HIDE DEF xs, n
  <2>7. /\ Settled(s).sp = n /\ Settled(s).table = t /\ Settled(s).items = xs
        /\ Settled(s) = Stand(Settled(s).sp, Settled(s).table, Settled(s).items, Settled(s).held)
    BY <2>2 DEF Stand
  <2>8. QED
    BY <2>5, <2>6, <2>7
<1>5. QED
  BY <1>3, <1>4

\* The block around it.
LEMMA BracketedChunk ==
    ASSUME NEW src, NEW a \in Nat, NEW end \in Nat, NEW f \in BOOLEAN, NEW s,
           s = Stand(s.sp, s.table, s.items, s.held),
           s.sp \in Nat, end <= s.sp, s.sp <= Len(src), s.table \in HashTables,
           s.items \in Seq(Items), InBlock(s.items, src, a, s.sp)
    PROVE  IsChunk(Bracketed(s, f), src, a, end, f)
<1> DEFINE xs == <<Block(f, "coded")>> \o s.items \o <<Eob>>
<1>1. xs \in Seq(Items) /\ AsBlocks(xs, src, a, s.sp, f)
  BY BracketedBlocks
<1>2. Bracketed(s, f) = [s EXCEPT !.items = xs]
  BY DEF Bracketed
<1> HIDE DEF xs
<1>3. Bracketed(s, f).sp = s.sp /\ Bracketed(s, f).table = s.table /\ Bracketed(s, f).items = xs
  BY <1>2 DEF Stand
<1>4. QED
  BY <1>1, <1>3 DEF IsChunk

\* A chunk of the fixed path.
LEMMA FixedChunkEnds ==
    ASSUME NEW src \in Seq(Byte), NEW lazy \in BOOLEAN, NEW end \in 0 .. Len(src), NEW f \in BOOLEAN,
           NEW sp \in Nat, sp <= Len(src), NEW t \in HashTables
    PROVE  IsChunk(FixedChunk(src, At(sp, t), end, f, lazy), src, sp, end, f)
<1> DEFINE I == Good(src, sp)
           go == Before(end)
           step == Turning(src, lazy)
           first == At(sp, t)
<1>1. PICK from :
        /\ Lowers(Steps, Uncoded(Len(src)), go, step) /\ IsTail(from, Steps, go, step, Itself)
        /\ \A s, final : FixedChunk(src, s, end, final, lazy) = Bracketed(Settled(from[s]), final)
  BY FixedUnfolded
<1>2. first \in I
  BY AtGood
<1>3. I \subseteq Steps
  BY DEF Good
<1>4. ASSUME NEW s \in I, s \in go PROVE step[s] \in I
  <2>1. s \in Steps /\ s.sp < Len(src)
    BY <1>3, <1>4, StepParts DEF Before
  <2>2. step[s] = Turn(src, lazy, s)
    BY <2>1 DEF Turning
  <2>3. QED
    BY <1>4, <2>1, <2>2, TurnType
<1>5. \A s \in I : \E u \in I : u \notin go /\ from[s] = Itself[u]
  <2> HIDE DEF I, go, step
  <2> QED
    BY <1>1, <1>3, <1>4, TailEnds
<1>6. PICK u \in I : u \notin go /\ from[first] = Itself[u]
  BY <1>2, <1>5
<1>7. u \in Steps /\ u.sp >= end /\ Itself[u] = u
  BY <1>3, <1>6 DEF Before, Itself
<1>8. PICK v : v = Settled(u)
  OBVIOUS
<1>9. /\ v.sp \in Nat /\ end <= v.sp /\ v.sp <= Len(src) /\ v.table \in HashTables
      /\ v.items \in Seq(Items) /\ InBlock(v.items, src, sp, v.sp)
      /\ v = Stand(v.sp, v.table, v.items, v.held)
  <2>1. end <= u.sp /\ end \in Nat
    BY <1>7, StepParts
  <2>2. QED
    BY <1>8, <2>1, SettledGood
<1>10. IsChunk(Bracketed(v, f), src, sp, end, f)
  BY <1>9, BracketedChunk
<1>11. FixedChunk(src, first, end, f, lazy) = Bracketed(v, f)
  BY <1>1, <1>6, <1>7, <1>8
<1>12. QED
  BY <1>10, <1>11

\* The loop of the dynamic path up to end, or a full buffer.
Filling(end) == {s \in Steps : ~(s.sp >= end \/ SlotsOf(s.items) >= SymMax - 3)}

LEMMA SubBlockUnfolded ==
    ASSUME NEW src \in Seq(Byte), NEW end \in 0 .. Len(src)
    PROVE  \E from :
              /\ Lowers(Steps, Uncoded(Len(src)), Filling(end), Turning(src, FALSE))
              /\ IsTail(from, Steps, Filling(end), Turning(src, FALSE), Itself)
              /\ \A s : SubBlock(src, s, end) = from[s]
<1> DEFINE E(g) == g = [u \in Steps |-> IF u.sp >= end \/ SlotsOf(u.items) >= SymMax - 3 THEN u
                                        ELSE g[Turn(src, FALSE, u)]]
           from == CHOOSE g : E(g)
           go == Filling(end)
           step == Turning(src, FALSE)
<1>1. \A g : IsTail(g, Steps, go, step, Itself) <=> E(g)
  <2> TAKE g
  <2>1. \A s \in Steps : /\ s \in go <=> ~(s.sp >= end \/ SlotsOf(s.items) >= SymMax - 3)
                         /\ step[s] = Turn(src, FALSE, s) /\ Itself[s] = s
    BY DEF Filling, Turning, Itself
  <2> HIDE DEF go, step
  <2>2. [s \in Steps |-> IF s \in go THEN g[step[s]] ELSE Itself[s]]
        = [s \in Steps |-> IF s.sp >= end \/ SlotsOf(s.items) >= SymMax - 3 THEN s
                           ELSE g[Turn(src, FALSE, s)]]
    BY <2>1
  <2>3. QED
    BY <2>2 DEF IsTail
<1>2. Lowers(Steps, Uncoded(Len(src)), go, step)
  <2>1. go \subseteq Steps /\ \A s \in go : s.sp < Len(src)
    BY StepParts DEF Filling
  <2> HIDE DEF go
  <2>2. QED
    BY <2>1, TurnsEnd
<1>3. \E g : E(g)
  <2> HIDE DEF go, step, E
  <2>1. \E g : IsTail(g, Steps, go, step, Itself)
    BY <1>2, TailRecursion
  <2>2. QED
    BY <1>1, <2>1
<1>4. E(from)
  BY <1>3, Zenon
<1>5. \A s : SubBlock(src, s, end) = from[s]
  BY DEF SubBlock
<1>6. IsTail(from, Steps, go, step, Itself)
  BY <1>1, <1>4
<1>7. QED
  <2> HIDE DEF from, E
  <2>1. QED
    BY <1>2, <1>5, <1>6

\* The symbols of a block; there is one at least, before end.
LEMMA SubBlockEnds ==
    ASSUME NEW src \in Seq(Byte), NEW end \in 0 .. Len(src),
           NEW sp \in Nat, sp <= Len(src), NEW t \in HashTables
    PROVE  /\ SubBlock(src, At(sp, t), end) \in Good(src, sp)
           /\ SubBlock(src, At(sp, t), end).held = NoMatch
           /\ sp < end => SubBlock(src, At(sp, t), end).sp > sp
<1> DEFINE first == At(sp, t)
           I == {s \in Good(src, sp) : s.held = NoMatch /\ (s = first \/ s.sp > sp)}
           go == Filling(end)
           step == Turning(src, FALSE)
<1>1. PICK from :
        /\ Lowers(Steps, Uncoded(Len(src)), go, step) /\ IsTail(from, Steps, go, step, Itself)
        /\ \A s : SubBlock(src, s, end) = from[s]
  BY SubBlockUnfolded
<1>2. first \in I /\ first.sp = sp /\ first.items = <<>>
  <2>1. first \in Good(src, sp) /\ first.held = NoMatch /\ first.sp = sp /\ first.items = <<>>
    BY AtGood
  <2> HIDE DEF first
  <2>2. QED
    BY <2>1
<1> HIDE DEF first
<1>3. I \subseteq Steps
  BY DEF Good
<1>4. ASSUME NEW s \in I, s \in go PROVE step[s] \in I
  <2>1. s \in Steps /\ s.sp < Len(src) /\ s.held = NoMatch /\ s.sp >= sp /\ s.sp \in Nat
    BY <1>2, <1>3, <1>4, StepParts DEF Filling
  <2>2. PICK u : u = Turn(src, FALSE, s)
    OBVIOUS
  <2>3. u \in Steps /\ Forward(s, u) /\ u \in Good(src, sp) /\ u.held = NoMatch
    BY <1>4, <2>1, <2>2, TurnType
  <2>4. u.sp \in Nat /\ u.sp > sp
    BY <2>1, <2>3, StepParts DEF Forward
  <2>5. step[s] = u
    BY <2>1, <2>2 DEF Turning
  <2>6. QED
    BY <2>3, <2>4, <2>5
<1>5. \A s \in I : \E u \in I : u \notin go /\ from[s] = Itself[u]
  <2> HIDE DEF I, go, step
  <2> QED
    BY <1>1, <1>3, <1>4, TailEnds
<1>6. PICK u \in I : u \notin go /\ from[first] = Itself[u]
  BY <1>2, <1>5
<1>7. u \in Steps /\ Itself[u] = u /\ u \in Good(src, sp) /\ u.held = NoMatch
  BY <1>3, <1>6 DEF Itself
<1>8. ASSUME sp < end PROVE u.sp > sp
  <2>1. u.sp >= end \/ SlotsOf(u.items) >= SymMax - 3
    BY <1>6, <1>7 DEF Filling
  <2>2. CASE u = first
    <3>1. SlotsOf(u.items) = 0
      BY <1>2, <2>2, NoSlots
    <3>2. SymMax \in Nat /\ SymMax > 5
      BY DeflateEncAssumption
    <3>3. u.sp = sp
      BY <1>2, <2>2
    <3>4. QED
      BY <1>8, <2>1, <3>1, <3>2, <3>3
  <2>3. QED
    BY <1>6, <2>2
<1>9. SubBlock(src, first, end) = u
  BY <1>1, <1>6, <1>7
<1>10. QED
  BY <1>7, <1>8, <1>9 DEF first

\* The loop over the blocks of a chunk of the dynamic path.
Fills == [block : Steps, written : Seq(Items)]
Unfilled(end) == {d \in Fills : ~(d.block.sp >= end)}
Unwritten(end) == [d \in Fills |-> IF d.block.sp >= end THEN 0 ELSE end - d.block.sp]
AllOf(d, f) == d.written \o Bracketed(d.block, f).items
NextFill(src, d, end) ==
    [block |-> SubBlock(src, At(d.block.sp, d.block.table), end), written |-> AllOf(d, FALSE)]
Refilling(src, end) == [d \in Fills |-> NextFill(src, d, end)]
Filled(f) == [d \in Fills |-> [d.block EXCEPT !.items = AllOf(d, f)]]

\* Its block, bracketed, are items.
LEMMA AllOfType ==
    ASSUME NEW d \in Fills, NEW f \in BOOLEAN
    PROVE  /\ AllOf(d, f) \in Seq(Items) /\ d.written \in Seq(Items) /\ d.block \in Steps
           /\ Bracketed(d.block, f).items = <<Block(f, "coded")>> \o d.block.items \o <<Eob>>
           /\ Bracketed(d.block, f).items \in Seq(Items)
<1>1. d.written \in Seq(Items) /\ d.block \in Steps
  BY DEF Fills
<1>2. PICK u \in Steps : u = d.block
  BY <1>1
<1>3. u.items \in Seq(Items) /\ u = Stand(u.sp, u.table, u.items, u.held)
  BY StepParts
<1> DEFINE h == <<Block(f, "coded")>>
           xs == h \o u.items \o <<Eob>>
<1>4. xs \in Seq(Items)
  <2>1. h \in Seq(Items) /\ <<Eob>> \in Seq(Items)
    BY BlocksWritten, SymbolsAreItems
  <2> HIDE DEF h
  <2>2. h \o u.items \in Seq(Items)
    BY <1>3, <2>1, ConcatProperties
  <2>3. QED
    BY <2>1, <2>2, ConcatProperties
<1>5. Bracketed(u, f) = [u EXCEPT !.items = xs]
  BY DEF Bracketed
<1>6. xs = <<Block(f, "coded")>> \o u.items \o <<Eob>>
  OBVIOUS
<1> HIDE DEF xs
<1>7. Bracketed(u, f).items = xs
  BY <1>3, <1>5 DEF Stand
<1>8. AllOf(d, f) = d.written \o xs
  BY <1>2, <1>7 DEF AllOf
<1>9. d.written \o xs \in Seq(Items)
  BY <1>1, <1>4, ConcatProperties
<1>10. QED
  BY <1>1, <1>2, <1>4, <1>6, <1>7, <1>8, <1>9

\* It ends: a block encodes a byte at least.
LEMMA FillsEnd ==
    ASSUME NEW src \in Seq(Byte), NEW end \in 0 .. Len(src)
    PROVE  Lowers(Fills, Unwritten(end), Unfilled(end), Refilling(src, end))
<1>1. \A d \in Fills : d.block \in Steps /\ d.block.sp \in Nat /\ d.block.table \in HashTables
  BY StepParts DEF Fills
<1>2. Unwritten(end) \in [Fills -> Nat]
  BY <1>1 DEF Unwritten
<1>3. Unfilled(end) \subseteq Fills
  BY DEF Unfilled
<1>4. ASSUME NEW d \in Unfilled(end)
      PROVE  /\ Refilling(src, end)[d] \in Fills
             /\ Unwritten(end)[Refilling(src, end)[d]] < Unwritten(end)[d]
  <2>1. d \in Fills /\ d.block.sp < end /\ d.block.sp \in Nat /\ d.block.table \in HashTables
    BY <1>1 DEF Unfilled
  <2>2. PICK u : u = SubBlock(src, At(d.block.sp, d.block.table), end)
    OBVIOUS
  <2>3. u \in Steps /\ u.sp > d.block.sp /\ u.sp \in Nat
    <3>1. d.block.sp <= Len(src)
      BY <2>1
    <3>2. u \in Good(src, d.block.sp) /\ u.sp > d.block.sp
      BY <2>1, <2>2, <3>1, SubBlockEnds
    <3>3. u \in Steps
      BY <3>2 DEF Good
    <3>4. QED
      BY <3>2, <3>3, StepParts
  <2>4. PICK e : e = NextFill(src, d, end)
    OBVIOUS
  <2>5. e \in Fills /\ e.block = u
    <3>1. AllOf(d, FALSE) \in Seq(Items)
      BY <2>1, AllOfType
    <3>2. QED
      BY <2>2, <2>3, <2>4, <3>1 DEF NextFill, Fills
  <2>6. Refilling(src, end)[d] = e
    BY <2>1, <2>4 DEF Refilling
  <2>7. Unwritten(end)[e] < Unwritten(end)[d]
    BY <2>1, <2>3, <2>5 DEF Unwritten
  <2>8. QED
    BY <2>5, <2>6, <2>7
<1>5. QED
  BY <1>2, <1>3, <1>4 DEF Lowers

LEMMA DynamicUnfolded ==
    ASSUME NEW src \in Seq(Byte), NEW end \in 0 .. Len(src), NEW f \in BOOLEAN
    PROVE  \E from :
              /\ IsTail(from, Fills, Unfilled(end), Refilling(src, end), Filled(f))
              /\ \A s : DynamicChunk(src, s, end, f)
                          = from[[block |-> SubBlock(src, s, end), written |-> <<>>]]
<1> DEFINE F(g, d) == LET u == d.block
                          all(last) == d.written \o Bracketed(u, last).items
                      IN  IF u.sp >= end THEN [u EXCEPT !.items = all(f)]
                          ELSE g[[block |-> SubBlock(src, At(u.sp, u.table), end), written |-> all(FALSE)]]
           E(g) == g = [d \in [block : Steps, written : Seq(Items)] |-> F(g, d)]
           from == CHOOSE g : E(g)
           go == Unfilled(end)
           step == Refilling(src, end)
           res == Filled(f)
<1>1. \A g : IsTail(g, Fills, go, step, res) <=> E(g)
  <2> TAKE g
  <2>1. ASSUME NEW d \in Fills PROVE F(g, d) = IF d \in go THEN g[step[d]] ELSE res[d]
    <3>1. F(g, d) = IF d.block.sp >= end THEN [d.block EXCEPT !.items = AllOf(d, f)]
                    ELSE g[NextFill(src, d, end)]
      BY DEF AllOf, NextFill
    <3>2. (d \in go <=> ~(d.block.sp >= end)) /\ step[d] = NextFill(src, d, end)
          /\ res[d] = [d.block EXCEPT !.items = AllOf(d, f)]
      BY DEF Unfilled, Refilling, Filled
    <3> HIDE DEF F, go, step, res
    <3>3. QED
      BY <3>1, <3>2
  <2> HIDE DEF F, go, step, res
  <2>2. [d \in Fills |-> IF d \in go THEN g[step[d]] ELSE res[d]] = [d \in Fills |-> F(g, d)]
    BY <2>1
  <2>3. QED
    BY <2>2, Zenon DEF IsTail, Fills
<1>2. Lowers(Fills, Unwritten(end), go, step)
  BY FillsEnd
<1>3. \E g : E(g)
  <2> HIDE DEF go, step, res, E
  <2>1. \E g : IsTail(g, Fills, go, step, res)
    BY <1>2, TailRecursion
  <2>2. QED
    BY <1>1, <2>1
<1>4. E(from)
  <2> HIDE DEF E
  <2> QED
    BY <1>3, Zenon
<1>5. \A s : DynamicChunk(src, s, end, f) = from[[block |-> SubBlock(src, s, end), written |-> <<>>]]
  BY DEF DynamicChunk
<1>6. IsTail(from, Fills, go, step, res)
  <2> HIDE DEF from, E, go, step, res
  <2> QED
    BY <1>1, <1>4
<1>7. QED
  <2> HIDE DEF from, E
  <2>1. QED
    BY <1>5, <1>6

\* The blocks written so far and the symbols of the one in hand, in a chunk that began at byte a.
Midway(src, a) ==
    {d \in Fills :
        /\ d.block.held = NoMatch
        /\ \E b \in Nat : AsBlocks(d.written, src, a, b, FALSE) /\ d.block \in Good(src, b)}

\* All of it as blocks.
LEMMA AllOfBlocks ==
    ASSUME NEW src, NEW a \in Nat, NEW d \in Midway(src, a), NEW f \in BOOLEAN
    PROVE  AsBlocks(AllOf(d, f), src, a, d.block.sp, f) /\ d.block.sp <= Len(src)
<1>1. PICK b \in Nat : AsBlocks(d.written, src, a, b, FALSE) /\ d.block \in Good(src, b)
  BY DEF Midway
<1>2. PICK u \in Steps : u = d.block
  BY <1>1 DEF Good
<1>3. u.held = NoMatch /\ u.sp <= Len(src) /\ InBlock(u.items, src, b, u.sp) /\ u.items \in Seq(Items)
  BY <1>1, <1>2, StepParts DEF Good, Coded, Midway
<1>4. PICK xs : xs = <<Block(f, "coded")>> \o u.items \o <<Eob>>
  OBVIOUS
<1>5. xs \in Seq(Items) /\ AsBlocks(xs, src, b, u.sp, f)
  BY <1>3, <1>4, BracketedBlocks
<1>6. d \in Fills /\ d.written \in Seq(Items) /\ AllOf(d, f) = d.written \o xs
  <2>1. d \in Fills
    BY DEF Midway
  <2>2. d.written \in Seq(Items) /\ Bracketed(d.block, f).items = xs
    BY <1>2, <1>4, <2>1, AllOfType
  <2>3. QED
    BY <2>1, <2>2 DEF AllOf
<1>7. PICK ws \in Seq(Items) : ws = d.written
  BY <1>6
<1>8. AsBlocks(ws \o xs, src, a, u.sp, f)
  <2>1. AsBlocks(ws, src, a, b, FALSE)
    BY <1>1, <1>7
  <2>2. PICK n, vs : n = u.sp /\ vs = xs
    OBVIOUS
  <2>3. vs \in Seq(Items) /\ AsBlocks(vs, src, b, n, f)
    BY <1>5, <2>2
  <2>4. ws \o vs \in Seq(Items) /\ AsBlocks(ws \o vs, src, a, n, f)
    BY <2>1, <2>3, BlocksConcat
  <2>5. QED
    BY <2>2, <2>4
<1>9. QED
  BY <1>2, <1>3, <1>6, <1>7, <1>8

\* A chunk of the dynamic path.
LEMMA DynamicChunkEnds ==
    ASSUME NEW src \in Seq(Byte), NEW end \in 0 .. Len(src), NEW f \in BOOLEAN,
           NEW sp \in Nat, sp <= Len(src), NEW t \in HashTables
    PROVE  IsChunk(DynamicChunk(src, At(sp, t), end, f), src, sp, end, f)
<1> DEFINE I == Midway(src, sp)
           go == Unfilled(end)
           step == Refilling(src, end)
           res == Filled(f)
           first == [block |-> SubBlock(src, At(sp, t), end), written |-> <<>>]
<1>1. PICK from :
        /\ IsTail(from, Fills, go, step, res)
        /\ \A s : DynamicChunk(src, s, end, f) = from[[block |-> SubBlock(src, s, end), written |-> <<>>]]
  BY DynamicUnfolded
<1>2. Lowers(Fills, Unwritten(end), go, step)
  BY FillsEnd
<1>3. first \in I
  <2>1. PICK u : u = SubBlock(src, At(sp, t), end)
    OBVIOUS
  <2>2. u \in Good(src, sp) /\ u.held = NoMatch
    BY <2>1, SubBlockEnds
  <2>3. AsBlocks(<<>>, src, sp, sp, FALSE)
    BY NoBlocks
  <2>4. first \in Fills
    BY <2>1, <2>2 DEF Fills, Good
  <2>5. first.block = u /\ first.written = <<>>
    BY <2>1
  <2> HIDE DEF first
  <2>6. QED
    BY <2>2, <2>3, <2>4, <2>5 DEF Midway
<1>4. I \subseteq Fills
  BY DEF Midway
<1>5. ASSUME NEW d \in I, d \in go PROVE step[d] \in I
  <2>1. d \in Fills /\ d.block.sp < end /\ d.block.sp \in Nat /\ d.block.table \in HashTables
    BY <1>5, StepParts DEF Unfilled, Fills
  <2>2. PICK b \in Nat, h \in HashTables : b = d.block.sp /\ h = d.block.table
    BY <2>1
  <2>3. b <= Len(src)
    BY <2>1, <2>2
  <2>4. PICK u : u = SubBlock(src, At(b, h), end)
    OBVIOUS
  <2>5. u \in Good(src, b) /\ u.held = NoMatch
    BY <2>3, <2>4, SubBlockEnds
  <2>6. PICK e : e = NextFill(src, d, end)
    OBVIOUS
  <2>7. e = [block |-> u, written |-> AllOf(d, FALSE)]
    BY <2>2, <2>4, <2>6 DEF NextFill
  <2>8. step[d] = e
    BY <2>1, <2>6 DEF Refilling
  <2>9. step[d] \in Fills
    BY <1>2, <1>5 DEF Lowers
  <2>10. AsBlocks(AllOf(d, FALSE), src, sp, b, FALSE)
    BY <1>5, <2>2, AllOfBlocks
  <2>11. e.block = u /\ e.written = AllOf(d, FALSE) /\ e \in Fills
    BY <2>7, <2>8, <2>9
  <2>12. e \in I
    BY <2>5, <2>10, <2>11 DEF Midway
  <2>13. QED
    BY <2>8, <2>12
<1>6. \A s \in I : \E u \in I : u \notin go /\ from[s] = res[u]
  <2> HIDE DEF I, go, step, res
  <2> QED
    BY <1>1, <1>2, <1>4, <1>5, TailEnds
<1> HIDE DEF first
<1>7. PICK d \in I : d \notin go /\ from[first] = res[d]
  BY <1>3, <1>6
<1>8. d \in Fills /\ d.block.sp >= end /\ res[d] = [d.block EXCEPT !.items = AllOf(d, f)]
  BY <1>4, <1>7 DEF Unfilled, Filled
<1>9. AsBlocks(AllOf(d, f), src, sp, d.block.sp, f) /\ d.block.sp <= Len(src)
  BY AllOfBlocks
<1>10. PICK u \in Steps, xs \in Seq(Items) : u = d.block /\ xs = AllOf(d, f)
  BY <1>8, AllOfType
<1>11. u.sp \in Nat /\ u.table \in HashTables /\ u = Stand(u.sp, u.table, u.items, u.held)
  BY StepParts
<1>12. PICK c : c = [u EXCEPT !.items = xs]
  OBVIOUS
<1>13. c.sp = u.sp /\ c.table = u.table /\ c.items = xs
  BY <1>11, <1>12 DEF Stand
<1>14. IsChunk(c, src, sp, end, f)
  BY <1>8, <1>9, <1>10, <1>11, <1>13 DEF IsChunk
<1>15. DynamicChunk(src, At(sp, t), end, f) = c
  BY <1>1, <1>7, <1>8, <1>10, <1>12 DEF first
<1>16. QED
  BY <1>14, <1>15

\* A chunk, on any path.
LEMMA ChunkEnds ==
    ASSUME NEW src \in Seq(Byte), NEW f \in BOOLEAN, NEW dynamic \in BOOLEAN, NEW lazy \in BOOLEAN,
           NEW sp \in Nat, sp <= Len(src), NEW t \in HashTables
    PROVE  \E end \in 0 .. Len(src) :
              /\ end = sp + BlockSize \/ (end = Len(src) /\ Len(src) <= sp + BlockSize)
              /\ IsChunk(Chunk(src, At(sp, t), f, dynamic, lazy), src, sp, end, f)
<1> DEFINE L == Len(src)
           far == sp + BlockSize
<1>1. L \in Nat /\ far \in Nat
  BY DeflateBatchAssumption
<1>2. PICK end : end = Min({far, L})
  OBVIOUS
<1>3. end \in 0 .. L /\ (end = far \/ (end = L /\ L <= far))
  <2> HIDE DEF L, far
  <2>1. L \in Int /\ far \in Int
    BY <1>1
  <2>2. end \in {far, L} /\ end <= far /\ end <= L
    BY <1>2, <2>1, MinOfTwo
  <2>3. QED
    BY <1>1, <2>2
<1>4. Chunk(src, At(sp, t), f, dynamic, lazy)
        = IF dynamic THEN DynamicChunk(src, At(sp, t), end, f) ELSE FixedChunk(src, At(sp, t), end, f, lazy)
  BY <1>2 DEF Chunk, At
<1>5. CASE dynamic
  BY <1>3, <1>4, <1>5, DynamicChunkEnds
<1>6. CASE ~dynamic
  BY <1>3, <1>4, <1>6, FixedChunkEnds
<1>7. QED
  BY <1>5, <1>6

\* The loop over the chunks.
LastChunk(src, s) == s.sp + BlockSize >= Len(src)
Beyond(src, s)    == s.sp >= Len(src) /\ s.sp # 0
ChunkAt(src, s, dynamic, lazy) == Chunk(src, At(s.sp, s.table), LastChunk(src, s), dynamic, lazy)
AfterChunk(src, s, dynamic, lazy) ==
    LET c == ChunkAt(src, s, dynamic, lazy)
    IN  [At(c.sp, c.table) EXCEPT !.items = s.items \o c.items]

Inner(src) == {s \in Steps : ~Beyond(src, s) /\ ~LastChunk(src, s)}
Unencoded(src) == [s \in Steps |-> IF s.sp < Len(src) THEN Len(src) - s.sp ELSE 0]
Chunking(src, dynamic, lazy) == [s \in Steps |-> AfterChunk(src, s, dynamic, lazy)]
Encoded(src, dynamic, lazy) ==
    [s \in Steps |-> IF Beyond(src, s) THEN s.items \o Missing(s.sp)
                     ELSE s.items \o ChunkAt(src, s, dynamic, lazy).items]

\* The chunk at s, and after it.
LEMMA AfterChunkType ==
    ASSUME NEW src \in Seq(Byte), NEW dynamic \in BOOLEAN, NEW lazy \in BOOLEAN,
           NEW s \in Steps, s.sp <= Len(src)
    PROVE  \E c : \E end \in 0 .. Len(src) :
              /\ c = ChunkAt(src, s, dynamic, lazy)
              /\ end = s.sp + BlockSize \/ (end = Len(src) /\ Len(src) <= s.sp + BlockSize)
              /\ IsChunk(c, src, s.sp, end, LastChunk(src, s))
              /\ s.items \o c.items \in Seq(Items)
              /\ AfterChunk(src, s, dynamic, lazy) \in Steps
              /\ AfterChunk(src, s, dynamic, lazy).sp = c.sp
              /\ AfterChunk(src, s, dynamic, lazy).items = s.items \o c.items
<1>1. PICK sp \in Nat, t \in HashTables, xs \in Seq(Items) : s.sp = sp /\ s.table = t /\ s.items = xs
  BY StepParts
<1>2. PICK f \in BOOLEAN : f = LastChunk(src, s)
  <2>1. LastChunk(src, s) = TRUE \/ LastChunk(src, s) = FALSE
    BY DEF LastChunk
  <2>2. QED
    BY <2>1
<1>3. PICK c : c = Chunk(src, At(sp, t), f, dynamic, lazy)
  OBVIOUS
<1>4. PICK end \in 0 .. Len(src) :
        /\ end = sp + BlockSize \/ (end = Len(src) /\ Len(src) <= sp + BlockSize)
        /\ IsChunk(c, src, sp, end, f)
  BY <1>1, <1>3, ChunkEnds
<1>5. c = ChunkAt(src, s, dynamic, lazy)
  BY <1>1, <1>2, <1>3 DEF ChunkAt
<1>6. c.items \in Seq(Items) /\ c.sp \in Nat /\ c.table \in HashTables /\ c.sp <= Len(src)
  BY <1>4 DEF IsChunk
<1>7. PICK ys \in Seq(Items) : ys = xs \o c.items
  BY <1>6, ConcatProperties
<1>8. PICK u : u = AfterChunk(src, s, dynamic, lazy)
  OBVIOUS
<1>9. u = Stand(c.sp, c.table, ys, NoMatch)
  <2>1. u = [At(c.sp, c.table) EXCEPT !.items = ys]
    BY <1>1, <1>5, <1>7, <1>8 DEF AfterChunk
  <2>2. QED
    BY <2>1 DEF At, Stand
<1>10. u \in Steps /\ u.sp = c.sp /\ u.items = ys
  <2>1. NoMatch \in Holdable
    BY DEF Holdable
  <2>2. QED
    BY <1>6, <1>9, <2>1, StandType
<1>11. QED
  BY <1>1, <1>2, <1>4, <1>5, <1>7, <1>8, <1>10

\* It ends.
LEMMA ChunksEnd ==
    ASSUME NEW src \in Seq(Byte), NEW dynamic \in BOOLEAN, NEW lazy \in BOOLEAN
    PROVE  Lowers(Steps, Unencoded(src), Inner(src), Chunking(src, dynamic, lazy))
<1>1. Len(src) \in Nat /\ BlockSize \in Nat \ {0} /\ \A s \in Steps : s.sp \in Nat
  BY StepParts, DeflateBatchAssumption
<1>2. Unencoded(src) \in [Steps -> Nat]
  BY <1>1 DEF Unencoded
<1>3. Inner(src) \subseteq Steps
  BY DEF Inner
<1>4. ASSUME NEW s \in Inner(src)
      PROVE  /\ Chunking(src, dynamic, lazy)[s] \in Steps
             /\ Unencoded(src)[Chunking(src, dynamic, lazy)[s]] < Unencoded(src)[s]
  <2>1. s \in Steps /\ s.sp + BlockSize < Len(src) /\ s.sp \in Nat
    BY <1>1 DEF Inner, LastChunk
  <2>2. s.sp <= Len(src)
    BY <1>1, <2>1
  <2>3. PICK u : u = AfterChunk(src, s, dynamic, lazy)
    OBVIOUS
  <2>4. PICK c : \E end \in 0 .. Len(src) :
          /\ end = s.sp + BlockSize \/ (end = Len(src) /\ Len(src) <= s.sp + BlockSize)
          /\ IsChunk(c, src, s.sp, end, LastChunk(src, s))
          /\ u \in Steps /\ u.sp = c.sp
    <3>1. PICK c : \E end \in 0 .. Len(src) :
            /\ c = ChunkAt(src, s, dynamic, lazy)
            /\ end = s.sp + BlockSize \/ (end = Len(src) /\ Len(src) <= s.sp + BlockSize)
            /\ IsChunk(c, src, s.sp, end, LastChunk(src, s))
            /\ s.items \o c.items \in Seq(Items)
            /\ AfterChunk(src, s, dynamic, lazy) \in Steps
            /\ AfterChunk(src, s, dynamic, lazy).sp = c.sp
            /\ AfterChunk(src, s, dynamic, lazy).items = s.items \o c.items
      BY <2>1, <2>2, AfterChunkType, ZenonT(40)
    <3>2. QED
      BY <2>3, <3>1
  <2>5. u.sp > s.sp /\ u.sp \in Nat
    <3>1. PICK end \in 0 .. Len(src) :
            /\ end = s.sp + BlockSize \/ (end = Len(src) /\ Len(src) <= s.sp + BlockSize)
            /\ IsChunk(c, src, s.sp, end, LastChunk(src, s))
      BY <2>4
    <3>2. end <= c.sp /\ c.sp \in Nat
      BY <3>1 DEF IsChunk
    <3>3. QED
      BY <1>1, <2>1, <2>4, <3>1, <3>2
  <2>6. Chunking(src, dynamic, lazy)[s] = u
    BY <2>1, <2>3 DEF Chunking
  <2>7. Unencoded(src)[s] = Len(src) - s.sp
    BY <1>1, <2>1 DEF Unencoded
  <2>8. Unencoded(src)[u] = IF u.sp < Len(src) THEN Len(src) - u.sp ELSE 0
    BY <2>4 DEF Unencoded
  <2>9. Unencoded(src)[u] < Unencoded(src)[s]
    BY <1>1, <2>1, <2>5, <2>7, <2>8
  <2>10. QED
    BY <2>4, <2>6, <2>9
<1>5. QED
  BY <1>2, <1>3, <1>4 DEF Lowers

LEMMA BatchUnfolded ==
    ASSUME NEW src \in Seq(Byte), NEW dynamic \in BOOLEAN, NEW lazy \in BOOLEAN
    PROVE  \E from :
              /\ IsTail(from, Steps, Inner(src), Chunking(src, dynamic, lazy), Encoded(src, dynamic, lazy))
              /\ BatchItems(src, dynamic, lazy) = from[At(0, Cleared)]
<1> DEFINE F(g, s) == LET last  == s.sp + BlockSize >= Len(src)
                          chunk == Chunk(src, At(s.sp, s.table), last, dynamic, lazy)
                          all   == s.items \o chunk.items
                      IN  IF s.sp >= Len(src) /\ s.sp # 0 THEN s.items \o Missing(s.sp)
                          ELSE IF last THEN all
                          ELSE g[[At(Resume(src, s.sp, chunk.sp), chunk.table) EXCEPT !.items = all]]
           E(g) == g = [s \in Steps |-> F(g, s)]
           from == CHOOSE g : E(g)
           go == Inner(src)
           step == Chunking(src, dynamic, lazy)
           res == Encoded(src, dynamic, lazy)
<1>1. \A g : IsTail(g, Steps, go, step, res) <=> E(g)
  <2> TAKE g
  <2>1. ASSUME NEW s \in Steps PROVE F(g, s) = IF s \in go THEN g[step[s]] ELSE res[s]
    <3>1. F(g, s) = IF Beyond(src, s) THEN s.items \o Missing(s.sp)
                    ELSE IF LastChunk(src, s) THEN s.items \o ChunkAt(src, s, dynamic, lazy).items
                    ELSE g[AfterChunk(src, s, dynamic, lazy)]
      BY DEF Beyond, LastChunk, ChunkAt, AfterChunk, Resume
    <3>2. /\ s \in go <=> ~Beyond(src, s) /\ ~LastChunk(src, s)
          /\ step[s] = AfterChunk(src, s, dynamic, lazy)
          /\ res[s] = IF Beyond(src, s) THEN s.items \o Missing(s.sp)
                      ELSE s.items \o ChunkAt(src, s, dynamic, lazy).items
      BY DEF Inner, Chunking, Encoded
    <3> HIDE DEF F, go, step, res
    <3>3. QED
      BY <3>1, <3>2
  <2> HIDE DEF F, go, step, res
  <2>2. [s \in Steps |-> IF s \in go THEN g[step[s]] ELSE res[s]] = [s \in Steps |-> F(g, s)]
    BY <2>1
  <2>3. QED
    BY <2>2, Zenon DEF IsTail
<1>2. Lowers(Steps, Unencoded(src), go, step)
  BY ChunksEnd
<1>3. \E g : E(g)
  <2> HIDE DEF go, step, res, E
  <2>1. \E g : IsTail(g, Steps, go, step, res)
    BY <1>2, TailRecursion
  <2>2. QED
    BY <1>1, <2>1
<1>4. E(from)
  <2> HIDE DEF E
  <2> QED
    BY <1>3, Zenon
<1>5. BatchItems(src, dynamic, lazy) = from[At(0, Cleared)]
  BY DEF BatchItems
<1>6. IsTail(from, Steps, go, step, res)
  <2> HIDE DEF from, E, go, step, res
  <2> QED
    BY <1>1, <1>4
<1>7. QED
  <2> HIDE DEF from, E
  <2>1. QED
    BY <1>5, <1>6

\* Whole blocks for what was encoded so far.
UpTo(src) == {s \in Steps : s.sp <= Len(src) /\ AsBlocks(s.items, src, 0, s.sp, FALSE)}

\* The items of the whole input are blocks for all of it, with the last one marked.
LEMMA BatchBlocks ==
    ASSUME NEW src \in Seq(Byte), NEW dynamic \in BOOLEAN, NEW lazy \in BOOLEAN
    PROVE  /\ BatchItems(src, dynamic, lazy) \in Seq(Items)
           /\ AsBlocks(BatchItems(src, dynamic, lazy), src, 0, Len(src), TRUE)
<1> DEFINE I == UpTo(src)
           go == Inner(src)
           step == Chunking(src, dynamic, lazy)
           res == Encoded(src, dynamic, lazy)
           first == At(0, Cleared)
<1>1. PICK from : IsTail(from, Steps, go, step, res) /\ BatchItems(src, dynamic, lazy) = from[first]
  BY BatchUnfolded
<1>2. Lowers(Steps, Unencoded(src), go, step)
  BY ChunksEnd
<1>3. Len(src) \in Nat /\ BlockSize \in Nat \ {0}
  BY DeflateBatchAssumption
<1>4. first \in I
  <2>1. first \in Steps /\ first.sp = 0 /\ first.items = <<>>
    BY <1>3, ClearedType, AtGood
  <2> HIDE DEF first
  <2>2. AsBlocks(first.items, src, 0, first.sp, FALSE)
    BY <2>1, NoBlocks
  <2>3. first \in Steps /\ first.sp <= Len(src)
    BY <1>3, <2>1
  <2>4. QED
    BY <2>2, <2>3, Zenon DEF UpTo
<1> HIDE DEF first
<1>5. I \subseteq Steps
  BY DEF UpTo
<1>6. ASSUME NEW s \in I
      PROVE  \E c : \E end \in 0 .. Len(src) :
                /\ c = ChunkAt(src, s, dynamic, lazy)
                /\ end = s.sp + BlockSize \/ (end = Len(src) /\ Len(src) <= s.sp + BlockSize)
                /\ c.sp \in Nat /\ end <= c.sp /\ c.sp <= Len(src)
                /\ s.items \o c.items \in Seq(Items)
                /\ AsBlocks(s.items \o c.items, src, 0, c.sp, LastChunk(src, s))
                /\ AfterChunk(src, s, dynamic, lazy) \in Steps
                /\ AfterChunk(src, s, dynamic, lazy).sp = c.sp
                /\ AfterChunk(src, s, dynamic, lazy).items = s.items \o c.items
  <2>1. s \in Steps /\ s.sp <= Len(src) /\ AsBlocks(s.items, src, 0, s.sp, FALSE)
        /\ s.items \in Seq(Items) /\ s.sp \in Nat
    BY <1>6, StepParts DEF UpTo
  <2>2. PICK c : \E end \in 0 .. Len(src) :
              /\ c = ChunkAt(src, s, dynamic, lazy)
              /\ end = s.sp + BlockSize \/ (end = Len(src) /\ Len(src) <= s.sp + BlockSize)
              /\ IsChunk(c, src, s.sp, end, LastChunk(src, s))
              /\ s.items \o c.items \in Seq(Items)
              /\ AfterChunk(src, s, dynamic, lazy) \in Steps
              /\ AfterChunk(src, s, dynamic, lazy).sp = c.sp
              /\ AfterChunk(src, s, dynamic, lazy).items = s.items \o c.items
    BY <2>1, AfterChunkType, ZenonT(40)
  <2>3. PICK end \in 0 .. Len(src) :
              /\ end = s.sp + BlockSize \/ (end = Len(src) /\ Len(src) <= s.sp + BlockSize)
              /\ IsChunk(c, src, s.sp, end, LastChunk(src, s))
    BY <2>2
  <2>4. c.sp \in Nat /\ end <= c.sp /\ c.sp <= Len(src) /\ c.items \in Seq(Items)
        /\ AsBlocks(c.items, src, s.sp, c.sp, LastChunk(src, s))
    BY <2>3 DEF IsChunk
  <2>5. PICK us \in Seq(Items), vs \in Seq(Items) : us = s.items /\ vs = c.items
    BY <2>1, <2>4
  <2>6. PICK f \in BOOLEAN : f = LastChunk(src, s)
    <3>1. LastChunk(src, s) = TRUE \/ LastChunk(src, s) = FALSE
      BY DEF LastChunk
    <3>2. QED
      BY <3>1
  <2>7. PICK m, n : m = s.sp /\ n = c.sp
    OBVIOUS
  <2>8. AsBlocks(us, src, 0, m, FALSE) /\ AsBlocks(vs, src, m, n, f)
    BY <2>1, <2>4, <2>5, <2>6, <2>7
  <2>9. us \o vs \in Seq(Items) /\ AsBlocks(us \o vs, src, 0, n, f)
    BY <2>8, BlocksConcat
  <2>10. AsBlocks(s.items \o c.items, src, 0, c.sp, LastChunk(src, s))
    BY <2>5, <2>6, <2>7, <2>9
  <2>11. QED
    BY <2>2, <2>3, <2>4, <2>10
<1>7. ASSUME NEW s \in I, s \in go PROVE step[s] \in I
  <2>1. s \in Steps /\ LastChunk(src, s) = FALSE
    BY <1>5, <1>7 DEF Inner, LastChunk
  <2>2. PICK u : u = AfterChunk(src, s, dynamic, lazy)
    OBVIOUS
  <2>3. u \in Steps /\ u.sp <= Len(src) /\ AsBlocks(u.items, src, 0, u.sp, FALSE)
    BY <1>6, <2>1, <2>2
  <2>4. step[s] = u
    BY <2>1, <2>2 DEF Chunking
  <2>5. QED
    BY <2>3, <2>4 DEF UpTo
<1>8. \A s \in I : \E u \in I : u \notin go /\ from[s] = res[u]
  <2> HIDE DEF I, go, step, res
  <2> QED
    BY <1>1, <1>2, <1>5, <1>7, TailEnds
<1>9. PICK s \in I : s \notin go /\ from[first] = res[s]
  BY <1>4, <1>8
<1>10. s \in Steps /\ s.sp \in Nat /\ s.sp <= Len(src) /\ s.items \in Seq(Items)
       /\ AsBlocks(s.items, src, 0, s.sp, FALSE)
  BY <1>5, StepParts DEF UpTo
<1>11. CASE Beyond(src, s)
  <2>1. s.sp = Len(src)
    BY <1>3, <1>10, <1>11 DEF Beyond
  <2>2. PICK us \in Seq(Items), vs \in Seq(Items) : us = s.items /\ vs = Missing(s.sp)
    BY <1>10, MissingBlock
  <2>3. AsBlocks(us, src, 0, Len(src), FALSE) /\ AsBlocks(vs, src, Len(src), Len(src), TRUE)
    BY <1>10, <2>1, <2>2, MissingBlock
  <2>4. us \o vs \in Seq(Items) /\ AsBlocks(us \o vs, src, 0, Len(src), TRUE)
    BY <2>3, BlocksConcat
  <2>5. res[s] = us \o vs
    BY <1>10, <1>11, <2>2 DEF Encoded
  <2>6. QED
    BY <1>1, <1>9, <2>4, <2>5
<1>12. CASE ~Beyond(src, s)
  <2>1. LastChunk(src, s) = TRUE
    BY <1>9, <1>10, <1>12 DEF Inner, LastChunk
  <2>2. PICK c : \E end \in 0 .. Len(src) :
          /\ c = ChunkAt(src, s, dynamic, lazy)
          /\ end = s.sp + BlockSize \/ (end = Len(src) /\ Len(src) <= s.sp + BlockSize)
          /\ c.sp \in Nat /\ end <= c.sp /\ c.sp <= Len(src)
          /\ s.items \o c.items \in Seq(Items)
          /\ AsBlocks(s.items \o c.items, src, 0, c.sp, TRUE)
    BY <1>6, <2>1
  <2>3. c.sp = Len(src)
    <3>1. s.sp + BlockSize >= Len(src)
      BY <2>1 DEF LastChunk
    <3>2. PICK end \in 0 .. Len(src) :
            /\ end = s.sp + BlockSize \/ (end = Len(src) /\ Len(src) <= s.sp + BlockSize)
            /\ c.sp \in Nat /\ end <= c.sp /\ c.sp <= Len(src)
      BY <2>2
    <3>3. QED
      BY <1>3, <1>10, <3>1, <3>2
  <2>4. res[s] = s.items \o c.items
    BY <1>10, <1>12, <2>2 DEF Encoded
  <2>5. QED
    BY <1>1, <1>9, <2>2, <2>3, <2>4
<1>13. QED
  BY <1>11, <1>12

\* So they decode to it.
LEMMA BatchDecodes ==
    ASSUME NEW src \in Seq(Byte), NEW dynamic \in BOOLEAN, NEW lazy \in BOOLEAN
    PROVE  Decodes(BatchItems(src, dynamic, lazy), src)
<1> DEFINE s == Start(<<>>)
           r == Read(s, BatchItems(src, dynamic, lazy))
<1>1. s \in Readers /\ s.ok /\ ~s.crossed /\ s.floor = 0 /\ s.plain = <<>> /\ s.block = "none" /\ ~s.done
  BY DEF Start, Readers
<1> HIDE DEF s
<1>2. Has(s, src, 0)
  BY <1>1 DEF Has, Begins
<1>3. Has(r, src, Len(src)) /\ r.done = TRUE
  <2>1. PICK xs : xs = BatchItems(src, dynamic, lazy)
    OBVIOUS
  <2>2. AsBlocks(xs, src, 0, Len(src), TRUE)
    BY <2>1, BatchBlocks
  <2>3. QED
    BY <1>1, <1>2, <2>1, <2>2 DEF AsBlocks
<1> HIDE DEF r
<1>4. r.plain \in Seq(Nat) /\ src \in Seq(Nat) /\ Len(r.plain) = Len(src)
      /\ \A i \in 1 .. Len(src) : r.plain[i] = src[i]
  <2>1. src \in Seq(Nat)
    BY Lz77Assumption, SeqMonotonic
  <2>2. QED
    BY <1>3, <2>1 DEF Has, Begins, Readers
<1>5. r.plain = src
  BY <1>4, SeqEqual
<1>6. r.ok
  BY <1>3 DEF Has
<1>7. QED
  BY <1>3, <1>5, <1>6 DEF Decodes, r, s

-----------------------------------------------------------------------------
(* The theorem about the batch encoder.                                    *)

\* Whatever the job, the size of a chunk, the match finder and the symbol buffer: on the greedy,
\* the lazy and the dynamic path every byte is encoded once, wherever the chunks are cut and however
\* far a match goes past the cut, and the last block is marked as such (deflate_compress_level).
THEOREM BatchIsFaithfulHolds == Spec => []BatchIsFaithful
<1>1. Inv => BatchIsFaithful
  <2>1. ASSUME Inv PROVE job.bytes \in Seq(Byte)
    BY <2>1, JobType DEF Inv, TypeI
  <2>2. QED
    BY <2>1, BatchDecodes DEF BatchIsFaithful
<1>2. QED
  BY <1>1, Invariance, PTL
=============================================================================
