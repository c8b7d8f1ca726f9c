----------------------------- MODULE Lz4BlockProofs -----------------------------
(***************************************************************************)
(* Proofs about Lz4Block, for every text: the sequences that the encoder   *)
(* finds tell the text and end as the format asks, and the decoder makes   *)
(* the text of the bytes the encoder writes for them.                      *)
(***************************************************************************)
EXTENDS Lz4Block, Lemmas

\* What the assumption says of the numbers.
LEMMA Constants ==
    /\ MinMatch \in Nat \ {0} /\ LastLiterals \in Nat \ {0} /\ MfLimit \in Nat
    /\ MaxOffset \in Nat /\ MaxOffset < 65536
    /\ Nibble \in 1 .. 15 /\ Ext \in 1 .. 255
<1>1. MaxOffset \in 1 .. 65535
  BY Lz4BlockAssumption, SMTT(100)
<1>2. MaxOffset \in Nat /\ MaxOffset < 65536
  BY <1>1, SMTT(30)
<1>3. QED
  BY <1>2, Lz4BlockAssumption, SMTT(30)

\* The sequence q stands for text from a to b.
Tells(q, text, a, b) ==
    /\ a \in Nat /\ b \in Nat /\ a + Len(q.lits) + q.len = b /\ b <= Len(text)
    /\ q.lits = SubSeq(text, a + 1, a + Len(q.lits))
    /\ q.len # 0 => /\ q.len >= MinMatch /\ q.dist \in 1 .. MaxOffset
                    /\ q.dist <= b - q.len
                    /\ Repeats(text, b - q.len, q.dist, q.len)

\* The sequences seqs stand for text up to their ends, at[1], at[2], ...
Told(seqs, text, at) ==
    /\ at \in [0 .. Len(seqs) -> Nat] /\ at[0] = 0
    /\ \A k \in 1 .. Len(seqs) : Tells(seqs[k], text, at[k - 1], at[k])

\* They are matches, all ending where a block may have them.
Early(seqs, text, at) ==
    \A k \in 1 .. Len(seqs) :
        /\ seqs[k].len # 0
        /\ at[k] + LastLiterals <= Len(text) /\ at[k] - seqs[k].len + MfLimit <= Len(text)

\* The loop of the encoder has dealt with the text up to its anchor.
Searching(text, s) ==
    /\ s \in Searches
    /\ s.anchor <= s.sp /\ s.anchor <= Len(text)
    /\ \E at : /\ Told(s.seqs, text, at) /\ at[Len(s.seqs)] = s.anchor
               /\ Early(s.seqs, text, at)

LEMMA AtLeast0Of ==
    ASSUME NEW n \in Int
    PROVE  AtLeast0(n) \in Nat /\ (AtLeast0(n) > 0 => AtLeast0(n) = n) /\ (n >= 0 => AtLeast0(n) = n)
<1>1. Max({0, n}) \in {0, n} /\ Max({0, n}) >= 0 /\ Max({0, n}) >= n
  BY MaxOfTwo
<1>2. QED
  BY <1>1 DEF AtLeast0

LEMMA HashAtType ==
    ASSUME NEW src \in Seq(Byte), NEW sp \in Nat, Hashable(src, sp)
    PROVE  HashAt(src, sp) \in Buckets /\ sp + MinMatch <= Len(src) - LastLiterals
<1>1. MinMatch \in Nat \ {0} /\ LastLiterals \in Nat \ {0} /\ Len(src) \in Nat
  BY Lz4BlockAssumption
<1>2. sp + MinMatch <= Len(src) - LastLiterals
  BY <1>1, AtLeast0Of DEF Hashable, MatchLimit
<1>3. \A i \in sp + 1 .. sp + MinMatch : src[i] \in Byte
  BY <1>1, <1>2
<1>4. SubSeq(src, sp + 1, sp + MinMatch) \in Seq(Byte) /\ Len(SubSeq(src, sp + 1, sp + MinMatch)) = MinMatch
  BY <1>1, <1>2, <1>3, SubSeqProperties
<1>5. SubSeq(src, sp + 1, sp + MinMatch) \in [1 .. MinMatch -> Byte]
  BY <1>4, LenProperties
<1>6. \A s \in [1 .. MinMatch -> Byte] : Hash(s) \in Buckets
  BY Lz4BlockAssumption
<1>7. Hash(SubSeq(src, sp + 1, sp + MinMatch)) \in Buckets
  <2> DEFINE w == SubSeq(src, sp + 1, sp + MinMatch)
  <2> HIDE DEF w
  <2>1. w \in [1 .. MinMatch -> Byte]
    BY <1>5 DEF w
  <2>2. Hash(w) \in Buckets
    BY <1>6, <2>1
  <2>3. QED
    BY <2>2 DEF w
<1>8. QED
  BY <1>2, <1>7 DEF HashAt

\* The m bytes behind a are those behind b.
Alike(src, a, b, m) == \A i \in 1 .. m : src[a + i] = src[b + i]

\* What two places have in common, of n bytes.
LEMMA CommonBytes ==
    ASSUME NEW src, NEW a \in Int, NEW b \in Int, NEW n \in Nat, NEW m \in 0 .. n,
           Alike(src, a, b, m)
    PROVE  /\ Common(src, a, b, n) \in m .. n
           /\ Alike(src, a, b, Common(src, a, b, n))
<1> DEFINE T == {k \in 0 .. n : \A i \in 1 .. k : src[a + i] = src[b + i]}
<1>1. T \subseteq Int /\ m \in T /\ IsUpperBound(n, T)
  BY DEF IsUpperBound, Alike
<1>2. Common(src, a, b, n) = Max(T)
  BY DEF Common
<1>3. Max(T) \in T /\ \A k \in T : k <= Max(T)
  <2> HIDE DEF T
  <2> QED
    BY <1>1, GreatestElement
<1> DEFINE c == Max(T)
<1>4. c \in 0 .. n /\ (\A i \in 1 .. c : src[a + i] = src[b + i]) /\ m <= c
  <2> SUFFICES ASSUME NEW x \in T, m <= x PROVE x \in 0 .. n /\ (\A i \in 1 .. x : src[a + i] = src[b + i]) /\ m <= x
    BY <1>1, <1>3
  <2> QED
    OBVIOUS
<1> HIDE DEF c
<1>5. Common(src, a, b, n) = c
  BY <1>2 DEF c
<1>6. QED
  BY <1>4, <1>5 DEF Alike

\* One more sequence.
Longer(at, n, b) == [k \in 0 .. n + 1 |-> IF k <= n THEN at[k] ELSE b]

LEMMA ToldAppend ==
    ASSUME NEW S, NEW seqs \in Seq(S), NEW q \in S, NEW text, NEW at, NEW b \in Nat,
           Told(seqs, text, at), Tells(q, text, at[Len(seqs)], b)
    PROVE  Told(Append(seqs, q), text, Longer(at, Len(seqs), b))
<1> DEFINE n == Len(seqs)
           new == Longer(at, n, b)
           more == Append(seqs, q)
<1>1. n \in Nat /\ Len(more) = n + 1 /\ (\A k \in 1 .. n : more[k] = seqs[k]) /\ more[n + 1] = q
  BY AppendProperties
<1>2. at \in [0 .. n -> Nat] /\ at[0] = 0 /\ \A k \in 1 .. n : Tells(seqs[k], text, at[k - 1], at[k])
  BY DEF Told
<1>3. new \in [0 .. n + 1 -> Nat] /\ (\A k \in 0 .. n : new[k] = at[k]) /\ new[n + 1] = b
  BY <1>1, <1>2 DEF Longer
<1>4. Tells(q, text, at[n], b)
  OBVIOUS
<1> HIDE DEF n, new, more
<1>5. ASSUME NEW k \in 1 .. n + 1 PROVE Tells(more[k], text, new[k - 1], new[k])
  <2>1. CASE k = n + 1
    <3>1. k - 1 = n /\ n \in 0 .. n
      BY <1>1, <2>1
    <3>2. new[k - 1] = at[n] /\ new[k] = b /\ more[k] = q
      BY <1>1, <1>3, <2>1, <3>1
    <3>3. QED
      BY <1>4, <3>2
  <2>2. CASE k # n + 1
    <3>1. k \in 1 .. n /\ k - 1 \in 0 .. n /\ k \in 0 .. n
      BY <1>1, <2>2
    <3>2. new[k - 1] = at[k - 1] /\ new[k] = at[k] /\ more[k] = seqs[k]
      BY <1>1, <1>3, <3>1
    <3>3. QED
      BY <1>2, <3>1, <3>2
  <2>3. QED
    BY <2>1, <2>2
<1>6. new[0] = 0
  BY <1>1, <1>2, <1>3
<1>7. Told(more, text, new)
  BY <1>1, <1>3, <1>5, <1>6 DEF Told
<1>8. QED
  BY <1>7 DEF n, new, more

\* The loop begins with nothing told.
Start == [sp |-> 0, anchor |-> 0, skip |-> 0, seqs |-> <<>>, table |-> [h \in Buckets |-> -1]]

LEMMA StartSearching ==
    ASSUME NEW src \in Seq(Byte)
    PROVE  Searching(src, Start)
<1>1. Start \in Searches
  BY DEF Start, Searches
<1>2. Told(<<>>, src, [k \in 0 .. 0 |-> 0]) /\ Early(<<>>, src, [k \in 0 .. 0 |-> 0])
  BY DEF Told, Early
<1>3. Start.seqs = <<>> /\ Start.anchor = 0 /\ Start.sp = 0 /\ Len(<<>>) = 0 /\ [k \in 0 .. 0 |-> 0][0] = 0
  BY DEF Start
<1>4. Len(src) \in Nat
  OBVIOUS
<1>5. QED
  BY <1>1, <1>2, <1>3, <1>4 DEF Searching

\* A turn of the loop.
TurnOf(src, s) ==
    /\ Turn(src, s) \in Searches
    /\ Turn(src, s).sp > s.sp
    /\ Searching(src, s) => Searching(src, Turn(src, s))

LEMMA Quotient == \A a \in Nat : \A b \in Nat \ {0} : a \div b \in Nat
OBVIOUS

LEMMA MissedTurn ==
    ASSUME NEW src \in Seq(Byte), NEW s \in Searches, NEW table \in [Buckets -> Int]
    PROVE  /\ Missed(s, table) \in Searches /\ Missed(s, table).sp > s.sp
           /\ Searching(src, s) => Searching(src, Missed(s, table))
<1> DEFINE d == 2 ^ SkipShift
           more == (s.skip + 1) \div d
           m == Missed(s, table)
<1>1. d \in Nat \ {0}
  BY Lz4BlockAssumption
<1>2. s.sp \in Nat /\ s.anchor \in Nat /\ s.skip \in Nat /\ s.seqs \in Seq(Sequence)
  BY DEF Searches
<1>3. more \in Nat
  <2> HIDE DEF d
  <2>1. s.skip + 1 \in Nat
    BY <1>2
  <2>2. QED
    BY <1>1, <2>1, Quotient
<1>4. m = [s EXCEPT !.table = table, !.skip = @ + 1, !.sp = @ + 1 + more]
  BY DEF Missed
<1> HIDE DEF more
<1>5. m \in Searches /\ m.sp = s.sp + 1 + more /\ m.anchor = s.anchor /\ m.seqs = s.seqs
  <2>1. m = [s EXCEPT !.table = table, !.skip = s.skip + 1, !.sp = s.sp + 1 + more]
    BY <1>4
  <2>2. s.skip + 1 \in Nat /\ s.sp + 1 + more \in Nat
    BY <1>2, <1>3, SMTT(30)
  <2> HIDE DEF m
  <2>3. m \in Searches
    BY <2>1, <2>2 DEF Searches
  <2>4. QED
    BY <2>1, <2>3 DEF Searches
<1> HIDE DEF m
<1>6. Searching(src, s) => Searching(src, m)
  BY <1>2, <1>3, <1>5 DEF Searching
<1>7. QED
  BY <1>2, <1>3, <1>5, <1>6 DEF m

LEMMA MatchedTurn ==
    ASSUME NEW src \in Seq(Byte), NEW s \in Searches, NEW table \in [Buckets -> Int],
           NEW entry \in Int, Hashable(src, s.sp), Leads(src, s, entry)
    PROVE  /\ Matched(src, s, table, entry) \in Searches
           /\ Matched(src, s, table, entry).sp > s.sp
           /\ Searching(src, s) => Searching(src, Matched(src, s, table, entry))
<1> DEFINE room == MatchLimit(src) - s.sp
           len  == Common(src, entry, s.sp, room)
           past == s.sp + len
           t2   == IF Hashable(src, past) THEN [table EXCEPT ![HashAt(src, past)] = past] ELSE table
           q    == [lits |-> SubSeq(src, s.anchor + 1, s.sp), dist |-> s.sp - entry, len |-> len]
           m    == Matched(src, s, table, entry)
<1>1. s.sp \in Nat /\ s.anchor \in Nat /\ s.seqs \in Seq(Sequence) /\ Len(src) \in Nat
  BY DEF Searches
<1>2. MinMatch \in Nat \ {0} /\ LastLiterals \in Nat \ {0} /\ MfLimit \in Nat /\ MaxOffset \in Nat
  BY Lz4BlockAssumption, SMTT(30)
<1>3. MatchLimit(src) = Len(src) - LastLiterals /\ s.sp + MinMatch <= MatchLimit(src)
  BY <1>1, <1>2, AtLeast0Of DEF Hashable, MatchLimit
<1>4. room \in Nat /\ MinMatch \in 0 .. room
  BY <1>1, <1>2, <1>3
<1>5. entry \in Nat /\ s.sp - entry \in 1 .. MaxOffset /\ \A i \in 1 .. MinMatch : src[entry + i] = src[s.sp + i]
  BY DEF Leads
<1>6. s.sp + MfLimit <= Len(src)
  <2> DEFINE n == Len(src) - MfLimit
  <2>1. n \in Int /\ s.sp <= AtLeast0(n) /\ s.sp > 0
    BY <1>1, <1>2, <1>5 DEF Leads, MayBegin
  <2>2. AtLeast0(n) \in Nat /\ (AtLeast0(n) > 0 => AtLeast0(n) = n)
    <3> HIDE DEF n
    <3>1. QED
      BY <2>1, AtLeast0Of
  <2>3. QED
    BY <1>1, <1>2, <2>1, <2>2
<1>7. len \in MinMatch .. room /\ \A i \in 1 .. len : src[entry + i] = src[s.sp + i]
  <2> DEFINE b == s.sp
  <2>1. entry \in Int /\ b \in Int /\ room \in Nat /\ MinMatch \in 0 .. room
    BY <1>1, <1>4
  <2>2. Alike(src, entry, b, MinMatch)
    BY <1>5 DEF Alike
  <2> HIDE DEF b, room
  <2> DEFINE c == Common(src, entry, b, room)
  <2>3. c \in MinMatch .. room /\ Alike(src, entry, b, c)
    BY <2>1, <2>2, CommonBytes
  <2> HIDE DEF c
  <2>4. len = c
    BY DEF c, b
  <2> HIDE DEF len
  <2>5. QED
    BY <2>3, <2>4 DEF b, Alike
<1>8. m = [sp |-> past, anchor |-> past, skip |-> 0, table |-> t2, seqs |-> Append(s.seqs, q)]
  BY DEF Matched
<1>9. past \in Nat /\ past > s.sp /\ past <= Len(src) - LastLiterals /\ past <= Len(src)
      /\ past - len = s.sp /\ len \in Nat /\ len # 0
  <2>1. room = Len(src) - LastLiterals - s.sp
    BY <1>1, <1>2, <1>3
  <2> HIDE DEF len, room
  <2>2. QED
    BY <1>1, <1>2, <1>7, <2>1, SMTT(30)
<1>10. t2 \in [Buckets -> Int]
  <2> HIDE DEF past
  <2>1. CASE Hashable(src, past)
    <3>1. HashAt(src, past) \in Buckets
      BY <1>9, <2>1, HashAtType
    <3>2. QED
      BY <1>9, <2>1, <3>1
  <2>2. CASE ~Hashable(src, past)
    BY <2>2
  <2>3. QED
    BY <2>1, <2>2
<1> HIDE DEF t2, past, len
<1>11. q \in Sequence /\ (s.anchor <= s.sp => Len(q.lits) = s.sp - s.anchor)
  <2>1. \A i \in s.anchor + 1 .. s.sp : src[i] \in Byte
    BY <1>1, <1>9
  <2>2. q.lits \in Seq(Byte) /\ (s.anchor <= s.sp => Len(q.lits) = s.sp - s.anchor)
    BY <1>1, <2>1, SubSeqProperties
  <2>3. q.dist \in Nat /\ q.len \in Nat
    BY <1>5, <1>9
  <2>4. QED
    BY <2>2, <2>3 DEF Sequence
<1>12. m \in Searches
  <2>1. Append(s.seqs, q) \in Seq(Sequence)
    BY <1>1, <1>11, AppendProperties
  <2>2. QED
    BY <1>8, <1>9, <1>10, <2>1 DEF Searches
<1>13. m.sp > s.sp
  BY <1>8, <1>9
<1>14. ASSUME Searching(src, s) PROVE Searching(src, m)
  <2>1. s.anchor <= s.sp
    BY <1>14 DEF Searching
  <2>2. PICK at : Told(s.seqs, src, at) /\ at[Len(s.seqs)] = s.anchor /\ Early(s.seqs, src, at)
    BY <1>14 DEF Searching
  <2>3. Len(q.lits) = s.sp - s.anchor /\ q \in Sequence
    BY <1>11, <2>1
  <2>4. q.lits = SubSeq(src, s.anchor + 1, s.anchor + Len(q.lits))
    <3>1. s.anchor + Len(q.lits) = s.sp
      <4> HIDE DEF q
      <4>1. QED
        BY <1>1, <2>3
    <3>2. q.lits = SubSeq(src, s.anchor + 1, s.sp)
      OBVIOUS
    <3> HIDE DEF q
    <3>3. QED
      BY <3>1, <3>2
  <2>5. Repeats(src, past - q.len, q.dist, q.len)
    <3>1. s.sp - (s.sp - entry) = entry /\ past - q.len = s.sp /\ q.dist = s.sp - entry /\ q.len = len
      BY <1>1, <1>9
    <3>2. \A i \in 1 .. len : src[entry + i] = src[s.sp + i]
      BY <1>7
    <3> HIDE DEF q
    <3>3. QED
      BY <3>1, <3>2 DEF Repeats
  <2>6. Tells(q, src, s.anchor, past)
    <3>1. q.len = len /\ q.dist = s.sp - entry
      OBVIOUS
    <3> HIDE DEF q
    <3>2. s.anchor + Len(q.lits) + q.len = past /\ past \in Nat /\ past <= Len(src)
      <4>1. \A a, b, c, d, e \in Int : c = b - a /\ d - e = b => a + c + e = d
        OBVIOUS
      <4>2. s.anchor \in Int /\ s.sp \in Int /\ past \in Int /\ len \in Int /\ Len(q.lits) = s.sp - s.anchor
        BY <1>1, <1>9, <2>3
      <4>3. s.anchor + Len(q.lits) + len = past
        BY <1>9, <4>1, <4>2
      <4>4. QED
        BY <1>9, <3>1, <4>3
    <3>3. q.len >= MinMatch /\ q.dist \in 1 .. MaxOffset
      BY <1>2, <1>5, <1>7, <1>9, <3>1
    <3>4. q.dist <= past - q.len
      BY <1>1, <1>5, <1>9, <3>1
    <3>5. QED
      BY <1>1, <2>4, <2>5, <3>2, <3>3, <3>4 DEF Tells
  <2> DEFINE n == Len(s.seqs)
             new == Longer(at, n, past)
             more == Append(s.seqs, q)
  <2>7. n \in Nat /\ Len(more) = n + 1 /\ (\A k \in 1 .. n : more[k] = s.seqs[k]) /\ more[n + 1] = q
    <3> HIDE DEF q
    <3>1. QED
      BY <1>1, <2>3, AppendProperties
  <2>8. Told(more, src, new)
    <3> HIDE DEF q
    <3>1. QED
      BY <1>1, <1>9, <2>2, <2>3, <2>6, ToldAppend
  <2>9. (\A k \in 0 .. n : new[k] = at[k]) /\ new[n + 1] = past
    BY <2>7 DEF Longer
  <2>10. q.len = len
    OBVIOUS
  <2> HIDE DEF n, new, more, q
  <2>11. Early(more, src, new)
    <3> SUFFICES ASSUME NEW k \in 1 .. n + 1
                 PROVE  /\ more[k].len # 0 /\ new[k] + LastLiterals <= Len(src)
                        /\ new[k] - more[k].len + MfLimit <= Len(src)
      BY <2>7 DEF Early
    <3>1. CASE k = n + 1
      BY <1>1, <1>2, <1>6, <1>9, <2>7, <2>9, <2>10, <3>1
    <3>2. CASE k # n + 1
      <4>1. k \in 1 .. n /\ k \in 0 .. n
        BY <2>7, <3>2
      <4>2. more[k] = s.seqs[k] /\ new[k] = at[k]
        BY <2>7, <2>9, <4>1
      <4>3. QED
        BY <2>2, <4>1, <4>2 DEF Early, n
    <3>3. QED
      BY <3>1, <3>2
  <2>12. m.seqs = more /\ m.anchor = past /\ m.sp = past
    BY <1>8 DEF more, q
  <2>13. m \in Searches
    BY <1>12
  <2> HIDE DEF m
  <2>14. QED
    BY <1>9, <2>7, <2>8, <2>9, <2>11, <2>12, <2>13 DEF Searching
<1>15. QED
  BY <1>12, <1>13, <1>14

LEMMA TurnHolds ==
    ASSUME NEW src \in Seq(Byte), NEW s \in Searches, Hashable(src, s.sp)
    PROVE  TurnOf(src, s)
<1> DEFINE h == HashAt(src, s.sp)
           table == [s.table EXCEPT ![h] = s.sp]
           entry == s.table[h]
<1>1. s.sp \in Nat /\ s.table \in [Buckets -> Int]
  BY DEF Searches
<1>2. h \in Buckets
  BY <1>1, HashAtType
<1> HIDE DEF h
<1>3. table \in [Buckets -> Int] /\ entry \in Int
  BY <1>1, <1>2
<1>4. Turn(src, s) = IF Leads(src, s, entry) THEN Matched(src, s, table, entry) ELSE Missed(s, table)
  BY DEF Turn, h
<1> HIDE DEF table, entry
<1>5. CASE Leads(src, s, entry)
  BY <1>3, <1>4, <1>5, MatchedTurn DEF TurnOf
<1>6. CASE ~Leads(src, s, entry)
  BY <1>3, <1>4, <1>6, MissedTurn DEF TurnOf
<1>7. QED
  BY <1>5, <1>6

\* The loop as a recursion: where it goes on, its turn, what is left, what it returns.
Looping(src) == {s \in Searches : Hashable(src, s.sp)}
Turning(src) == [s \in Searches |-> Turn(src, s)]
Ahead(src)   == [s \in Searches |-> IF s.sp <= Len(src) THEN Len(src) - s.sp ELSE 0]
Found(src)   == [s \in Searches |-> s.seqs \o LastRun(src, s.anchor)]

LEMMA SearchShrinks ==
    ASSUME NEW src \in Seq(Byte)
    PROVE  Lowers(Searches, Ahead(src), Looping(src), Turning(src))
<1>1. Len(src) \in Nat /\ \A s \in Searches : s.sp \in Nat
  BY DEF Searches
<1>2. Ahead(src) \in [Searches -> Nat]
  BY <1>1 DEF Ahead
<1>3. Looping(src) \subseteq Searches
  BY DEF Looping
<1>4. ASSUME NEW s \in Looping(src)
      PROVE  Turning(src)[s] \in Searches /\ Ahead(src)[Turning(src)[s]] < Ahead(src)[s]
  <2> DEFINE t == Turn(src, s)
  <2>1. s \in Searches /\ Hashable(src, s.sp)
    BY <1>4 DEF Looping
  <2>2. t \in Searches /\ t.sp > s.sp
    BY <2>1, TurnHolds DEF TurnOf
  <2>3. Turning(src)[s] = t
    BY <2>1, SMTT(30) DEF Turning
  <2>4. s.sp + MinMatch <= Len(src) - LastLiterals /\ MinMatch \in Nat \ {0} /\ LastLiterals \in Nat
    BY <1>1, <2>1, HashAtType, Lz4BlockAssumption
  <2> HIDE DEF t
  <2>5. Ahead(src)[s] = Len(src) - s.sp
    BY <1>1, <2>1, <2>4 DEF Ahead
  <2>6. Ahead(src)[t] = IF t.sp <= Len(src) THEN Len(src) - t.sp ELSE 0
    BY <2>2 DEF Ahead
  <2>7. Ahead(src)[t] < Ahead(src)[s]
    BY <1>1, <2>1, <2>2, <2>4, <2>5, <2>6
  <2>8. QED
    BY <2>2, <2>3, <2>7
<1>5. QED
  BY <1>2, <1>3, <1>4 DEF Lowers

\* The sequences of a text are those of a state of the loop that cannot go on, and the rest.
LEMMA SearchEnds ==
    ASSUME NEW src \in Seq(Byte)
    PROVE  \E t : /\ Searching(src, t)
                  /\ SequencesOf(src) = t.seqs \o LastRun(src, t.anchor)
<1> DEFINE E(g) == g = [s \in Searches |-> IF Hashable(src, s.sp) THEN g[Turn(src, s)]
                                           ELSE s.seqs \o LastRun(src, s.anchor)]
           from == CHOOSE g : E(g)
           D == Searches
           go == Looping(src)
           step == Turning(src)
           res == Found(src)
           I == {s \in Searches : Searching(src, s)}
<1>1. \A g : IsTail(g, D, go, step, res) <=> E(g)
  <2> TAKE g
  <2>1. \A s \in Searches : (s \in go <=> Hashable(src, s.sp)) /\ step[s] = Turn(src, s)
                            /\ res[s] = s.seqs \o LastRun(src, s.anchor)
    BY DEF Looping, Turning, Found
  <2> HIDE DEF go, step, res
  <2>2. [s \in Searches |-> IF s \in go THEN g[step[s]] ELSE res[s]]
        = [s \in Searches |-> IF Hashable(src, s.sp) THEN g[Turn(src, s)]
                              ELSE s.seqs \o LastRun(src, s.anchor)]
    BY <2>1
  <2>3. QED
    BY <2>2 DEF IsTail
<1>2. Lowers(D, Ahead(src), go, step)
  BY SearchShrinks
<1>3. \E g : E(g)
  <2> HIDE DEF D, go, step, res, E
  <2>1. \E g : IsTail(g, D, go, step, res)
    BY <1>2, TailRecursion
  <2>2. QED
    BY <1>1, <2>1
<1>4. E(from)
  BY <1>3, Zenon
<1>5. SequencesOf(src) = from[Start]
  BY DEF SequencesOf, Start
<1>6. Start \in I
  <2>1. Searching(src, Start)
    BY StartSearching
  <2>2. QED
    BY <2>1 DEF Searching
<1>7. \A s \in I : s \in go => step[s] \in I
  <2> SUFFICES ASSUME NEW s \in I, s \in go PROVE step[s] \in I
    OBVIOUS
  <2>1. s \in Searches /\ Hashable(src, s.sp) /\ Searching(src, s) /\ step[s] = Turn(src, s)
    BY DEF Looping, Turning
  <2>2. TurnOf(src, s)
    BY <2>1, TurnHolds
  <2>3. QED
    BY <2>1, <2>2 DEF TurnOf
<1>8. \E t \in I : from[Start] = res[t]
  <2>1. I \subseteq D
    OBVIOUS
  <2>2. IsTail(from, D, go, step, res)
    BY <1>1, <1>4
  <2> HIDE DEF from, E, D, go, step, res, I
  <2>3. \A s \in I : \E t \in I : t \notin go /\ from[s] = res[t]
    BY <1>2, <1>7, <2>1, <2>2, TailEnds
  <2>4. QED
    BY <1>6, <2>3
<1>9. \A t \in I : res[t] = t.seqs \o LastRun(src, t.anchor) /\ Searching(src, t)
  BY Zenon DEF Found
<1>10. QED
  <2> HIDE DEF from, E, D, go, step, res, I
  <2> QED
    BY <1>5, <1>8, <1>9

\* A sequence of literals that ends the text.
LEMMA LastRunTells ==
    ASSUME NEW src \in Seq(Byte), NEW from \in 0 .. Len(src) - 1
    PROVE  \E q \in Sequence :
              /\ LastRun(src, from) = <<q>> /\ q.len = 0 /\ Len(q.lits) = Len(src) - from
              /\ Tells(q, src, from, Len(src))
<1> DEFINE q == [lits |-> SubSeq(src, from + 1, Len(src)), dist |-> 0, len |-> 0]
<1>1. from \in Nat /\ Len(src) \in Nat /\ from # Len(src)
  OBVIOUS
<1>2. LastRun(src, from) = <<q>>
  BY <1>1 DEF LastRun
<1>3. \A i \in from + 1 .. Len(src) : src[i] \in Byte
  OBVIOUS
<1>4. q.lits \in Seq(Byte) /\ Len(q.lits) = Len(src) - from
  BY <1>1, <1>3, SubSeqProperties
<1>5. q \in Sequence
  BY <1>4 DEF Sequence
<1>6. from + Len(q.lits) = Len(src) /\ q.lits = SubSeq(src, from + 1, Len(src)) /\ q.len = 0
  <2>1. q.lits = SubSeq(src, from + 1, Len(src)) /\ q.len = 0
    OBVIOUS
  <2> HIDE DEF q
  <2>2. \A a, b, c \in Int : c = b - a => a + c = b
    OBVIOUS
  <2>3. from + Len(q.lits) = Len(src)
    BY <1>1, <1>4, <2>2
  <2>4. QED
    BY <2>1, <2>3
<1> HIDE DEF q
<1>7. Tells(q, src, from, Len(src))
  <2>1. q.lits = SubSeq(src, from + 1, from + Len(q.lits))
    BY <1>6
  <2>2. from + Len(q.lits) = Len(src) /\ q.len = 0
    BY <1>6
  <2>3. from + Len(q.lits) + q.len = Len(src)
    BY <1>1, <2>2
  <2>4. Len(src) <= Len(src)
    BY <1>1
  <2>5. QED
    BY <1>1, <2>1, <2>2, <2>3, <2>4, Zenon DEF Tells
<1>8. QED
  BY <1>2, <1>4, <1>5, <1>6, <1>7, Zenon

\* What the sequences of a text are: they tell it, all but the last are matches that end
\* early enough, and the last is literals only.
SequencesTell(seqs, src, at) ==
    /\ seqs \in Seq(Sequence)
    /\ Told(seqs, src, at) /\ at[Len(seqs)] = Len(src)
    /\ \A k \in 1 .. Len(seqs) : k < Len(seqs) =>
          /\ seqs[k].len # 0
          /\ at[k] + LastLiterals <= Len(src) /\ at[k] - seqs[k].len + MfLimit <= Len(src)
    /\ seqs # <<>> => seqs[Len(seqs)].len = 0

LEMMA SequencesOfText ==
    ASSUME NEW src \in Seq(Byte)
    PROVE  \E at : SequencesTell(SequencesOf(src), src, at)
<1>1. PICK t : Searching(src, t) /\ SequencesOf(src) = t.seqs \o LastRun(src, t.anchor)
  BY SearchEnds
<1>2. t \in Searches /\ t.anchor \in Nat /\ t.anchor <= Len(src) /\ t.seqs \in Seq(Sequence)
  BY <1>1 DEF Searching, Searches
<1>3. PICK at : Told(t.seqs, src, at) /\ at[Len(t.seqs)] = t.anchor /\ Early(t.seqs, src, at)
  BY <1>1 DEF Searching
<1> DEFINE seqs == t.seqs
           n == Len(seqs)
<1>4. n \in Nat /\ seqs \in Seq(Sequence) /\ Len(src) \in Nat
  BY <1>2
<1>5. CASE t.anchor = Len(src)
  <2>1. SequencesOf(src) = seqs
    <3>1. LastRun(src, t.anchor) = <<>>
      BY <1>5 DEF LastRun
    <3>2. QED
      BY <1>1, <1>4, <3>1
  <2>2. seqs = <<>>
    <3> SUFFICES ASSUME n # 0 PROVE FALSE
      BY <1>4
    <3>1. n \in 1 .. n
      BY <1>4, SMTT(30)
    <3>2. at[n] + LastLiterals <= Len(src) /\ LastLiterals \in Nat \ {0}
      <4>1. \A k \in 1 .. n : at[k] + LastLiterals <= Len(src)
        BY <1>3 DEF Early
      <4> HIDE DEF n, seqs
      <4>2. QED
        BY <3>1, <4>1, Lz4BlockAssumption
    <3>3. at[n] = Len(src)
      BY <1>3, <1>5
    <3>4. QED
      BY <1>4, <3>2, <3>3
  <2>3. QED
    BY <1>3, <1>4, <1>5, <2>1, <2>2 DEF SequencesTell
<1>6. CASE t.anchor # Len(src)
  <2>1. PICK q \in Sequence : /\ LastRun(src, t.anchor) = <<q>> /\ q.len = 0
                              /\ Tells(q, src, t.anchor, Len(src))
    <3>1. t.anchor \in 0 .. Len(src) - 1
      BY <1>2, <1>4, <1>6
    <3>2. QED
      BY <3>1, LastRunTells
  <2> DEFINE more == Append(seqs, q)
             new == Longer(at, n, Len(src))
  <2>2. SequencesOf(src) = more
    BY <1>1, <1>4, <2>1
  <2>3. more \in Seq(Sequence) /\ Len(more) = n + 1 /\ (\A k \in 1 .. n : more[k] = seqs[k]) /\ more[n + 1] = q
    BY <1>4, AppendProperties
  <2>4. Told(more, src, new)
    BY <1>3, <1>4, <2>1, ToldAppend
  <2>5. (\A k \in 0 .. n : new[k] = at[k]) /\ new[n + 1] = Len(src)
    BY <1>4 DEF Longer
  <2> HIDE DEF more, new, seqs, n
  <2>6. ASSUME NEW k \in 1 .. n + 1, k < n + 1
        PROVE  /\ more[k].len # 0
               /\ new[k] + LastLiterals <= Len(src) /\ new[k] - more[k].len + MfLimit <= Len(src)
    <3>1. k \in 1 .. n /\ k \in 0 .. n
      BY <1>4, <2>6
    <3>2. more[k] = seqs[k] /\ new[k] = at[k]
      BY <2>3, <2>5, <3>1
    <3>3. QED
      BY <1>3, <3>1, <3>2 DEF Early, seqs, n
  <2>7. SequencesTell(more, src, new)
    BY <1>4, <2>1, <2>3, <2>4, <2>5, <2>6 DEF SequencesTell
  <2>8. QED
    BY <2>2, <2>7
<1>7. QED
  BY <1>5, <1>6

\* Where a block ends: in so many literals, and so far behind the last match.
LEMMA HowABlockEnds ==
    ASSUME NEW src \in Seq(Byte), NEW seqs, seqs = SequencesOf(src),
           NEW n \in Nat, n = Len(seqs), n > 1
    PROVE  /\ seqs[n].len = 0 /\ Len(seqs[n].lits) >= LastLiterals
           /\ seqs[n - 1].len + Len(seqs[n].lits) >= MfLimit
<1>1. PICK at : SequencesTell(seqs, src, at)
  BY SequencesOfText
<1>2. PICK k \in Nat : k = n - 1
  OBVIOUS
<1>3. k \in 1 .. n /\ n \in 1 .. n /\ k < n /\ k \in 0 .. n /\ n \in 0 .. n
  BY <1>2
<1>4. seqs \in Seq(Sequence) /\ Told(seqs, src, at) /\ at[n] = Len(src) /\ seqs[n].len = 0
  BY <1>1, <1>3 DEF SequencesTell
<1>5. /\ at[k] + LastLiterals <= Len(src) /\ at[k] - seqs[k].len + MfLimit <= Len(src)
  BY <1>1, <1>3 DEF SequencesTell
<1>6. Tells(seqs[n], src, at[k], at[n]) /\ at[k] \in Nat
  BY <1>2, <1>3, <1>4 DEF Told
<1>7. seqs[n] \in Sequence /\ seqs[k] \in Sequence
  BY <1>3, <1>4, ElementOfSeq
<1>8. Len(seqs[n].lits) \in Nat /\ seqs[k].len \in Nat /\ Len(src) \in Nat
  BY <1>7 DEF Sequence
<1>9. at[k] + Len(seqs[n].lits) + 0 = Len(src)
  BY <1>4, <1>6 DEF Tells
<1>10. Len(seqs[n].lits) >= LastLiterals /\ seqs[k].len + Len(seqs[n].lits) >= MfLimit
  BY <1>5, <1>6, <1>8, <1>9, Constants, SMTT(30)
<1> QED
  BY <1>2, <1>4, <1>10

-----------------------------------------------------------------------------
(* What _lz4_emit writes, and how a length and a token are read.           *)

LEMMA ExtensionOf ==
    ASSUME NEW n \in Nat
    PROVE  /\ Extension(n) \in Seq(Byte) /\ Len(Extension(n)) = n \div Ext + 1
           /\ \A i \in 1 .. n \div Ext : Extension(n)[i] = Ext
           /\ Extension(n)[n \div Ext + 1] = n % Ext
<1> DEFINE k == n \div Ext
           x == [i \in 1 .. k |-> Ext]
           y == <<n % Ext>>
<1>1. Ext \in 1 .. 255
  BY Lz4BlockAssumption
<1>2. k \in Nat /\ n % Ext \in 0 .. Ext - 1
  BY <1>1, Division
<1>3. x \in Seq(Byte) /\ Len(x) = k
  <2>1. x \in [1 .. k -> Byte]
    BY <1>1 DEF Byte
  <2> HIDE DEF x, k
  <2>2. QED
    BY <1>2, <2>1, SeqOfFunction
<1>4. y \in Seq(Byte) /\ Len(y) = 1 /\ y[1] = n % Ext
  BY <1>1, <1>2 DEF Byte
<1>5. \A i \in 1 .. k : x[i] = Ext
  OBVIOUS
<1>6. Extension(n) = x \o y
  BY DEF Extension
<1> HIDE DEF x, y, k
<1>7. x \o y \in Seq(Byte) /\ Len(x \o y) = k + 1
      /\ \A i \in 1 .. k + 1 : (x \o y)[i] = IF i <= k THEN x[i] ELSE y[i - k]
  <2>1. /\ x \o y \in Seq(Byte) /\ Len(x \o y) = Len(x) + Len(y)
        /\ \A i \in 1 .. Len(x) + Len(y) : (x \o y)[i] = IF i <= Len(x) THEN x[i] ELSE y[i - Len(x)]
    BY <1>3, <1>4, ConcatProperties
  <2>2. Len(x) = k /\ Len(y) = 1
    BY <1>3, <1>4
  <2>3. QED
    BY <2>1, <2>2
<1>8. (\A i \in 1 .. k : (x \o y)[i] = Ext) /\ (x \o y)[k + 1] = n % Ext
  BY <1>2, <1>4, <1>5, <1>7
<1>9. QED
  BY <1>6, <1>7, <1>8 DEF k

LEMMA LongType ==
    ASSUME NEW n \in Nat PROVE Long(n) \in Seq(Byte) /\ Len(Long(n)) \in Nat
<1>1. Nibble \in Nat
  BY Lz4BlockAssumption, SMTT(30)
<1>2. CASE n >= Nibble
  <2>1. n - Nibble \in Nat
    BY <1>1, <1>2
  <2>2. Extension(n - Nibble) \in Seq(Byte)
    BY <2>1, ExtensionOf
  <2>3. QED
    BY <1>2, <2>2 DEF Long
<1>3. CASE ~(n >= Nibble)
  BY <1>3 DEF Long
<1>4. QED
  BY <1>2, <1>3, SMTT(30)

\* A length is read as it was written.
LEMMA LengthRead ==
    ASSUME NEW bytes \in Seq(Byte), NEW p \in Nat, NEW n \in Nat, Lies(Long(n), bytes, p)
    PROVE  /\ Length(bytes, p, Min({n, Nibble})) = [len |-> n, sp |-> p + Len(Long(n))]
           /\ p + Len(Long(n)) <= Len(bytes)
<1>1. Nibble \in Nat /\ Ext \in Nat \ {0} /\ Len(bytes) \in Nat
  BY Lz4BlockAssumption
<1>2. Min({n, Nibble}) \in {n, Nibble} /\ Min({n, Nibble}) <= n /\ Min({n, Nibble}) <= Nibble
  <2>1. n \in Int /\ Nibble \in Int
    BY <1>1
  <2>2. QED
    BY <2>1, MinOfTwo
<1>3. p + Len(Long(n)) <= Len(bytes) /\ \A i \in 1 .. Len(Long(n)) : bytes[p + i] = Long(n)[i]
  BY DEF Lies
<1>4. CASE n < Nibble
  <2>1. Min({n, Nibble}) = n /\ n # Nibble
    BY <1>1, <1>2, <1>4
  <2>2. Long(n) = <<>> /\ Len(Long(n)) = 0
    BY <1>1, <1>4 DEF Long
  <2>3. QED
    BY <1>3, <2>1, <2>2 DEF Length
<1>5. CASE n >= Nibble
  <2> DEFINE m == n - Nibble
             k == m \div Ext
             e == p + k + 1
             stops == {i \in p + 1 .. Len(bytes) : bytes[i] # Ext}
  <2>1. Min({n, Nibble}) = Nibble
    BY <1>1, <1>2, <1>5
  <2>2. m \in Nat /\ Long(n) = Extension(m)
    BY <1>1, <1>5 DEF Long
  <2>3. k \in Nat /\ m % Ext \in 0 .. Ext - 1 /\ k * Ext + (m % Ext) = m
    <3> HIDE DEF m
    <3>1. QED
      BY <1>1, <2>2, Division
  <2>4. Len(Long(n)) = k + 1 /\ (\A i \in 1 .. k : Long(n)[i] = Ext) /\ Long(n)[k + 1] = m % Ext
    <3> HIDE DEF m
    <3>1. QED
      BY <2>2, ExtensionOf
  <2> HIDE DEF k, m
  <2>5. e <= Len(bytes) /\ e \in p + 1 .. Len(bytes) /\ bytes[e] = m % Ext /\ bytes[e] # Ext
    <3>1. e <= Len(bytes) /\ e \in p + 1 .. Len(bytes)
      BY <1>1, <1>3, <2>3, <2>4
    <3>2. k + 1 \in 1 .. k + 1 /\ p + (k + 1) = e
      BY <2>3
    <3>3. bytes[p + (k + 1)] = Long(n)[k + 1]
      BY <1>3, <2>4, <3>2
    <3>4. QED
      BY <1>1, <2>3, <2>4, <3>1, <3>2, <3>3, SMTT(30)
  <2>6. \A i \in p + 1 .. p + k : bytes[i] = Ext
    <3> SUFFICES ASSUME NEW i \in p + 1 .. p + k PROVE bytes[i] = Ext
      OBVIOUS
    <3>1. i - p \in 1 .. k /\ i - p \in 1 .. k + 1 /\ p + (i - p) = i
      BY <2>3
    <3>2. bytes[p + (i - p)] = Long(n)[i - p]
      BY <1>3, <2>4, <3>1
    <3>3. QED
      BY <2>4, <3>1, <3>2
  <2>7. Min(stops) = e /\ stops # {}
    <3>1. e \in stops /\ stops \subseteq Int
      BY <2>5
    <3>2. \A i \in stops : e <= i
      <4> SUFFICES ASSUME NEW i \in stops, i < e PROVE FALSE
        BY <1>1, <2>3, SMTT(30)
      <4>1. i \in p + 1 .. p + k /\ bytes[i] # Ext
        BY <2>3
      <4>2. QED
        BY <2>6, <4>1
    <3> HIDE DEF stops, e
    <3>3. QED
      BY <3>1, <3>2, MinIs
  <2>8. Length(bytes, p, Nibble) = [len |-> Nibble + (e - p - 1) * Ext + bytes[e], sp |-> e]
    <3> HIDE DEF e
    <3>1. QED
      BY <2>7 DEF Length
  <2>9. e - p - 1 = k
    BY <2>3
  <2>10. Nibble + k * Ext + bytes[e] = n
    <3>1. Nibble + m = n /\ k * Ext + bytes[e] = m
      BY <1>1, <2>3, <2>5 DEF m
    <3>2. k * Ext \in Int /\ bytes[e] \in Int
      BY <1>1, <2>3, <2>5
    <3> DEFINE u == k * Ext
               v == bytes[e]
    <3> HIDE DEF u, v
    <3>3. u + v = m /\ u \in Int /\ v \in Int
      BY <3>1, <3>2 DEF u, v
    <3>4. Nibble + u + v = n
      BY <1>1, <2>2, <3>1, <3>3
    <3>5. QED
      BY <3>4 DEF u, v
  <2>11. p + Len(Long(n)) = e
    BY <2>3, <2>4
  <2>12. Length(bytes, p, Nibble) = [len |-> n, sp |-> e]
    <3> HIDE DEF e
    <3>1. QED
      BY <2>8, <2>9, <2>10
  <2>13. QED
    BY <1>3, <2>1, <2>11, <2>12
<1>6. QED
  BY <1>1, <1>4, <1>5

\* The token holds the beginnings of both lengths.
LEMMA TokenRead ==
    ASSUME NEW l \in Nat, NEW m \in Nat
    PROVE  /\ Token(l, m) \in Byte
           /\ (Token(l, m) \div (Nibble + 1)) % (Nibble + 1) = Min({l, Nibble})
           /\ Token(l, m) % (Nibble + 1) = Min({m, Nibble})
<1> DEFINE x == Min({l, Nibble})
           y == Min({m, Nibble})
           d == Nibble + 1
<1>1. Nibble \in 1 .. 15
  BY Lz4BlockAssumption
<1>2. x \in {l, Nibble} /\ x <= Nibble /\ y \in {m, Nibble} /\ y <= Nibble
  <2>1. l \in Int /\ m \in Int /\ Nibble \in Int
    BY <1>1
  <2>2. QED
    BY <2>1, MinOfTwo
<1>3. x \in 0 .. 15 /\ y \in 0 .. 15 /\ d \in 1 .. 16 /\ x < d /\ y < d
  BY <1>1, <1>2
<1>4. Token(l, m) = x * d + y
  BY DEF Token
<1> HIDE DEF x, y, d
<1>5. (x * d + y) \div d = x /\ (x * d + y) % d = y
  BY <1>3, Digits
<1>6. x % d = x
  BY <1>3, SmallRemainder
<1>7. \A u \in 0 .. 15 : \A v \in 1 .. 16 : u * v \in 0 .. 240
  OBVIOUS
<1>8. x * d + y \in Byte
  BY <1>3, <1>7 DEF Byte
<1>9. QED
  BY <1>4, <1>5, <1>6, <1>8 DEF x, y, d

-----------------------------------------------------------------------------
\* What Emit writes for a sequence that tells something.
LEMMA EmitType ==
    ASSUME NEW q \in Sequence, q.len # 0 => q.len >= MinMatch /\ q.dist \in 1 .. MaxOffset
    PROVE  /\ Emit(q) \in Seq(Byte) /\ MatchPart(q) \in Seq(Byte) /\ q.lits \in Seq(Byte)
           /\ (IF q.len = 0 THEN 0 ELSE q.len - MinMatch) \in Nat
           /\ Len(Emit(q)) = 1 + Len(Long(Len(q.lits))) + Len(q.lits) + Len(MatchPart(q))
           /\ q.len # 0 => Len(MatchPart(q)) = 2 + Len(Long(q.len - MinMatch))
<1> DEFINE l == Len(q.lits)
           m == IF q.len = 0 THEN 0 ELSE q.len - MinMatch
           t == <<Token(l, m)>>
           u == <<q.dist % 256, q.dist \div 256>>
<1>1. q.lits \in Seq(Byte) /\ q.dist \in Nat /\ q.len \in Nat /\ l \in Nat
  BY DEF Sequence
<1>2. MinMatch \in Nat /\ MaxOffset \in Nat /\ MaxOffset < 65536
  BY Constants
<1>3. m \in Nat
  BY <1>1, <1>2
<1>4. t \in Seq(Byte) /\ Len(t) = 1
  <2>1. Token(l, m) \in Byte
    <3> HIDE DEF l, m
    <3>1. QED
      BY <1>1, <1>3, TokenRead
  <2> HIDE DEF l, m
  <2>2. QED
    BY <2>1
<1>5. q.len # 0 => u \in Seq(Byte) /\ Len(u) = 2
  <2> SUFFICES ASSUME q.len # 0 PROVE u \in Seq(Byte) /\ Len(u) = 2
    OBVIOUS
  <2>0. q.dist \in 1 .. MaxOffset
    BY Zenon
  <2>1. q.dist \in Nat /\ q.dist < 65536
    BY <1>2, <2>0
  <2>2. q.dist % 256 \in Byte /\ q.dist \div 256 \in Byte
    <3>1. \A d \in Nat : d < 65536 => d % 256 \in 0 .. 255 /\ d \div 256 \in 0 .. 255
      OBVIOUS
    <3>2. QED
      BY <2>1, <3>1 DEF Byte
  <2>3. QED
    BY <2>2
<1>6. MatchPart(q) \in Seq(Byte) /\ (q.len # 0 => Len(MatchPart(q)) = 2 + Len(Long(q.len - MinMatch)))
  <2>1. CASE q.len = 0
    BY <2>1 DEF MatchPart
  <2>2. CASE q.len # 0
    <3> DEFINE v == Long(q.len - MinMatch)
    <3>1. v \in Seq(Byte)
      <4>1. q.len - MinMatch \in Nat
        BY <1>3, <2>2
      <4>2. QED
        BY <4>1, LongType
    <3>2. MatchPart(q) = u \o v
      BY <2>2 DEF MatchPart
    <3> HIDE DEF u, v
    <3>3. u \in Seq(Byte) /\ Len(u) = 2
      BY <1>5, <2>2
    <3>4. u \o v \in Seq(Byte) /\ Len(u \o v) = Len(u) + Len(v)
      BY <3>1, <3>3, ConcatProperties
    <3>5. QED
      BY <3>2, <3>3, <3>4 DEF v
  <2>3. QED
    BY <2>1, <2>2
<1>7. Long(l) \in Seq(Byte)
  <2> HIDE DEF l
  <2>1. QED
    BY <1>1, LongType
<1>8. Emit(q) = ((t \o Long(l)) \o q.lits) \o MatchPart(q)
  BY DEF Emit
<1> HIDE DEF t, u, m
<1> DEFINE a == Long(l)
           b == q.lits
           c == MatchPart(q)
<1>9. a \in Seq(Byte) /\ b \in Seq(Byte) /\ c \in Seq(Byte) /\ Len(a) \in Nat /\ Len(b) \in Nat /\ Len(c) \in Nat
  BY <1>1, <1>6, <1>7
<1>10. Emit(q) = ((t \o a) \o b) \o c
  BY <1>8
<1> HIDE DEF a, b, c
<1>11. t \o a \in Seq(Byte) /\ Len(t \o a) = 1 + Len(a)
  BY <1>4, <1>9, ConcatProperties, ZenonT(40)
<1>12. (t \o a) \o b \in Seq(Byte) /\ Len((t \o a) \o b) = 1 + Len(a) + Len(b)
  <2> DEFINE x == t \o a
  <2> HIDE DEF x
  <2>1. x \o b \in Seq(Byte) /\ Len(x \o b) = Len(x) + Len(b)
    BY <1>9, <1>11, ConcatProperties DEF x
  <2>2. QED
    BY <1>9, <1>11, <2>1 DEF x
<1>13. Emit(q) \in Seq(Byte) /\ Len(Emit(q)) = 1 + Len(a) + Len(b) + Len(c)
  <2> DEFINE x == (t \o a) \o b
  <2> HIDE DEF x
  <2>1. x \o c \in Seq(Byte) /\ Len(x \o c) = Len(x) + Len(c)
    BY <1>9, <1>12, ConcatProperties DEF x
  <2>2. QED
    BY <1>9, <1>10, <1>12, <2>1 DEF x
<1>14. QED
  BY <1>1, <1>3, <1>6, <1>13 DEF a, b, c, m

\* Its parts, where it lies.
LEMMA EmitLies ==
    ASSUME NEW q \in Sequence, q.len # 0 => q.len >= MinMatch /\ q.dist \in 1 .. MaxOffset,
           NEW bytes \in Seq(Byte), NEW p \in Nat, Lies(Emit(q), bytes, p)
    PROVE  LET l == Len(q.lits)
               at == p + 1 + Len(Long(l))
           IN  /\ bytes[p + 1] = Token(l, IF q.len = 0 THEN 0 ELSE q.len - MinMatch)
               /\ Lies(Long(l), bytes, p + 1)
               /\ Lies(q.lits, bytes, at)
               /\ Lies(MatchPart(q), bytes, at + l)
<1> DEFINE l == Len(q.lits)
           k == Token(l, IF q.len = 0 THEN 0 ELSE q.len - MinMatch)
           t == <<k>>
           a == Long(l)
           b == q.lits
           c == MatchPart(q)
<1>1. b \in Seq(Byte) /\ c \in Seq(Byte) /\ (IF q.len = 0 THEN 0 ELSE q.len - MinMatch) \in Nat
  BY EmitType
<1>2. l \in Nat
  BY <1>1
<1>3. a \in Seq(Byte) /\ Len(a) \in Nat
  <2> HIDE DEF l
  <2>1. QED
    BY <1>2, LongType
<1>4. k \in Byte
  <2> HIDE DEF l
  <2>1. QED
    BY <1>1, <1>2, TokenRead
<1>5. Emit(q) = ((t \o a) \o b) \o c
  BY DEF Emit
<1> HIDE DEF k
<1>6. t \in Seq(Byte) /\ Len(t) = 1 /\ t[1] = k
  BY <1>4
<1> HIDE DEF t, a, b, c
<1> DEFINE ta == t \o a
           tab == ta \o b
<1>7. ta \in Seq(Byte) /\ Len(ta) = 1 + Len(a)
  BY <1>3, <1>6, ConcatProperties, SMTT(30)
<1>8. tab \in Seq(Byte) /\ Len(tab) = 1 + Len(a) + Len(b) /\ Len(b) \in Nat
  <2>1. Len(b) \in Nat
    BY <1>1
  <2> HIDE DEF ta
  <2>2. tab \in Seq(Byte) /\ Len(tab) = Len(ta) + Len(b)
    BY <1>1, <1>7, ConcatProperties
  <2>3. QED
    BY <1>3, <1>7, <2>1, <2>2
<1>9. Emit(q) = tab \o c
  BY <1>5
<1>10. Lies(tab, bytes, p) /\ Lies(c, bytes, p + Len(tab))
  <2> HIDE DEF tab
  <2>1. QED
    BY <1>1, <1>8, <1>9, LiesConcat
<1>11. Lies(ta, bytes, p) /\ Lies(b, bytes, p + Len(ta))
  <2> HIDE DEF ta
  <2>1. QED
    BY <1>1, <1>7, <1>10, LiesConcat
<1>12. Lies(t, bytes, p) /\ Lies(a, bytes, p + Len(t))
  BY <1>3, <1>6, <1>11, LiesConcat
<1>13. bytes[p + 1] = k
  BY <1>6, <1>12 DEF Lies
<1> HIDE DEF ta, tab
<1>14. p + Len(tab) = (p + 1 + Len(a)) + Len(b) /\ p + Len(ta) = p + 1 + Len(a)
  BY <1>3, <1>7, <1>8
<1>15. Lies(a, bytes, p + 1) /\ Lies(b, bytes, p + 1 + Len(a)) /\ Lies(c, bytes, (p + 1 + Len(a)) + Len(b))
  BY <1>6, <1>10, <1>11, <1>12, <1>14
<1>16. QED
  BY <1>13, <1>15 DEF k, a, b, c

-----------------------------------------------------------------------------
(* A sequence as it is decoded.                                            *)

\* An answer with another position and output.
Onward(a, w, y) == [a EXCEPT !.sp = w, !.out = y]

LEMMA AnswerWith ==
    ASSUME NEW sp, NEW out, NEW err, NEW w, NEW y
    PROVE  Onward([sp |-> sp, out |-> out, err |-> err], w, y) = [sp |-> w, out |-> y, err |-> err]
<1> DEFINE r == [[sp |-> sp, out |-> out, err |-> err] EXCEPT !.sp = w, !.out = y]
<1>1. r \in [sp : {w}, out : {y}, err : {err}]
  OBVIOUS
<1> HIDE DEF r
<1>2. r = [sp |-> w, out |-> y, err |-> err]
  BY <1>1
<1>3. QED
  BY <1>2 DEF r, Onward

\* The output so far and the text up to a; the decoder there, having read p bytes.
Joined(out, text, a) == out \o SubSeq(text, 1, a)

Says(p, out, text, a) == [sp |-> p, out |-> Joined(out, text, a), err |-> "none"]

LEMMA JoinedType ==
    ASSUME NEW out \in Seq(Byte), NEW text \in Seq(Byte), NEW a \in 0 .. Len(text)
    PROVE  /\ Joined(out, text, a) \in Seq(Byte) /\ Len(Joined(out, text, a)) = Len(out) + a
           /\ \A i \in 1 .. a : Joined(out, text, a)[Len(out) + i] = text[i]
<1> DEFINE x == SubSeq(text, 1, a)
<1>1. a \in Nat /\ Len(text) \in Nat /\ Len(out) \in Nat /\ \A i \in 1 .. a : text[i] \in Byte
  OBVIOUS
<1>2. x \in Seq(Byte) /\ Len(x) = a /\ \A i \in 1 .. a : x[i] = text[i]
  BY <1>1, SubSeqProperties
<1>3. Joined(out, text, a) = out \o x
  BY DEF Joined
<1> HIDE DEF x
<1>4. /\ out \o x \in Seq(Byte) /\ Len(out \o x) = Len(out) + Len(x)
      /\ \A i \in 1 .. Len(out) + Len(x) :
            (out \o x)[i] = IF i <= Len(out) THEN out[i] ELSE x[i - Len(out)]
  BY <1>2, ConcatProperties
<1>5. ASSUME NEW i \in 1 .. a PROVE (out \o x)[Len(out) + i] = text[i]
  <2>1. Len(out) + i \in 1 .. Len(out) + Len(x) /\ ~(Len(out) + i <= Len(out)) /\ (Len(out) + i) - Len(out) = i
    BY <1>1, <1>2
  <2>2. QED
    BY <1>2, <1>4, <2>1
<1>6. QED
  BY <1>2, <1>3, <1>4, <1>5

LEMMA JoinedMore ==
    ASSUME NEW out \in Seq(Byte), NEW text \in Seq(Byte), NEW a \in Nat, NEW b \in Nat, a <= b, b <= Len(text)
    PROVE  Joined(out, text, a) \o SubSeq(text, a + 1, b) = Joined(out, text, b)
<1> DEFINE x == SubSeq(text, 1, a)
           y == SubSeq(text, a + 1, b)
<1>1. x \o y = SubSeq(text, 1, b)
  BY StretchesJoin
<1>2. x \in Seq(Byte) /\ y \in Seq(Byte)
  <2>1. (\A i \in 1 .. a : text[i] \in Byte) /\ (\A i \in a + 1 .. b : text[i] \in Byte)
    OBVIOUS
  <2>2. QED
    BY <2>1, SubSeqProperties
<1>3. Joined(out, text, a) = out \o x /\ Joined(out, text, b) = out \o (x \o y)
  BY <1>1 DEF Joined
<1> HIDE DEF x, y
<1>4. (out \o x) \o y = out \o (x \o y)
  BY <1>2, ConcatAssociative
<1>5. Joined(out, text, a) \o y = Joined(out, text, b)
  BY <1>3, <1>4
<1>6. QED
  BY <1>5 DEF y

LEMMA JoinedEnds ==
    ASSUME NEW out \in Seq(Byte), NEW text \in Seq(Byte)
    PROVE  Joined(out, text, 0) = out /\ Joined(out, text, Len(text)) = out \o text
<1>1. SubSeq(text, 1, 0) = <<>> /\ SubSeq(text, 1, Len(text)) = text
  <2>1. SubSeq(text, 1, 0) = <<>>
    OBVIOUS
  <2>2. SubSeq(text, 1, Len(text)) = text
    OBVIOUS
  <2>3. QED
    BY <2>1, <2>2
<1>2. out \o <<>> = out
  OBVIOUS
<1>3. QED
  BY <1>1, <1>2 DEF Joined

\* A match is copied as it was found.
LEMMA RepeatRead ==
    ASSUME NEW out \in Seq(Byte), NEW text \in Seq(Byte), NEW b \in Nat, NEW d \in Nat \ {0}, NEW len \in Nat,
           d <= b, b + len <= Len(text), Repeats(text, b, d, len)
    PROVE  Joined(out, text, b) \o Repeat(Joined(out, text, b), d, len) = Joined(out, text, b + len)
<1> DEFINE j == Joined(out, text, b)
           m == Len(out)
           y == SubSeq(text, b + 1, b + len)
           r == Repeat(j, d, len)
<1>1. m \in Nat /\ b \in 0 .. Len(text) /\ Len(text) \in Nat
  OBVIOUS
<1>2. Len(j) = m + b /\ \A i \in 1 .. b : j[m + i] = text[i]
  <2> HIDE DEF m
  <2>1. QED
    BY <1>1, JoinedType DEF m
<1>3. \A i \in 1 .. len : text[b - d + 1 + ((i - 1) % d)] = text[b + i]
  <2>1. b \in Int
    OBVIOUS
  <2>2. QED
    BY <2>1, Periodic
<1>4. y \in Seq(Byte) /\ Len(y) = len /\ \A i \in 1 .. len : y[i] = text[b + i]
  <2>1. \A i \in b + 1 .. b + len : text[i] \in Byte
    BY <1>1
  <2>2. (b + len) - (b + 1) + 1 = len /\ \A i \in 1 .. len : (b + 1 + i) - 1 = b + i
    OBVIOUS
  <2>3. y \in Seq(Byte)
    BY <2>1, SubSeqProperties
  <2>4. Len(y) = len
    BY <1>1, <2>1, SubSeqProperties
  <2>5. \A i \in 1 .. len : y[i] = text[b + i]
    BY <1>1, <2>1, SubSeqProperties
  <2>6. QED
    BY <2>3, <2>4, <2>5
<1> HIDE DEF j, m, y
<1>5. r = [i \in 1 .. len |-> j[Len(j) - d + 1 + ((i - 1) % d)]]
  BY DEF Repeat
<1> HIDE DEF r
<1>6. ASSUME NEW i \in 1 .. len PROVE r[i] = y[i]
  <2> DEFINE e == (i - 1) % d
  <2>1. e \in 0 .. d - 1
    <3>1. i - 1 \in Nat
      OBVIOUS
    <3>2. QED
      BY <3>1, Division
  <2>2. r[i] = j[Len(j) - d + 1 + e]
    BY <1>5
  <2>3. text[b - d + 1 + e] = text[b + i]
    BY <1>3
  <2> HIDE DEF e
  <2>4. Len(j) - d + 1 + e = m + (b - d + 1 + e) /\ b - d + 1 + e \in 1 .. b
    BY <1>1, <1>2, <2>1
  <2>5. j[m + (b - d + 1 + e)] = text[b - d + 1 + e]
    BY <1>2, <2>4
  <2>6. QED
    BY <1>4, <2>2, <2>3, <2>4, <2>5
<1>7. r = y
  <2>1. y = [i \in 1 .. len |-> y[i]]
    BY <1>4
  <2>2. r = [i \in 1 .. len |-> y[i]]
    <3>1. r = [i \in 1 .. len |-> r[i]]
      BY <1>5
    <3>2. QED
      BY <1>6, <3>1
  <2>3. QED
    BY <2>1, <2>2
<1>8. j \o y = Joined(out, text, b + len)
  <2>1. b + len \in Nat /\ b <= b + len
    OBVIOUS
  <2>2. QED
    BY <2>1, JoinedMore DEF j, y
<1>9. QED
  BY <1>7, <1>8 DEF j, r

\* There is room for the text behind the output.
Roomy(out, text, cap, lim) ==
    /\ cap \in Int /\ lim \in Int
    /\ Len(out) + Len(text) <= cap /\ Len(out) + Len(text) <= lim

\* The match of q tells the text from b on.
Copies(q, text, b) ==
    /\ q.len # 0 /\ q.len >= MinMatch /\ q.dist \in 1 .. MaxOffset
    /\ b + q.len <= Len(text) /\ q.dist <= b /\ Repeats(text, b, q.dist, q.len)

\* It is decoded to that.
LEMMA MatchRead ==
    ASSUME NEW out \in Seq(Byte), NEW text \in Seq(Byte), NEW bytes \in Seq(Byte),
           NEW q \in Sequence, NEW b \in Nat, Copies(q, text, b),
           NEW n, n = Min({q.len - MinMatch, Nibble}), NEW p \in Nat, Lies(MatchPart(q), bytes, p),
           NEW lo \in 0 .. Len(out), NEW cap, NEW lim, Roomy(out, text, cap, lim), NEW e
    PROVE  DecMatch(bytes, Says(p, out, text, b), n, lo, cap, lim, e)
             = Says(p + Len(MatchPart(q)), out, text, b + q.len)
<1> DEFINE d == q.dist
           m == q.len - MinMatch
           u == <<d % 256, d \div 256>>
           v == Long(m)
           a == Says(p, out, text, b)
           sp == p + 2 + Len(v)
<1>0. /\ q.len # 0 /\ q.len >= MinMatch /\ q.dist \in 1 .. MaxOffset
      /\ b + q.len <= Len(text) /\ q.dist <= b /\ Repeats(text, b, q.dist, q.len)
  BY DEF Copies
<1>1. MinMatch \in Nat /\ MaxOffset \in Nat /\ MaxOffset < 65536
  BY Constants
<1>2. q.len \in Nat /\ m \in Nat /\ d \in 1 .. MaxOffset
  BY <1>0, <1>1 DEF Sequence
<1>3. d \in Nat \ {0} /\ d < 65536
  <2> HIDE DEF d
  <2>1. QED
    BY <1>1, <1>2
<1>4. v \in Seq(Byte) /\ Len(v) \in Nat
  <2> HIDE DEF m
  <2>1. QED
    BY <1>2, LongType
<1>5. d % 256 \in Byte /\ d \div 256 \in Byte /\ (d % 256) + 256 * (d \div 256) = d
  <2> HIDE DEF d
  <2>1. \A x \in Nat : x < 65536 => /\ x % 256 \in 0 .. 255 /\ x \div 256 \in 0 .. 255
                                    /\ (x % 256) + 256 * (x \div 256) = x
    OBVIOUS
  <2>2. QED
    BY <1>3, <2>1 DEF Byte
<1>6. u \in Seq(Byte) /\ Len(u) = 2 /\ u[1] = d % 256 /\ u[2] = d \div 256
  <2> HIDE DEF d
  <2>1. QED
    BY <1>5
<1>7. MatchPart(q) = u \o v
  BY <1>0 DEF MatchPart
<1> HIDE DEF u, v, d, m
<1>8. Lies(u, bytes, p) /\ Lies(v, bytes, p + 2) /\ Len(u \o v) = 2 + Len(v)
  <2>1. Lies(u, bytes, p) /\ Lies(v, bytes, p + Len(u))
    BY <1>4, <1>6, <1>7, LiesConcat
  <2>2. Len(u \o v) = Len(u) + Len(v)
    BY <1>4, <1>6, ConcatProperties, ZenonT(40)
  <2>3. QED
    BY <1>6, <2>1, <2>2
<1>9. p + 2 <= Len(bytes) /\ bytes[p + 1] = d % 256 /\ bytes[p + 2] = d \div 256
  BY <1>6, <1>8 DEF Lies
<1>10. bytes[p + 1] + 256 * bytes[p + 2] = d
  BY <1>5, <1>9
<1>11. Length(bytes, p + 2, n) = [len |-> m, sp |-> sp] /\ sp <= Len(bytes)
  <2>1. p + 2 \in Nat
    OBVIOUS
  <2>2. Lies(Long(m), bytes, p + 2)
    BY <1>8 DEF v
  <2>3. QED
    BY <1>2, <2>1, <2>2, LengthRead DEF m, v
<1>12. a.sp = p /\ a.out = Joined(out, text, b) /\ Len(a.out) = Len(out) + b /\ Len(out) \in Nat /\ Len(text) \in Nat
       /\ Len(bytes) \in Nat
  <2>1. a.sp = p /\ a.out = Joined(out, text, b)
    BY DEF Says
  <2>2. Len(out) \in Nat /\ Len(text) \in Nat /\ Len(bytes) \in Nat
    OBVIOUS
  <2>3. b \in 0 .. Len(text)
    BY <1>0, <1>2, <2>2
  <2>4. Len(Joined(out, text, b)) = Len(out) + b
    BY <2>3, JoinedType
  <2>5. QED
    BY <2>1, <2>2, <2>4
<1>13. m + MinMatch = q.len
  BY <1>1, <1>2 DEF m
<1>14. Overflow(Len(a.out) + m + MinMatch, cap, lim, e) = "none"
  <2>1. cap \in Int /\ lim \in Int /\ Len(out) + Len(text) <= cap /\ Len(out) + Len(text) <= lim
    BY DEF Roomy
  <2>2. \A x, y, z, w \in Int : x + w <= y /\ z <= w => x + z <= y
    OBVIOUS
  <2>3. Len(a.out) + m + MinMatch = Len(out) + (b + q.len)
    BY <1>1, <1>2, <1>12, <1>13
  <2>4. Len(out) + (b + q.len) <= cap /\ Len(out) + (b + q.len) <= lim
    <3>1. b + q.len \in Int /\ Len(out) \in Int /\ Len(text) \in Int
      BY <1>2, <1>12
    <3>2. QED
      BY <1>0, <2>1, <2>2, <3>1
  <2>5. ~(Len(out) + (b + q.len) > cap) /\ ~(Len(out) + (b + q.len) > lim)
    BY <1>2, <1>12, <2>1, <2>4
  <2>6. QED
    BY <2>3, <2>5 DEF Overflow
<1>15. d <= Len(a.out) - lo
  <2>1. lo <= Len(out) /\ lo \in Nat
    BY <1>12
  <2>2. d <= b
    BY <1>0 DEF d
  <2>3. QED
    BY <1>3, <1>12, <2>1, <2>2
<1>16. a.out \o Repeat(a.out, d, m + MinMatch) = Joined(out, text, b + q.len)
  <2> DEFINE len == q.len
  <2>1. d <= b /\ Repeats(text, b, d, len) /\ b + len <= Len(text) /\ len \in Nat /\ m + MinMatch = len
    BY <1>0, <1>2, <1>13 DEF d
  <2> HIDE DEF len
  <2>2. Joined(out, text, b) \o Repeat(Joined(out, text, b), d, len) = Joined(out, text, b + len)
    BY <1>3, <2>1, RepeatRead
  <2>3. QED
    BY <1>12, <2>1, <2>2 DEF len
<1>17. DecMatch(bytes, a, n, lo, cap, lim, e)
         = [a EXCEPT !.sp = sp, !.out = a.out \o Repeat(a.out, d, m + MinMatch)]
  <2> DEFINE l == Length(bytes, a.sp + 2, n)
             dist == bytes[a.sp + 1] + 256 * bytes[a.sp + 2]
  <2> HIDE DEF a, sp, l, dist
  <2>1. DecMatch(bytes, a, n, lo, cap, lim, e) =
          IF a.sp + 2 > Len(bytes) THEN Wrong(a, "CORRUPT_DATA")
          ELSE IF dist = 0 THEN Wrong(a, "CORRUPT_DATA")
          ELSE IF dist > Len(a.out) - lo THEN Wrong(a, "MATCH_OUT_OF_RANGE")
          ELSE IF l.sp > Len(bytes) THEN Wrong(a, "CORRUPT_DATA")
          ELSE IF Overflow(Len(a.out) + l.len + MinMatch, cap, lim, e) # "none"
            THEN Wrong(a, Overflow(Len(a.out) + l.len + MinMatch, cap, lim, e))
          ELSE [a EXCEPT !.sp = l.sp, !.out = a.out \o Repeat(a.out, dist, l.len + MinMatch)]
    BY DEF DecMatch, l, dist
  <2>2. ~(a.sp + 2 > Len(bytes))
    BY <1>9, <1>12
  <2>3. dist = d /\ d # 0
    BY <1>3, <1>10, <1>12 DEF dist
  <2>4. ~(d > Len(a.out) - lo)
    BY <1>3, <1>12, <1>15
  <2>5. l.len = m /\ l.sp = sp
    <3>1. l = [len |-> m, sp |-> sp]
      BY <1>11, <1>12 DEF l
    <3>2. QED
      BY <3>1
  <2>6. ~(sp > Len(bytes))
    <3>1. sp \in Nat
      BY <1>4 DEF sp
    <3>2. QED
      BY <1>11, <1>12, <3>1
  <2>7. QED
    BY <1>14, <2>1, <2>2, <2>3, <2>4, <2>5, <2>6
<1>18. DecMatch(bytes, a, n, lo, cap, lim, e) = [sp |-> sp, out |-> Joined(out, text, b + q.len), err |-> "none"]
  <2> DEFINE x == a.out \o Repeat(a.out, d, m + MinMatch)
             j == Joined(out, text, b)
  <2>1. a = [sp |-> p, out |-> j, err |-> "none"]
    BY DEF Says
  <2>2. DecMatch(bytes, a, n, lo, cap, lim, e) = [a EXCEPT !.sp = sp, !.out = x]
    BY <1>17
  <2>3. x = Joined(out, text, b + q.len)
    BY <1>16
  <2> HIDE DEF a, sp, x, j
  <2>4. [a EXCEPT !.sp = sp, !.out = x] = [sp |-> sp, out |-> x, err |-> "none"]
    <3>1. Onward([sp |-> p, out |-> j, err |-> "none"], sp, x) = [sp |-> sp, out |-> x, err |-> "none"]
      BY AnswerWith
    <3>2. Onward(a, sp, x) = [a EXCEPT !.sp = sp, !.out = x]
      BY DEF Onward
    <3>3. QED
      BY <2>1, <3>1, <3>2
  <2>5. QED
    BY <2>2, <2>3, <2>4
<1>19. sp = p + Len(MatchPart(q))
  BY <1>4, <1>7, <1>8
<1>20. Says(p + Len(MatchPart(q)), out, text, b + q.len) = [sp |-> sp, out |-> Joined(out, text, b + q.len), err |-> "none"]
  BY <1>19 DEF Says
<1>21. QED
  <2> HIDE DEF sp, a
  <2>1. DecMatch(bytes, a, n, lo, cap, lim, e) = Says(p + Len(MatchPart(q)), out, text, b + q.len)
    BY <1>18, <1>20
  <2>2. QED
    BY <2>1 DEF a

\* A sequence is decoded to the text that it tells.
LEMMA SequenceRead ==
    ASSUME NEW out \in Seq(Byte), NEW text \in Seq(Byte), NEW bytes \in Seq(Byte),
           NEW q \in Sequence, NEW a \in Nat, NEW b \in Nat, Tells(q, text, a, b),
           NEW p \in Nat, Lies(Emit(q), bytes, p), q.len = 0 => p + Len(Emit(q)) = Len(bytes),
           NEW lo \in 0 .. Len(out), NEW cap, NEW lim, Roomy(out, text, cap, lim), NEW e
    PROVE  DecSequence(bytes, Says(p, out, text, a), lo, cap, lim, e)
             = Says(p + Len(Emit(q)), out, text, b)
<1> DEFINE s == Says(p, out, text, a)
           l == Len(q.lits)
           m == IF q.len = 0 THEN 0 ELSE q.len - MinMatch
           at == p + 1 + Len(Long(l))
           token == bytes[p + 1]
           past == at + l
           c == a + l
           t == Says(past, out, text, c)
<1>1. /\ a + l + q.len = b /\ b <= Len(text) /\ q.lits = SubSeq(text, a + 1, a + l)
      /\ q.len # 0 => /\ q.len >= MinMatch /\ q.dist \in 1 .. MaxOffset
                      /\ q.dist <= b - q.len
                      /\ Repeats(text, b - q.len, q.dist, q.len)
  BY DEF Tells
<1>2. q.lits \in Seq(Byte) /\ q.len \in Nat /\ l \in Nat /\ m \in Nat /\ MatchPart(q) \in Seq(Byte)
      /\ Len(Emit(q)) = 1 + Len(Long(l)) + l + Len(MatchPart(q))
      /\ (q.len # 0 => Len(MatchPart(q)) = 2 + Len(Long(q.len - MinMatch)))
  <2>1. q.lits \in Seq(Byte) /\ q.len \in Nat
    BY DEF Sequence
  <2>2. l \in Nat
    BY <2>1
  <2>3. QED
    BY <1>1, <2>1, <2>2, EmitType
<1>3. Long(l) \in Seq(Byte) /\ Len(Long(l)) \in Nat /\ at \in Nat /\ past \in Nat
  <2> HIDE DEF l
  <2>1. Len(Long(l)) \in Nat /\ Long(l) \in Seq(Byte)
    BY <1>2, LongType
  <2>2. QED
    BY <1>2, <2>1
<1>4. token = Token(l, m) /\ Lies(Long(l), bytes, p + 1) /\ Lies(q.lits, bytes, at) /\ Lies(MatchPart(q), bytes, past)
  BY <1>1, EmitLies
<1> HIDE DEF m
<1>5. Length(bytes, p + 1, (token \div (Nibble + 1)) % (Nibble + 1)) = [len |-> l, sp |-> at] /\ at <= Len(bytes)
      /\ token % (Nibble + 1) = Min({m, Nibble})
  <2> HIDE DEF l, token
  <2>1. (token \div (Nibble + 1)) % (Nibble + 1) = Min({l, Nibble}) /\ token % (Nibble + 1) = Min({m, Nibble})
    BY <1>2, <1>4, TokenRead
  <2>2. p + 1 \in Nat
    OBVIOUS
  <2>3. Length(bytes, p + 1, Min({l, Nibble})) = [len |-> l, sp |-> p + 1 + Len(Long(l))] /\ p + 1 + Len(Long(l)) <= Len(bytes)
    BY <1>2, <1>4, <2>2, LengthRead
  <2>4. QED
    BY <2>1, <2>3
<1>6. Len(text) \in Nat /\ Len(out) \in Nat /\ Len(bytes) \in Nat /\ c \in Nat /\ c <= b /\ a \in 0 .. Len(text) /\ c = b - q.len
  <2>1. Len(text) \in Nat /\ Len(out) \in Nat /\ Len(bytes) \in Nat
    OBVIOUS
  <2> HIDE DEF l
  <2>2. QED
    BY <1>1, <1>2, <2>1, SMTT(30)
<1>7. SubSeq(bytes, at + 1, at + l) = q.lits
  BY <1>2, <1>3, <1>4, LiesStretch
<1>8. Joined(out, text, a) \o SubSeq(bytes, at + 1, at + l) = Joined(out, text, c)
  <2> HIDE DEF l
  <2>1. Joined(out, text, a) \o SubSeq(text, a + 1, c) = Joined(out, text, c)
    <3>1. a <= c /\ c <= Len(text)
      BY <1>1, <1>2, <1>6
    <3> HIDE DEF c
    <3>2. QED
      BY <1>6, <3>1, JoinedMore, ZenonT(40)
  <2>2. QED
    BY <1>1, <1>7, <2>1
<1>9. past <= Len(bytes)
  BY <1>2, <1>4 DEF Lies
<1>10. Len(Joined(out, text, a)) = Len(out) + a
  BY <1>6, JoinedType
<1>11. Overflow(Len(Joined(out, text, a)) + l, cap, lim, e) = "none"
  <2>1. cap \in Int /\ lim \in Int /\ Len(out) + Len(text) <= cap /\ Len(out) + Len(text) <= lim
    BY DEF Roomy
  <2>2. \A x, y, z, w \in Int : x + w <= y /\ z <= w => x + z <= y
    OBVIOUS
  <2> HIDE DEF l
  <2>3. Len(Joined(out, text, a)) + l = Len(out) + c
    BY <1>2, <1>6, <1>10
  <2>4. Len(out) + c <= cap /\ Len(out) + c <= lim
    <3>1. c \in Int /\ Len(out) \in Int /\ Len(text) \in Int /\ c <= Len(text)
      BY <1>1, <1>2, <1>6
    <3> HIDE DEF c
    <3>2. QED
      BY <2>1, <2>2, <3>1
  <2>5. ~(Len(out) + c > cap) /\ ~(Len(out) + c > lim)
    BY <1>6, <2>1, <2>4
  <2>6. QED
    BY <2>3, <2>5 DEF Overflow
<1>12. DecSequence(bytes, s, lo, cap, lim, e)
         = IF past = Len(bytes) THEN t ELSE DecMatch(bytes, t, token % (Nibble + 1), lo, cap, lim, e)
  <2> DEFINE j == Joined(out, text, a)
             x == Length(bytes, s.sp + 1, (bytes[s.sp + 1] \div (Nibble + 1)) % (Nibble + 1))
             more == SubSeq(bytes, x.sp + 1, x.sp + x.len)
             y == [s EXCEPT !.sp = x.sp + x.len, !.out = s.out \o more]
  <2>1. s.sp = p /\ s.out = j /\ s = [sp |-> p, out |-> j, err |-> "none"]
    BY DEF Says
  <2>2. y = [s EXCEPT !.sp = x.sp + x.len, !.out = @ \o SubSeq(bytes, x.sp + 1, x.sp + x.len)]
    BY DEF Says
  <2>3. DecSequence(bytes, s, lo, cap, lim, e) =
          IF x.sp > Len(bytes) THEN Wrong(s, "CORRUPT_DATA")
          ELSE IF Overflow(Len(s.out) + x.len, cap, lim, e) # "none"
            THEN Wrong(s, Overflow(Len(s.out) + x.len, cap, lim, e))
          ELSE IF x.sp + x.len > Len(bytes) THEN Wrong(s, "CORRUPT_DATA")
          ELSE IF y.sp = Len(bytes) THEN y
          ELSE DecMatch(bytes, y, bytes[s.sp + 1] % (Nibble + 1), lo, cap, lim, e)
    <3> HIDE DEF s
    <3>1. QED
      BY <2>2 DEF DecSequence
  <2> HIDE DEF s, j
  <2>4. x.sp = at /\ x.len = l
    <3>1. x = [len |-> l, sp |-> at]
      BY <1>5, <2>1
    <3> HIDE DEF x, l, at
    <3>2. QED
      BY <3>1
  <2>5. more = q.lits /\ s.out \o more = Joined(out, text, c)
    <3> HIDE DEF x, l, at
    <3>1. more = SubSeq(bytes, at + 1, at + l)
      BY <2>4
    <3>2. QED
      BY <1>7, <1>8, <2>1, <3>1 DEF j
  <2>6. y = t
    <3> DEFINE o == s.out \o more
               w == x.sp + x.len
    <3>1. o = Joined(out, text, c) /\ w = past
      BY <2>4, <2>5, Zenon
    <3>2. y = Onward(s, w, o)
      BY DEF Onward
    <3> HIDE DEF x, more, y, o, w
    <3>3. Onward([sp |-> p, out |-> j, err |-> "none"], w, o) = [sp |-> w, out |-> o, err |-> "none"]
      BY AnswerWith
    <3>4. y = [sp |-> w, out |-> o, err |-> "none"]
      BY <2>1, <3>2, <3>3
    <3>5. t = [sp |-> past, out |-> Joined(out, text, c), err |-> "none"]
      BY DEF Says
    <3> HIDE DEF past, c, t
    <3>6. QED
      BY <3>1, <3>4, <3>5
  <2>7. t.sp = past
    BY DEF Says
  <2> HIDE DEF x, y, more, t, l, at
  <2>8. ~(x.sp > Len(bytes)) /\ ~(x.sp + x.len > Len(bytes))
    BY <1>3, <1>5, <1>6, <1>9, <2>4
  <2>9. Overflow(Len(s.out) + x.len, cap, lim, e) = "none"
    BY <1>11, <2>1, <2>4 DEF j
  <2>10. bytes[s.sp + 1] = token
    BY <2>1
  <2>11. QED
    BY <2>3, <2>4, <2>6, <2>7, <2>8, <2>9, <2>10
<1>13. CASE q.len = 0
  <2>1. MatchPart(q) = <<>> /\ Len(MatchPart(q)) = 0
    BY <1>13 DEF MatchPart
  <2>2. p + Len(Emit(q)) = past /\ past = Len(bytes) /\ c = b
    <3>1. p + Len(Emit(q)) = Len(bytes)
      BY <1>13
    <3> HIDE DEF l
    <3>2. p + Len(Emit(q)) = past /\ c = b
      BY <1>2, <1>3, <1>6, <1>13, <2>1
    <3>3. QED
      BY <3>1, <3>2
  <2> HIDE DEF s, l, past, c
  <2>3. QED
    BY <1>12, <2>2 DEF s
<1>14. CASE q.len # 0
  <2>1. m = q.len - MinMatch /\ p + Len(Emit(q)) = past + Len(MatchPart(q)) /\ past # Len(bytes) /\ c + q.len = b
    <3>1. m = q.len - MinMatch
      BY <1>14 DEF m
    <3>2. Lies(MatchPart(q), bytes, past) /\ Len(MatchPart(q)) = 2 + Len(Long(m)) /\ Len(Long(m)) \in Nat
      BY <1>2, <1>4, <1>14, <3>1, LongType
    <3>3. past + Len(MatchPart(q)) <= Len(bytes)
      BY <3>2 DEF Lies
    <3> HIDE DEF l
    <3>4. p + Len(Emit(q)) = past + Len(MatchPart(q)) /\ c + q.len = b
      BY <1>1, <1>2, <1>3, <3>2
    <3>5. past # Len(bytes)
      BY <1>3, <1>6, <3>2, <3>3
    <3>6. QED
      BY <3>1, <3>4, <3>5
  <2>2. Copies(q, text, c)
    BY <1>1, <1>6, <1>14, <2>1 DEF Copies
  <2>3. Lies(MatchPart(q), bytes, past) /\ past \in Nat /\ c \in Nat
    BY <1>3, <1>4, <1>6
  <2> HIDE DEF past, c
  <2> DEFINE n == Min({m, Nibble})
  <2>n. n = Min({q.len - MinMatch, Nibble})
    BY <2>1
  <2> HIDE DEF n
  <2>4. DecMatch(bytes, Says(past, out, text, c), n, lo, cap, lim, e)
          = Says(past + Len(MatchPart(q)), out, text, c + q.len)
    BY <2>2, <2>3, <2>n, MatchRead
  <2> HIDE DEF s, token, l
  <2>5. DecSequence(bytes, s, lo, cap, lim, e) = DecMatch(bytes, t, Min({m, Nibble}), lo, cap, lim, e)
    BY <1>5, <1>12, <2>1
  <2>6. QED
    BY <2>1, <2>4, <2>5 DEF s, n
<1>15. QED
  BY <1>13, <1>14

-----------------------------------------------------------------------------
(* The decoder of a block.                                                 *)

LEMMA ByteIsNumber == \A b \in Byte : b \in Nat /\ b < 256
  BY DEF Byte

LEMMA LengthType ==
    ASSUME NEW src \in Seq(Byte), NEW sp \in Nat, NEW n \in Nat
    PROVE  LET l == Length(src, sp, n) IN l.len \in Nat /\ l.sp \in Nat /\ (l.sp <= Len(src) => l.sp >= sp)
<1> DEFINE stops == {k \in sp + 1 .. Len(src) : src[k] # Ext}
           m == Min(stops)
<1>1. Ext \in Nat /\ Len(src) \in Nat
  BY Constants
<1>2. CASE n # Nibble
  <2>1. Length(src, sp, n) = [len |-> n, sp |-> sp]
    BY <1>2 DEF Length
  <2>2. QED
    BY <2>1
<1>3. CASE n = Nibble /\ stops = {}
  <2>1. Length(src, sp, n) = [len |-> 0, sp |-> Len(src) + 1]
    BY <1>3 DEF Length
  <2>2. QED
    BY <1>1, <2>1
<1>4. CASE n = Nibble /\ stops # {}
  <2>1. stops \subseteq Nat
    OBVIOUS
  <2>2. m \in stops
    <3> HIDE DEF stops
    <3>1. PICK x \in stops : \A k \in stops : x <= k
      BY <1>4, <2>1, LeastElement
    <3>2. stops \subseteq Int
      BY <2>1
    <3>3. Min(stops) = x
      BY <3>1, <3>2, MinIs
    <3>4. QED
      BY <3>1, <3>3
  <2>3. m \in Nat /\ m > sp /\ m <= Len(src) /\ src[m] \in Nat
    <3> SUFFICES ASSUME NEW x \in stops PROVE x \in Nat /\ x > sp /\ x <= Len(src) /\ src[x] \in Nat
      BY <2>2
    <3>1. x \in 1 .. Len(src)
      OBVIOUS
    <3>2. src[x] \in Byte
      BY <3>1
    <3>3. src[x] \in Nat
      BY <3>2, ByteIsNumber
    <3>4. QED
      BY <3>1, <3>3
  <2>4. Length(src, sp, n) = [len |-> n + (m - sp - 1) * Ext + src[m], sp |-> m]
    BY <1>4 DEF Length
  <2> HIDE DEF m, stops
  <2>5. (m - sp - 1) * Ext \in Nat
    <3>1. m - sp - 1 \in Nat
      BY <2>3
    <3>2. \A x, y \in Nat : x * y \in Nat
      OBVIOUS
    <3> DEFINE u == m - sp - 1
    <3> HIDE DEF u
    <3>3. u * Ext \in Nat
      BY <1>1, <3>1, <3>2 DEF u
    <3>4. QED
      BY <3>3 DEF u
  <2>6. n + (m - sp - 1) * Ext + src[m] \in Nat
    <3> DEFINE u == (m - sp - 1) * Ext
    <3>1. u \in Nat
      BY <2>5
    <3> HIDE DEF u
    <3>2. n + u + src[m] \in Nat
      BY <2>3, <3>1
    <3>3. QED
      BY <3>2 DEF u
  <2> DEFINE v == n + (m - sp - 1) * Ext + src[m]
  <2>7. v \in Nat /\ Length(src, sp, n) = [len |-> v, sp |-> m]
    BY <2>4, <2>6
  <2> HIDE DEF v
  <2>8. QED
    BY <2>3, <2>7
<1>5. QED
  BY <1>2, <1>3, <1>4

\* The output grows behind what is there.
Continues(x, y) ==
    /\ x \in Seq(Byte) /\ y \in Seq(Byte) /\ Len(x) <= Len(y)
    /\ \A i \in 1 .. Len(x) : y[i] = x[i]

LEMMA ConcatContinues ==
    ASSUME NEW x \in Seq(Byte), NEW z \in Seq(Byte)
    PROVE  Continues(x, x) /\ Continues(x, x \o z)
<1>1. x \o z \in Seq(Byte) /\ Len(x \o z) = Len(x) + Len(z)
      /\ \A i \in 1 .. Len(x) + Len(z) : (x \o z)[i] = IF i <= Len(x) THEN x[i] ELSE z[i - Len(x)]
  BY ConcatProperties
<1>2. Len(x) \in Nat /\ Len(z) \in Nat
  OBVIOUS
<1> DEFINE y == x \o z
<1> HIDE DEF y
<1>3. y \in Seq(Byte) /\ Len(x) <= Len(y) /\ \A i \in 1 .. Len(x) : y[i] = x[i]
  BY <1>1, <1>2 DEF y
<1>4. QED
  BY <1>2, <1>3 DEF y, Continues

LEMMA ContinuesOn ==
    ASSUME NEW x, NEW y, NEW z, Continues(x, y), Continues(y, z)
    PROVE  Continues(x, z)
<1>1. Len(x) \in Nat /\ Len(y) \in Nat /\ Len(z) \in Nat /\ Len(x) <= Len(y) /\ Len(y) <= Len(z)
  BY DEF Continues
<1>2. ASSUME NEW i \in 1 .. Len(x) PROVE z[i] = x[i]
  <2>1. i \in 1 .. Len(y)
    BY <1>1
  <2>2. QED
    BY <2>1 DEF Continues
<1>3. Len(x) <= Len(z)
  BY <1>1
<1>4. QED
  BY <1>2, <1>3 DEF Continues

\* An answer from the one before: it is an error or has read more.
After(a, b) ==
    b \in Answers /\ Continues(a.out, b.out) /\ (b.err # "none" \/ b.sp > a.sp)

LEMMA WrongAfter ==
    ASSUME NEW a \in Answers, NEW e \in Errors, e # "none"
    PROVE  After(a, Wrong(a, e))
<1>1. Wrong(a, e) \in Answers /\ Wrong(a, e).err = e /\ Wrong(a, e).out = a.out /\ a.out \in Seq(Byte)
  BY DEF Wrong, Answers
<1>2. Continues(a.out, Wrong(a, e).out)
  BY <1>1, ConcatContinues
<1>3. QED
  BY <1>1, <1>2 DEF After

LEMMA OnwardAfter ==
    ASSUME NEW a \in Answers, NEW w \in Nat, NEW y \in Seq(Byte), w > a.sp, Continues(a.out, y)
    PROVE  After(a, Onward(a, w, y)) /\ Onward(a, w, y).sp = w /\ Onward(a, w, y).err = a.err
<1>1. /\ Onward(a, w, y) \in Answers /\ Onward(a, w, y).sp = w /\ Onward(a, w, y).err = a.err
      /\ Onward(a, w, y).out = y
  BY DEF Onward, Answers
<1>2. QED
  BY <1>1 DEF After

LEMMA OverflowIs ==
    ASSUME NEW n, NEW cap, NEW lim, NEW e \in Errors
    PROVE  Overflow(n, cap, lim, e) \in Errors
  BY DEF Overflow, Errors

LEMMA RepeatType ==
    ASSUME NEW out \in Seq(Byte), NEW d \in 1 .. Len(out), NEW len \in Nat
    PROVE  Repeat(out, d, len) \in Seq(Byte)
<1>1. ASSUME NEW i \in 1 .. len PROVE out[Len(out) - d + 1 + ((i - 1) % d)] \in Byte
  <2> DEFINE e == (i - 1) % d
  <2>1. e \in 0 .. d - 1
    <3>1. i - 1 \in Nat /\ d \in Nat \ {0}
      OBVIOUS
    <3>2. QED
      BY <3>1, Division
  <2> HIDE DEF e
  <2>2. Len(out) - d + 1 + e \in 1 .. Len(out)
    BY <2>1
  <2>3. out[Len(out) - d + 1 + e] \in Byte
    BY <2>2
  <2>4. QED
    BY <2>3 DEF e
<1>2. Repeat(out, d, len) \in [1 .. len -> Byte]
  BY <1>1 DEF Repeat
<1>3. QED
  BY <1>2, SeqOfFunction

LEMMA MatchType ==
    ASSUME NEW src \in Seq(Byte), NEW a \in Answers, NEW n \in Nat, NEW lo \in Nat, NEW cap, NEW lim, NEW e \in Errors
    PROVE  After(a, DecMatch(src, a, n, lo, cap, lim, e))
<1> DEFINE dist == src[a.sp + 1] + 256 * src[a.sp + 2]
           l == Length(src, a.sp + 2, n)
           over == Overflow(Len(a.out) + l.len + MinMatch, cap, lim, e)
           y == a.out \o Repeat(a.out, dist, l.len + MinMatch)
<1>1. a.sp \in Nat /\ a.out \in Seq(Byte) /\ Len(a.out) \in Nat /\ Len(src) \in Nat /\ MinMatch \in Nat
  BY Constants DEF Answers
<1>2. l.len \in Nat /\ l.sp \in Nat /\ (l.sp <= Len(src) => l.sp >= a.sp + 2)
  <2>1. a.sp + 2 \in Nat
    BY <1>1
  <2>2. QED
    BY <2>1, LengthType
<1>3. over \in Errors
  BY OverflowIs
<1>4. DecMatch(src, a, n, lo, cap, lim, e) =
        IF a.sp + 2 > Len(src) THEN Wrong(a, "CORRUPT_DATA")
        ELSE IF dist = 0 THEN Wrong(a, "CORRUPT_DATA")
        ELSE IF dist > Len(a.out) - lo THEN Wrong(a, "MATCH_OUT_OF_RANGE")
        ELSE IF l.sp > Len(src) THEN Wrong(a, "CORRUPT_DATA")
        ELSE IF over # "none" THEN Wrong(a, over)
        ELSE Onward(a, l.sp, y)
  BY DEF DecMatch, Onward
<1>5. "CORRUPT_DATA" \in Errors /\ "MATCH_OUT_OF_RANGE" \in Errors
  BY DEF Errors
<1>6. ASSUME ~(a.sp + 2 > Len(src)), dist # 0, ~(dist > Len(a.out) - lo), ~(l.sp > Len(src))
      PROVE  After(a, Onward(a, l.sp, y))
  <2>1. dist \in 1 .. Len(a.out)
    <3>1. src[a.sp + 1] \in Byte /\ src[a.sp + 2] \in Byte
      BY <1>1, <1>6
    <3>2. dist \in Nat
      <4>1. \A c, d \in Nat : c + 256 * d \in Nat
        OBVIOUS
      <4>2. QED
        BY <3>1, <4>1, ByteIsNumber
    <3> HIDE DEF dist
    <3>3. QED
      BY <1>1, <1>6, <3>2
  <2> HIDE DEF dist, l
  <2>2. l.len + MinMatch \in Nat
    BY <1>1, <1>2
  <2>3. y \in Seq(Byte) /\ Continues(a.out, y)
    <3>1. Repeat(a.out, dist, l.len + MinMatch) \in Seq(Byte)
      BY <1>1, <2>1, <2>2, RepeatType
    <3>2. QED
      BY <1>1, <3>1, ConcatProperties, ConcatContinues
  <2>4. l.sp > a.sp
    BY <1>1, <1>2, <1>6
  <2> HIDE DEF y
  <2>5. QED
    BY <1>2, <2>3, <2>4, OnwardAfter
<1> HIDE DEF dist, l, over, y
<1>7. QED
  BY <1>3, <1>4, <1>5, <1>6, WrongAfter

LEMMA SequenceType ==
    ASSUME NEW src \in Seq(Byte), NEW a \in Answers, a.sp < Len(src), NEW lo \in Nat, NEW cap, NEW lim, NEW e \in Errors
    PROVE  After(a, DecSequence(src, a, lo, cap, lim, e))
<1> DEFINE token == src[a.sp + 1]
           l == Length(src, a.sp + 1, (token \div (Nibble + 1)) % (Nibble + 1))
           over == Overflow(Len(a.out) + l.len, cap, lim, e)
           y == a.out \o SubSeq(src, l.sp + 1, l.sp + l.len)
           b == Onward(a, l.sp + l.len, y)
           m == DecMatch(src, b, token % (Nibble + 1), lo, cap, lim, e)
<1>1. a.sp \in Nat /\ a.out \in Seq(Byte) /\ Len(src) \in Nat /\ Nibble \in 1 .. 15
  BY Constants DEF Answers
<1>2. token \in Nat /\ (token \div (Nibble + 1)) % (Nibble + 1) \in Nat /\ token % (Nibble + 1) \in Nat
  <2>1. token \in Byte
    BY <1>1
  <2> DEFINE d == Nibble + 1
  <2>2. token \in Nat /\ d \in Nat \ {0}
    BY <1>1, <2>1, ByteIsNumber
  <2> HIDE DEF token, d
  <2>3. token \div d \in Nat /\ token % d \in Nat
    BY <2>2, Division
  <2>4. (token \div d) % d \in Nat
    BY <2>2, <2>3, Division
  <2>5. QED
    BY <2>2, <2>3, <2>4 DEF d
<1>3. l.len \in Nat /\ l.sp \in Nat /\ (l.sp <= Len(src) => l.sp >= a.sp + 1)
  <2>1. a.sp + 1 \in Nat
    BY <1>1
  <2> HIDE DEF token
  <2>2. QED
    BY <1>2, <2>1, LengthType
<1>4. over \in Errors
  BY OverflowIs
<1>5. DecSequence(src, a, lo, cap, lim, e) =
        IF l.sp > Len(src) THEN Wrong(a, "CORRUPT_DATA")
        ELSE IF over # "none" THEN Wrong(a, over)
        ELSE IF l.sp + l.len > Len(src) THEN Wrong(a, "CORRUPT_DATA")
        ELSE IF b.sp = Len(src) THEN b ELSE m
  BY DEF DecSequence, Onward
<1>6. "CORRUPT_DATA" \in Errors
  BY DEF Errors
<1>7. ASSUME ~(l.sp > Len(src)), ~(l.sp + l.len > Len(src)) PROVE After(a, b) /\ After(a, m)
  <2> HIDE DEF l
  <2>1. l.sp + l.len \in Nat /\ l.sp + l.len > a.sp
    BY <1>1, <1>3, <1>7
  <2>2. y \in Seq(Byte) /\ Continues(a.out, y)
    <3>1. \A i \in l.sp + 1 .. l.sp + l.len : src[i] \in Byte
      BY <1>1, <1>3, <1>7
    <3>2. SubSeq(src, l.sp + 1, l.sp + l.len) \in Seq(Byte)
      BY <1>3, <3>1, SubSeqProperties
    <3>3. QED
      BY <1>1, <3>2, ConcatProperties, ConcatContinues
  <2> HIDE DEF y
  <2>3. After(a, b) /\ b.sp = l.sp + l.len
    BY <2>1, <2>2, OnwardAfter
  <2>4. b \in Answers
    BY <2>3 DEF After
  <2> HIDE DEF b, token
  <2>5. After(b, m)
    BY <1>2, <2>4, MatchType
  <2> HIDE DEF m
  <2>6. After(a, m)
    <3>1. m \in Answers /\ (m.err # "none" \/ m.sp > b.sp)
      BY <2>5 DEF After
    <3>2. m.sp \in Nat
      BY <3>1 DEF Answers
    <3>3. m.err # "none" \/ m.sp > a.sp
      BY <1>1, <1>3, <2>1, <2>3, <3>1, <3>2
    <3>4. Continues(a.out, m.out)
      BY <2>3, <2>5, ContinuesOn DEF After
    <3>5. QED
      BY <3>1, <3>3, <3>4 DEF After
  <2>7. QED
    BY <2>3, <2>6
<1> HIDE DEF l, over, y, b, m
<1>8. QED
  BY <1>4, <1>5, <1>6, <1>7, WrongAfter

\* The decoder of a block as a recursion.
Unread(src)  == {a \in Answers : ~(a.sp >= Len(src) \/ a.err # "none")}
Toward(src)  == [a \in Answers |-> IF a.sp >= Len(src) \/ a.err # "none" THEN 0 ELSE Len(src) - a.sp]
Reading(src, lo, cap, lim, e) == [a \in Answers |-> DecSequence(src, a, lo, cap, lim, e)]
Itself == [a \in Answers |-> a]

LEMMA BlockShrinks ==
    ASSUME NEW src \in Seq(Byte), NEW lo \in Nat, NEW cap, NEW lim, NEW e \in Errors
    PROVE  Lowers(Answers, Toward(src), Unread(src), Reading(src, lo, cap, lim, e))
<1>1. Len(src) \in Nat /\ \A a \in Answers : a.sp \in Nat
  BY DEF Answers
<1>2. Toward(src) \in [Answers -> Nat]
  BY <1>1 DEF Toward
<1>3. Unread(src) \subseteq Answers
  BY DEF Unread
<1>4. ASSUME NEW a \in Unread(src)
      PROVE  /\ Reading(src, lo, cap, lim, e)[a] \in Answers
             /\ Toward(src)[Reading(src, lo, cap, lim, e)[a]] < Toward(src)[a]
  <2> DEFINE b == DecSequence(src, a, lo, cap, lim, e)
  <2>1. a \in Answers /\ a.sp < Len(src) /\ a.err = "none" /\ a.sp \in Nat
    BY <1>1 DEF Unread
  <2>2. After(a, b)
    BY <2>1, SequenceType
  <2>3. Reading(src, lo, cap, lim, e)[a] = b
    BY <2>1 DEF Reading
  <2> HIDE DEF b
  <2>4. b \in Answers /\ (b.err # "none" \/ b.sp > a.sp) /\ b.sp \in Nat
    BY <1>1, <2>2 DEF After
  <2>5. Toward(src)[a] = Len(src) - a.sp
    BY <1>1, <2>1 DEF Toward
  <2>6. Toward(src)[b] = IF b.sp >= Len(src) \/ b.err # "none" THEN 0 ELSE Len(src) - b.sp
    BY <2>4 DEF Toward
  <2>7. Toward(src)[b] < Toward(src)[a]
    BY <1>1, <2>1, <2>4, <2>5, <2>6
  <2>8. QED
    BY <2>3, <2>4, <2>7
<1>5. QED
  BY <1>2, <1>3, <1>4 DEF Lowers

LEMMA DecBlockUnfolded ==
    ASSUME NEW src \in Seq(Byte), NEW out \in Seq(Byte), NEW lo \in Nat, NEW cap, NEW lim, NEW e \in Errors
    PROVE  \E from :
              /\ IsTail(from, Answers, Unread(src), Reading(src, lo, cap, lim, e), Itself)
              /\ DecBlock(src, out, lo, cap, lim, e) = from[[sp |-> 0, out |-> out, err |-> "none"]]
<1> DEFINE E(g) == g = [a \in Answers |-> IF a.sp >= Len(src) \/ a.err # "none" THEN a
                                          ELSE g[DecSequence(src, a, lo, cap, lim, e)]]
           from == CHOOSE g : E(g)
           go == Unread(src)
           step == Reading(src, lo, cap, lim, e)
<1>1. \A g : IsTail(g, Answers, go, step, Itself) <=> E(g)
  <2> TAKE g
  <2>1. \A a \in Answers : (a \in go <=> ~(a.sp >= Len(src) \/ a.err # "none"))
                           /\ step[a] = DecSequence(src, a, lo, cap, lim, e) /\ Itself[a] = a
    BY DEF Unread, Reading, Itself
  <2> HIDE DEF go, step
  <2>2. [a \in Answers |-> IF a \in go THEN g[step[a]] ELSE Itself[a]]
        = [a \in Answers |-> IF a.sp >= Len(src) \/ a.err # "none" THEN a
                             ELSE g[DecSequence(src, a, lo, cap, lim, e)]]
    BY <2>1
  <2>3. QED
    BY <2>2 DEF IsTail
<1>2. Lowers(Answers, Toward(src), go, step)
  BY BlockShrinks
<1>3. \E g : E(g)
  <2> HIDE DEF go, step, E
  <2>1. \E g : IsTail(g, Answers, go, step, Itself)
    BY <1>2, TailRecursion
  <2>2. QED
    BY <1>1, <2>1
<1>4. E(from)
  BY <1>3, Zenon
<1>5. DecBlock(src, out, lo, cap, lim, e) = from[[sp |-> 0, out |-> out, err |-> "none"]]
  BY DEF DecBlock
<1>6. IsTail(from, Answers, go, step, Itself)
  BY <1>1, <1>4
<1>7. QED
  <2> HIDE DEF from, E
  <2>1. QED
    BY <1>5, <1>6

\* Of any data it makes an answer, and leaves the output that was there.
LEMMA DecBlockAnswers ==
    ASSUME NEW src \in Seq(Byte), NEW out \in Seq(Byte), NEW lo \in Nat, NEW cap, NEW lim, NEW e \in Errors
    PROVE  /\ DecBlock(src, out, lo, cap, lim, e) \in Answers
           /\ Continues(out, DecBlock(src, out, lo, cap, lim, e).out)
<1>1. PICK from :
        /\ IsTail(from, Answers, Unread(src), Reading(src, lo, cap, lim, e), Itself)
        /\ DecBlock(src, out, lo, cap, lim, e) = from[[sp |-> 0, out |-> out, err |-> "none"]]
  BY DecBlockUnfolded
<1> DEFINE first == [sp |-> 0, out |-> out, err |-> "none"]
           step == Reading(src, lo, cap, lim, e)
           I == {a \in Answers : Continues(out, a.out)}
<1>2. first \in I
  <2>1. first \in Answers /\ first.out = out
    BY DEF Answers, Errors
  <2>2. QED
    BY <2>1, ConcatContinues
<1>3. Lowers(Answers, Toward(src), Unread(src), step)
  BY BlockShrinks
<1>4. ASSUME NEW a \in I, a \in Unread(src) PROVE step[a] \in I
  <2>1. a \in Answers /\ a.sp < Len(src) /\ Continues(out, a.out)
    <3>1. a.sp \in Nat /\ Len(src) \in Nat /\ ~(a.sp >= Len(src))
      BY <1>4 DEF Unread, Answers
    <3>2. QED
      BY <3>1
  <2>2. After(a, step[a])
    BY <2>1, SequenceType DEF Reading
  <2> HIDE DEF step
  <2>3. QED
    BY <2>1, <2>2, ContinuesOn DEF After
<1> HIDE DEF first, step, I
<1>5. I \subseteq Answers
  BY DEF I
<1>6. PICK t \in I : from[first] = Itself[t]
  BY <1>1, <1>2, <1>3, <1>4, <1>5, TailEnds DEF step
<1>7. from[first] = t /\ t \in Answers /\ Continues(out, t.out)
  BY <1>6 DEF Itself, I
<1>8. QED
  BY <1>1, <1>7 DEF first

LEMMA SaysType ==
    ASSUME NEW p \in Nat, NEW out \in Seq(Byte), NEW text \in Seq(Byte), NEW a \in 0 .. Len(text)
    PROVE  Says(p, out, text, a) \in Answers /\ Says(p, out, text, a).sp = p /\ Says(p, out, text, a).err = "none"
<1>1. Joined(out, text, a) \in Seq(Byte)
  BY JoinedType
<1>2. QED
  BY <1>1 DEF Says, Answers, Errors

\* The bytes written for a text.
LEMMA CompressedParts ==
    ASSUME NEW src \in Seq(Byte)
    PROVE  /\ Compressed(src) \in Seq(Byte)
           /\ \E seqs, at, ends :
                /\ SequencesTell(seqs, src, at)
                /\ ends \in [0 .. Len(seqs) -> Nat] /\ ends[0] = 0 /\ ends[Len(seqs)] = Len(Compressed(src))
                /\ \A k \in 1 .. Len(seqs) : /\ ends[k] = ends[k - 1] + Len(Emit(seqs[k]))
                                             /\ Lies(Emit(seqs[k]), Compressed(src), ends[k - 1])
<1> DEFINE seqs == SequencesOf(src)
           n == Len(seqs)
           parts == [k \in 1 .. n |-> Emit(seqs[k])]
<1>1. PICK at : SequencesTell(seqs, src, at)
  BY SequencesOfText
<1>2. seqs \in Seq(Sequence) /\ n \in Nat /\ Told(seqs, src, at)
  BY <1>1 DEF SequencesTell
<1>3. Compressed(src) = FlattenSeq(parts)
  BY DEF Compressed
<1> HIDE DEF seqs
<1>4. \A k \in 1 .. n : Emit(seqs[k]) \in Seq(Byte)
  <2> SUFFICES ASSUME NEW k \in 1 .. n PROVE Emit(seqs[k]) \in Seq(Byte)
    OBVIOUS
  <2> DEFINE q == seqs[k]
             a == at[k - 1]
             b == at[k]
  <2>1. q \in Sequence /\ Tells(q, src, a, b)
    BY <1>2 DEF Told
  <2> HIDE DEF q, a, b
  <2>2. q.len # 0 => q.len >= MinMatch /\ q.dist \in 1 .. MaxOffset
    BY <2>1 DEF Tells
  <2>3. Emit(q) \in Seq(Byte)
    BY <2>1, <2>2, EmitType
  <2>4. QED
    BY <2>3 DEF q
<1>5. parts \in Seq(Seq(Byte)) /\ Len(parts) = n /\ \A k \in 1 .. n : parts[k] = Emit(seqs[k])
  <2>1. parts \in [1 .. n -> Seq(Byte)]
    BY <1>4
  <2>2. \A k \in 1 .. n : parts[k] = Emit(seqs[k])
    OBVIOUS
  <2> HIDE DEF parts, n
  <2>3. QED
    BY <1>2, <2>1, <2>2, SeqOfFunction
<1> HIDE DEF parts
<1>6. /\ FlattenSeq(parts) \in Seq(Byte)
      /\ \E ends : /\ PartEnds(ends, parts) /\ ends[Len(parts)] = Len(FlattenSeq(parts))
                   /\ \A k \in 1 .. Len(parts) : Lies(parts[k], FlattenSeq(parts), ends[k - 1])
  BY <1>5, FlattenParts
<1>7. PICK ends : /\ PartEnds(ends, parts) /\ ends[Len(parts)] = Len(FlattenSeq(parts))
                  /\ \A k \in 1 .. Len(parts) : Lies(parts[k], FlattenSeq(parts), ends[k - 1])
  BY <1>6
<1>8. ends \in [0 .. n -> Nat] /\ ends[0] = 0 /\ ends[n] = Len(Compressed(src))
  BY <1>3, <1>5, <1>7 DEF PartEnds
<1>9. \A k \in 1 .. n : /\ ends[k] = ends[k - 1] + Len(Emit(seqs[k]))
                        /\ Lies(Emit(seqs[k]), Compressed(src), ends[k - 1])
  BY <1>3, <1>5, <1>7 DEF PartEnds
<1>10. QED
  BY <1>1, <1>3, <1>6, <1>8, <1>9

\* The decoder makes of the encoder's bytes the text that they were written for, behind
\* what it had and in just the room for that.
THEOREM BlockRoundTrip ==
    ASSUME NEW src \in Seq(Byte), NEW out \in Seq(Byte), NEW lo \in 0 .. Len(out),
           NEW cap, NEW lim, Roomy(out, src, cap, lim), NEW e \in Errors
    PROVE  /\ Compressed(src) \in Seq(Byte)
           /\ DecBlock(Compressed(src), out, lo, cap, lim, e)
                = [sp |-> Len(Compressed(src)), out |-> out \o src, err |-> "none"]
<1> DEFINE bytes == Compressed(src)
<1>1. bytes \in Seq(Byte)
  BY CompressedParts
<1>2. PICK seqs, at, ends :
                /\ SequencesTell(seqs, src, at)
                /\ ends \in [0 .. Len(seqs) -> Nat] /\ ends[0] = 0 /\ ends[Len(seqs)] = Len(bytes)
                /\ \A k \in 1 .. Len(seqs) : /\ ends[k] = ends[k - 1] + Len(Emit(seqs[k]))
                                             /\ Lies(Emit(seqs[k]), bytes, ends[k - 1])
  BY CompressedParts
<1> HIDE DEF bytes
<1> DEFINE n == Len(seqs)
<1>3. /\ seqs \in Seq(Sequence) /\ n \in Nat
      /\ at \in [0 .. n -> Nat] /\ at[0] = 0 /\ at[n] = Len(src)
      /\ \A k \in 1 .. n : Tells(seqs[k], src, at[k - 1], at[k])
      /\ \A k \in 1 .. n : k < n => seqs[k].len # 0
  <2>1. SequencesTell(seqs, src, at)
    BY <1>2
  <2>2. /\ seqs \in Seq(Sequence) /\ Told(seqs, src, at) /\ at[n] = Len(src)
        /\ \A k \in 1 .. n : k < n => seqs[k].len # 0
    BY <2>1, Zenon DEF SequencesTell
  <2>3. at \in [0 .. n -> Nat] /\ at[0] = 0 /\ \A k \in 1 .. n : Tells(seqs[k], src, at[k - 1], at[k])
    BY <2>2, Zenon DEF Told
  <2>4. n \in Nat
    BY <2>2
  <2> QED
    BY <2>2, <2>3, <2>4, Zenon
<1> DEFINE s(k) == Says(ends[k], out, src, at[k])
<1>4. lo \in Nat /\ Len(bytes) \in Nat /\ Len(src) \in Nat
  BY <1>1
<1>5. PICK from :
              /\ IsTail(from, Answers, Unread(bytes), Reading(bytes, lo, cap, lim, e), Itself)
              /\ DecBlock(bytes, out, lo, cap, lim, e) = from[[sp |-> 0, out |-> out, err |-> "none"]]
  BY <1>1, <1>4, DecBlockUnfolded
<1>6. \A a \in Answers : from[a] = IF a.sp >= Len(bytes) \/ a.err # "none" THEN a
                                   ELSE from[DecSequence(bytes, a, lo, cap, lim, e)]
  <2> SUFFICES ASSUME NEW a \in Answers
               PROVE  from[a] = IF a.sp >= Len(bytes) \/ a.err # "none" THEN a
                                ELSE from[DecSequence(bytes, a, lo, cap, lim, e)]
    OBVIOUS
  <2>1. (a \in Unread(bytes) <=> ~(a.sp >= Len(bytes) \/ a.err # "none"))
        /\ Reading(bytes, lo, cap, lim, e)[a] = DecSequence(bytes, a, lo, cap, lim, e) /\ Itself[a] = a
    BY DEF Unread, Reading, Itself
  <2>2. from = [b \in Answers |-> IF b \in Unread(bytes) THEN from[Reading(bytes, lo, cap, lim, e)[b]]
                                  ELSE Itself[b]]
    BY <1>5 DEF IsTail
  <2>3. from[a] = IF a \in Unread(bytes) THEN from[Reading(bytes, lo, cap, lim, e)[a]] ELSE Itself[a]
    BY <2>2, Zenon
  <2>4. QED
    BY <2>1, <2>3
<1>7. \A k \in 1 .. n : at[k] \in 0 .. Len(src) /\ at[k - 1] \in 0 .. Len(src) /\ at[k - 1] \in Nat /\ at[k] \in Nat
  <2> SUFFICES ASSUME NEW k \in 1 .. n
               PROVE  at[k] \in 0 .. Len(src) /\ at[k - 1] \in 0 .. Len(src) /\ at[k - 1] \in Nat /\ at[k] \in Nat
    OBVIOUS
  <2> DEFINE q == seqs[k]
             a == at[k - 1]
             b == at[k]
  <2>1. q \in Sequence /\ Tells(q, src, a, b)
    BY <1>3
  <2> HIDE DEF q, a, b
  <2>2. q.lits \in Seq(Byte) /\ q.len \in Nat
    BY <2>1 DEF Sequence
  <2>3. Len(q.lits) \in Nat
    BY <2>2
  <2>4. a \in Nat /\ b \in Nat /\ a + Len(q.lits) + q.len = b /\ b <= Len(src)
    BY <2>1 DEF Tells
  <2>5. a <= b
    BY <2>2, <2>3, <2>4
  <2>6. QED
    BY <1>4, <2>4, <2>5 DEF a, b
<1>8. ASSUME NEW k \in 1 .. n PROVE from[s(k - 1)] = from[s(k)]
  <2> DEFINE q == seqs[k]
             a == at[k - 1]
             b == at[k]
             p == ends[k - 1]
  <2>1. q \in Sequence /\ Tells(q, src, a, b) /\ a \in Nat /\ b \in Nat /\ a \in 0 .. Len(src)
    BY <1>3, <1>7
  <2>2. ends[k] = p + Len(Emit(q)) /\ Lies(Emit(q), bytes, p) /\ p \in Nat
    <3>1. k - 1 \in 0 .. n
      BY <1>3
    <3>2. QED
      BY <1>2, <3>1
  <2>3. k < n => q.len # 0
    BY <1>3
  <2>4. k = n => ends[k] = Len(bytes)
    BY <1>2
  <2> HIDE DEF q, a, b, p
  <2>5. q.len = 0 => p + Len(Emit(q)) = Len(bytes)
    BY <1>3, <2>2, <2>3, <2>4
  <2>6. DecSequence(bytes, Says(p, out, src, a), lo, cap, lim, e) = Says(p + Len(Emit(q)), out, src, b)
    BY <1>1, <2>1, <2>2, <2>5, SequenceRead
  <2>7. p < Len(bytes)
    <3>1. q.len # 0 => q.len >= MinMatch /\ q.dist \in 1 .. MaxOffset
      BY <2>1 DEF Tells
    <3>2. Len(Emit(q)) = 1 + Len(Long(Len(q.lits))) + Len(q.lits) + Len(MatchPart(q)) /\ q.lits \in Seq(Byte)
          /\ MatchPart(q) \in Seq(Byte)
      BY <2>1, <3>1, EmitType
    <3>3. Len(q.lits) \in Nat /\ Len(MatchPart(q)) \in Nat
      BY <3>2
    <3>4. Len(Long(Len(q.lits))) \in Nat
      BY <3>3, LongType
    <3>5. Len(Emit(q)) > 0 /\ Len(Emit(q)) \in Nat
      <4>1. \A x, y, z \in Nat : 1 + x + y + z > 0 /\ 1 + x + y + z \in Nat
        OBVIOUS
      <4>2. QED
        BY <3>2, <3>3, <3>4, <4>1
    <3>6. p + Len(Emit(q)) <= Len(bytes)
      BY <2>2 DEF Lies
    <3>7. QED
      BY <1>4, <2>2, <3>5, <3>6
  <2>8. Says(p, out, src, a) \in Answers /\ Says(p, out, src, a).sp = p /\ Says(p, out, src, a).err = "none"
    BY <2>1, <2>2, SaysType
  <2>9. from[Says(p, out, src, a)] = from[Says(p + Len(Emit(q)), out, src, b)]
    <3> DEFINE x == Says(p, out, src, a)
    <3>1. ~(x.sp >= Len(bytes) \/ x.err # "none") /\ x \in Answers
      BY <1>4, <2>2, <2>7, <2>8
    <3> HIDE DEF x
    <3>2. from[x] = from[DecSequence(bytes, x, lo, cap, lim, e)]
      BY <1>6, <3>1
    <3>3. QED
      BY <2>6, <3>2 DEF x
  <2>10. QED
    BY <2>2, <2>9 DEF a, b, p, q
<1>9. from[s(0)] = from[s(n)]
  <2> DEFINE T == {k \in 0 .. n : from[s(0)] = from[s(k)]}
  <2>1. 0 \in T
    BY <1>3
  <2>2. ASSUME NEW k \in 0 .. n - 1, k \in T PROVE k + 1 \in T
    <3>1. k + 1 \in 1 .. n /\ (k + 1) - 1 = k
      BY <1>3
    <3> HIDE DEF s
    <3>2. from[s(k)] = from[s(k + 1)]
      <4> DEFINE m == k + 1
      <4>1. m \in 1 .. n /\ m - 1 = k
        BY <3>1
      <4> HIDE DEF m
      <4>2. from[s(m - 1)] = from[s(m)]
        BY <1>8, <4>1
      <4>3. QED
        BY <4>1, <4>2 DEF m
    <3>3. QED
      BY <2>2, <3>1, <3>2
  <2>3. 0 .. n \subseteq T
    <3> HIDE DEF T, n
    <3>1. QED
      BY <1>3, <2>1, <2>2, BoundedInductive
  <2>4. n \in 0 .. n
    BY <1>3
  <2> HIDE DEF s, n
  <2>5. QED
    BY <2>3, <2>4
<1>10. s(0) = [sp |-> 0, out |-> out, err |-> "none"]
  <2>1. Joined(out, src, 0) = out
    BY JoinedEnds
  <2>2. QED
    BY <1>2, <1>3, <2>1 DEF Says
<1>11. s(n) = [sp |-> Len(bytes), out |-> out \o src, err |-> "none"] /\ s(n) \in Answers
  <2>1. Joined(out, src, Len(src)) = out \o src
    BY JoinedEnds
  <2>2. ends[n] = Len(bytes) /\ at[n] = Len(src)
    BY <1>2, <1>3
  <2>3. Len(src) \in 0 .. Len(src)
    BY <1>4
  <2>4. Says(Len(bytes), out, src, Len(src)) \in Answers
    BY <1>4, <2>3, SaysType
  <2>5. Says(Len(bytes), out, src, Len(src)) = [sp |-> Len(bytes), out |-> out \o src, err |-> "none"]
    BY <2>1 DEF Says
  <2>6. QED
    BY <2>2, <2>4, <2>5
<1>12. from[s(n)] = s(n)
  <2> DEFINE x == s(n)
  <2>1. x.sp = Len(bytes) /\ x \in Answers
    BY <1>11
  <2> HIDE DEF x
  <2>2. from[x] = x
    BY <1>4, <1>6, <2>1
  <2>3. QED
    BY <2>2 DEF x
<1> HIDE DEF s
<1>13. DecBlock(bytes, out, lo, cap, lim, e) = [sp |-> Len(bytes), out |-> out \o src, err |-> "none"]
  BY <1>5, <1>9, <1>10, <1>11, <1>12
<1>14. QED
  BY <1>1, <1>13 DEF bytes
\* The bytes of a text that is not empty are not none.
LEMMA CompressedNotEmpty ==
    ASSUME NEW src \in Seq(Byte), src # <<>>
    PROVE  Len(Compressed(src)) > 0
<1> DEFINE w == Compressed(src)
           n == Len(src)
<1>1. n \in Nat /\ n > 0 /\ w \in Seq(Byte)
  BY CompressedParts
<1> HIDE DEF w, n
<1>2. PICK out \in Seq(Byte) : out = <<>>
  <2>1. <<>> \in Seq(Byte)
    OBVIOUS
  <2> QED
    BY <2>1, Zenon
<1>3. PICK e \in Errors : e = "none"
  BY DEF Errors
<1>4. PICK lo \in 0 .. Len(out) : lo = 0
  BY <1>2
<1>5. Roomy(out, src, n, n) /\ lo \in Nat
  BY <1>1, <1>2, <1>4 DEF Roomy, n
<1> DEFINE first == [sp |-> 0, out |-> out, err |-> "none"]
<1>6. DecBlock(w, out, lo, n, n, e) = [sp |-> Len(w), out |-> out \o src, err |-> "none"]
  BY <1>5, BlockRoundTrip DEF w
<1>7. PICK from : /\ IsTail(from, Answers, Unread(w), Reading(w, lo, n, n, e), Itself)
                  /\ DecBlock(w, out, lo, n, n, e) = from[first]
  BY <1>1, <1>5, DecBlockUnfolded
<1>8. ASSUME ~(Len(w) > 0) PROVE FALSE
  <2>1. first \in Answers /\ first \notin Unread(w) /\ Itself[first] = first
    BY <1>1, <1>2, <1>8 DEF Answers, Unread, Itself, Errors
  <2>2. from[first] = first
    BY <1>7, <2>1 DEF IsTail
  <2>3. out = out \o src
    BY <1>6, <1>7, <2>2
  <2> QED
    BY <1>1, <1>2, <2>3 DEF n
<1> QED
  BY <1>8 DEF w
=============================================================================
