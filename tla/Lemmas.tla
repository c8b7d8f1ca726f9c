------------------------------- MODULE Lemmas -------------------------------
(***************************************************************************)
(* Induction and recursion, for sets and functions instead of predicates   *)
(* and operators, in which form the provers can use them: to prove P of    *)
(* all numbers, cite NatInductive for the set of the numbers with P; to    *)
(* unfold a recursive function, cite Iteration or TailRecursion for its    *)
(* step as a function.  Then facts about numbers and sequences.            *)
(***************************************************************************)
EXTENDS WellFoundedInduction, FiniteSetsExt, SequencesExt, SequenceTheorems, TLAPS

\* The order of the naturals as a relation without descending sequences.
LEMMA BelowIsWellFounded ==
    \E R : IsWellFoundedOn(R, Nat) /\ \A i, j \in Nat : <<i, j>> \in R <=> i < j
<1>1. \A i, j \in Nat : <<i, j>> \in OpToRel(<, Nat) <=> i < j
  BY DEF OpToRel
<1>2. QED
  BY <1>1, NatLessThanWellFounded

\* Any set of naturals but the empty one has a least element.
LEMMA LeastElement ==
    ASSUME NEW T, T \subseteq Nat, T # {}
    PROVE  \E m \in T : \A k \in T : m <= k
<1>1. PICK R : IsWellFoundedOn(R, Nat) /\ \A i, j \in Nat : <<i, j>> \in R <=> i < j
  BY BelowIsWellFounded
<1>2. \A S : IsWellFoundedOn(R, S) /\ T \subseteq S
             => \E x \in T : \A y \in T : ~(<<y, x>> \in R)
  BY WFMin, Zenon
<1>3. PICK m \in T : \A k \in T : ~(<<k, m>> \in R)
  BY <1>1, <1>2
<1>4. \A k \in T : m \in Nat /\ k \in Nat /\ ~(k < m)
  BY <1>1, <1>3
<1>5. QED
  BY <1>4

\* Induction: a set that has 0, and with each number the next, has them all.
LEMMA NatInductive ==
    ASSUME NEW S, 0 \in S, \A n \in Nat : n \in S => n + 1 \in S
    PROVE  Nat \subseteq S
<1>1. SUFFICES ASSUME Nat \ S # {} PROVE FALSE
  OBVIOUS
<1>2. PICK m \in Nat \ S : \A k \in Nat \ S : m <= k
  BY <1>1, LeastElement
<1>3. m - 1 \in Nat
  BY <1>2
<1>4. QED
  BY <1>2, <1>3

\* The same up to a bound.
LEMMA BoundedInductive ==
    ASSUME NEW n \in Nat, NEW S, 0 \in S, \A k \in 0 .. n - 1 : k \in S => k + 1 \in S
    PROVE  0 .. n \subseteq S
<1> DEFINE T == {k \in Nat : k <= n => k \in S}
<1>1. 0 \in T
  OBVIOUS
<1>2. ASSUME NEW k \in Nat, k \in T PROVE k + 1 \in T
  BY <1>2
<1>3. Nat \subseteq T
  <2> HIDE DEF T
  <2> QED BY <1>1, <1>2, NatInductive
<1>4. QED
  BY <1>3

\* b is above every element of T.
IsUpperBound(b, T) == b \in Int /\ \A k \in T : k <= b

\* Max is in the set and above all of it.
LEMMA GreatestElement ==
    ASSUME NEW T, T \subseteq Int, T # {}, NEW b, IsUpperBound(b, T)
    PROVE  Max(T) \in T /\ \A k \in T : k <= Max(T)
<1> USE DEF IsUpperBound
<1> DEFINE U == {k \in Nat : b - k \in T}
<1>1. U \subseteq Nat /\ U # {}
  <2>1. PICK k \in T : TRUE
    OBVIOUS
  <2>2. b - k \in Nat /\ b - (b - k) = k
    BY <2>1
  <2>3. QED
    BY <2>2
<1>2. PICK m \in U : \A k \in U : m <= k
  <2> HIDE DEF U
  <2>1. QED
    BY <1>1, LeastElement
<1>3. \A k \in T : b - k \in U
  BY b \in Int
<1>4. b - m \in T /\ \A k \in T : k <= b - m
  BY <1>2, <1>3
<1>5. QED
  BY <1>4 DEF Max

\* A run of n steps from first through S; the k-th step is the function step[k].
StepsIn(S, n) == [1 .. n -> [S -> S]]

IsRun(g, S, n, first, step) ==
    /\ g \in [0 .. n -> S]
    /\ g[0] = first
    /\ \A k \in 1 .. n : g[k] = step[k][g[k - 1]]

\* There is one: what a recursive function over 0 .. n is.
LEMMA Iteration ==
    ASSUME NEW S, NEW first \in S, NEW n \in Nat, NEW step \in StepsIn(S, n)
    PROVE  \E g : IsRun(g, S, n, first, step)
<1> USE DEF StepsIn
<1> DEFINE T == {k \in 0 .. n : \E g : IsRun(g, S, k, first, step)}
<1>1. 0 \in T
  <2>1. IsRun([i \in 0 .. 0 |-> first], S, 0, first, step)
    BY DEF IsRun
  <2>2. QED
    BY <2>1, 0 \in 0 .. n
<1>2. ASSUME NEW k \in 0 .. n - 1, k \in T PROVE k + 1 \in T
  <2>1. PICK g : IsRun(g, S, k, first, step)
    BY <1>2
  <2> DEFINE next == step[k + 1][g[k]]
             h == [i \in 0 .. k + 1 |-> IF i <= k THEN g[i] ELSE next]
  <2>2. next \in S
    BY <2>1, k + 1 \in 1 .. n, k \in 0 .. k DEF IsRun
  <2>3. h \in [0 .. k + 1 -> S]
    BY <2>1, <2>2 DEF IsRun
  <2>4. ASSUME NEW i \in 1 .. k + 1 PROVE h[i] = step[i][h[i - 1]]
    <3>1. CASE i <= k
      BY <3>1, <2>1 DEF IsRun
    <3>2. CASE i = k + 1
      <4>1. h[i] = next /\ h[i - 1] = g[k]
        BY <3>2
      <4>2. QED
        BY <3>2, <4>1
    <3>3. QED
      BY <3>1, <3>2
  <2>5. h[0] = first
    BY <2>1 DEF IsRun
  <2>6. IsRun(h, S, k + 1, first, step)
    <3> HIDE DEF h
    <3>1. QED
      BY <2>3, <2>4, <2>5 DEF IsRun
  <2>7. k + 1 \in 0 .. n
    OBVIOUS
  <2>8. QED
    BY <2>6, <2>7
<1>3. n \in T
  <2>1. 0 .. n \subseteq T
    <3> HIDE DEF T
    <3>1. QED
      BY <1>1, <1>2, BoundedInductive
  <2>2. QED
    BY <2>1
<1>4. QED
  BY <1>3

-----------------------------------------------------------------------------
(* Recursion that goes on until it leaves a set.                           *)

\* f is the recursive function over D that goes on from s to step[s] while s is in go.
IsTail(f, D, go, step, res) == f = [s \in D |-> IF s \in go THEN f[step[s]] ELSE res[s]]

Under(D, rank, n) == {s \in D : rank[s] < n}

\* The same on the elements of a rank below n.
IsTailUnder(f, D, rank, n, go, step, res) == IsTail(f, Under(D, rank, n), go, step, res)

\* step goes to elements of lower rank.
Lowers(D, rank, go, step) ==
    /\ rank \in [D -> Nat] /\ go \subseteq D
    /\ \A s \in go : step[s] \in D /\ rank[step[s]] < rank[s]

LEMMA TailUnder ==
    ASSUME NEW D, NEW rank, NEW go, NEW step, NEW res, Lowers(D, rank, go, step), NEW n \in Nat
    PROVE  \E f : IsTailUnder(f, D, rank, n, go, step, res)
<1> DEFINE T == {k \in Nat : \E f : IsTailUnder(f, D, rank, k, go, step, res)}
<1>1. 0 \in T
  <2>1. Under(D, rank, 0) = {}
    BY DEF Under, Lowers
  <2>2. IsTailUnder([s \in {} |-> s], D, rank, 0, go, step, res)
    BY <2>1 DEF IsTailUnder, IsTail
  <2>3. QED
    BY <2>2
<1>2. ASSUME NEW k \in Nat, k \in T PROVE k + 1 \in T
  <2>1. PICK f : IsTailUnder(f, D, rank, k, go, step, res)
    BY <1>2
  <2> DEFINE A == Under(D, rank, k)
             B == Under(D, rank, k + 1)
             h == [s \in B |-> IF s \in go THEN f[step[s]] ELSE res[s]]
  <2>2. f = [s \in A |-> IF s \in go THEN f[step[s]] ELSE res[s]]
    BY <2>1 DEF IsTailUnder, IsTail
  <2>3. A \subseteq B
    BY DEF Under, Lowers
  <2>4. \A s \in B : s \in go => step[s] \in A
    BY DEF Under, Lowers
  <2>5. \A s \in A : h[s] = f[s]
    <3> HIDE DEF A, B
    <3>1. \A s \in A : f[s] = IF s \in go THEN f[step[s]] ELSE res[s]
      BY <2>2, Zenon
    <3>2. QED
      BY <2>3, <3>1
  <2>6. h = [s \in B |-> IF s \in go THEN h[step[s]] ELSE res[s]]
    <3> HIDE DEF A, B
    <3>1. \A s \in B : h[s] = IF s \in go THEN h[step[s]] ELSE res[s]
      <4>1. SUFFICES ASSUME NEW s \in B PROVE h[s] = IF s \in go THEN h[step[s]] ELSE res[s]
        OBVIOUS
      <4>2. CASE s \in go
        BY <2>4, <2>5, <4>2
      <4>3. CASE s \notin go
        BY <4>3
      <4>4. QED
        BY <4>2, <4>3
    <3>2. DOMAIN h = B /\ h = [s \in B |-> h[s]]
      OBVIOUS
    <3> HIDE DEF h
    <3>3. QED
      BY <3>1, <3>2
  <2>7. IsTailUnder(h, D, rank, k + 1, go, step, res)
    <3> HIDE DEF h
    <3>1. QED
      BY <2>6 DEF IsTailUnder, IsTail
  <2>8. QED
    BY <2>7
<1>3. Nat \subseteq T
  <2> HIDE DEF T
  <2>1. QED
    BY <1>1, <1>2, NatInductive
<1>4. QED
  BY <1>3

\* Two of them agree where both are defined.
LEMMA TailsAgree ==
    ASSUME NEW D, NEW rank, NEW go, NEW step, NEW res, Lowers(D, rank, go, step),
           NEW m \in Nat, NEW n \in Nat, NEW f, NEW g,
           IsTailUnder(f, D, rank, m, go, step, res), IsTailUnder(g, D, rank, n, go, step, res)
    PROVE  \A s \in D : rank[s] < m /\ rank[s] < n => f[s] = g[s]
<1> DEFINE bad == {s \in D : rank[s] < m /\ rank[s] < n /\ f[s] # g[s]}
           R == {rank[s] : s \in bad}
<1>1. SUFFICES ASSUME bad # {} PROVE FALSE
  OBVIOUS
<1>2. R \subseteq Nat /\ R # {}
  BY <1>1 DEF Lowers
<1>3. PICK r \in R : \A k \in R : r <= k
  <2> HIDE DEF R
  <2>1. QED
    BY <1>2, LeastElement
<1>4. PICK s \in bad : rank[s] = r
  BY <1>3
<1>5. s \in D /\ rank[s] < m /\ rank[s] < n /\ f[s] # g[s] /\ rank[s] \in Nat
  BY DEF Lowers
<1>6. f[s] = (IF s \in go THEN f[step[s]] ELSE res[s]) /\ g[s] = (IF s \in go THEN g[step[s]] ELSE res[s])
  <2>1. s \in Under(D, rank, m) /\ s \in Under(D, rank, n)
    BY <1>5 DEF Under
  <2>2. f = [t \in Under(D, rank, m) |-> IF t \in go THEN f[step[t]] ELSE res[t]]
    BY DEF IsTailUnder, IsTail
  <2>3. g = [t \in Under(D, rank, n) |-> IF t \in go THEN g[step[t]] ELSE res[t]]
    BY DEF IsTailUnder, IsTail
  <2>4. f[s] = (IF s \in go THEN f[step[s]] ELSE res[s])
    BY <2>1, <2>2, Zenon
  <2>5. g[s] = (IF s \in go THEN g[step[s]] ELSE res[s])
    BY <2>1, <2>3, Zenon
  <2>6. QED
    BY <2>4, <2>5
<1>7. s \in go /\ f[step[s]] # g[step[s]]
  BY <1>5, <1>6
<1>8. step[s] \in D /\ rank[step[s]] \in Nat /\ rank[step[s]] < rank[s]
  BY <1>7 DEF Lowers
<1>9. step[s] \in bad /\ rank[step[s]] < r
  BY <1>4, <1>5, <1>7, <1>8
<1>10. rank[step[s]] \in R
  BY <1>9
<1>11. QED
  BY <1>2, <1>3, <1>8, <1>9, <1>10

\* A recursion that ends is a function.
LEMMA TailRecursion ==
    ASSUME NEW D, NEW rank, NEW go, NEW step, NEW res, Lowers(D, rank, go, step)
    PROVE  \E f : IsTail(f, D, go, step, res)
<1> DEFINE F(n) == CHOOSE f : IsTailUnder(f, D, rank, n, go, step, res)
           h == [s \in D |-> F(rank[s] + 1)[s]]
<1>1. \A n \in Nat : IsTailUnder(F(n), D, rank, n, go, step, res)
  BY TailUnder, Zenon
<1>2. rank \in [D -> Nat]
  BY DEF Lowers
<1> HIDE DEF F
<1>3. ASSUME NEW s \in D PROVE h[s] = IF s \in go THEN h[step[s]] ELSE res[s]
  <2> DEFINE n == rank[s] + 1
  <2>1. n \in Nat /\ rank[s] \in Nat /\ rank[s] < n
    BY <1>2
  <2>2. h[s] = F(n)[s]
    OBVIOUS
  <2>3. F(n) = [t \in Under(D, rank, n) |-> IF t \in go THEN F(n)[step[t]] ELSE res[t]]
    BY <1>1, <2>1 DEF IsTailUnder, IsTail
  <2>4. s \in Under(D, rank, n)
    BY <2>1 DEF Under
  <2>5. F(n)[s] = IF s \in go THEN F(n)[step[s]] ELSE res[s]
    <3> HIDE DEF n
    <3>1. QED
      BY <2>3, <2>4, Zenon
  <2>6. CASE s \in go
    <3> DEFINE t == step[s]
               m == rank[step[s]] + 1
    <3>1. t \in D /\ rank[t] \in Nat /\ rank[t] < rank[s] /\ m \in Nat /\ rank[t] < m /\ rank[t] < n
      BY <2>1, <2>6 DEF Lowers
    <3>2. h[t] = F(m)[t]
      BY <3>1
    <3>3. F(m)[t] = F(n)[t]
      <4>1. IsTailUnder(F(m), D, rank, m, go, step, res) /\ IsTailUnder(F(n), D, rank, n, go, step, res)
        BY <1>1, <2>1, <3>1
      <4> HIDE DEF n, m, t
      <4>2. QED
        BY <2>1, <3>1, <4>1, TailsAgree
    <3>4. QED
      BY <2>2, <2>5, <2>6, <3>2, <3>3
  <2>7. CASE s \notin go
    BY <2>2, <2>5, <2>7
  <2>8. QED
    BY <2>6, <2>7
<1>4. h = [s \in D |-> h[s]]
  OBVIOUS
<1> HIDE DEF h
<1>5. IsTail(h, D, go, step, res)
  BY <1>3, <1>4 DEF IsTail
<1>6. QED
  BY <1>5

\* What it returns is the result of an element outside go that it came to, of any set
\* that it cannot leave.
LEMMA TailEnds ==
    ASSUME NEW D, NEW rank, NEW go, NEW step, NEW res, Lowers(D, rank, go, step),
           NEW f, IsTail(f, D, go, step, res),
           NEW I, I \subseteq D, \A s \in I : s \in go => step[s] \in I
    PROVE  \A s \in I : \E t \in I : t \notin go /\ f[s] = res[t]
<1> DEFINE Ending(s) == \E t \in I : t \notin go /\ f[s] = res[t]
           bad == {s \in I : ~Ending(s)}
           R == {rank[s] : s \in bad}
<1>1. SUFFICES ASSUME bad # {} PROVE FALSE
  OBVIOUS
<1>2. R \subseteq Nat /\ R # {}
  BY <1>1 DEF Lowers
<1>3. PICK r \in R : \A k \in R : r <= k
  <2> HIDE DEF R
  <2>1. QED
    BY <1>2, LeastElement
<1>4. PICK s \in bad : rank[s] = r
  BY <1>3
<1>5. s \in I /\ ~Ending(s) /\ s \in D
  OBVIOUS
<1>6. f[s] = IF s \in go THEN f[step[s]] ELSE res[s]
  <2>1. f = [t \in D |-> IF t \in go THEN f[step[t]] ELSE res[t]]
    BY DEF IsTail
  <2>2. QED
    BY <1>5, <2>1, Zenon
<1>7. s \in go
  BY <1>5, <1>6
<1>8. step[s] \in I /\ rank[step[s]] \in Nat /\ rank[step[s]] < r
  BY <1>4, <1>5, <1>7 DEF Lowers
<1>9. f[s] = f[step[s]]
  BY <1>6, <1>7
<1>10. ~Ending(step[s])
  BY <1>5, <1>9
<1>11. rank[step[s]] \in R
  BY <1>8, <1>10
<1>12. r <= rank[step[s]] /\ r \in Nat
  <2> HIDE DEF R
  <2>1. QED
    BY <1>2, <1>3, <1>11
<1>13. QED
  BY <1>8, <1>12

-----------------------------------------------------------------------------
(* Two numbers, and sequences.                                             *)

\* The lesser of two numbers.
LEMMA MinOfTwo ==
    ASSUME NEW a \in Int, NEW b \in Int
    PROVE  Min({a, b}) \in {a, b} /\ Min({a, b}) <= a /\ Min({a, b}) <= b
<1>1. \E x \in {a, b} : \A y \in {a, b} : x <= y
  BY a <= b \/ b <= a
<1>2. QED
  BY <1>1 DEF Min

\* The greater of two numbers.
LEMMA MaxOfTwo ==
    ASSUME NEW a \in Int, NEW b \in Int
    PROVE  Max({a, b}) \in {a, b} /\ Max({a, b}) >= a /\ Max({a, b}) >= b
<1>1. \E x \in {a, b} : \A y \in {a, b} : x >= y
  BY a <= b \/ b <= a
<1>2. QED
  BY <1>1 DEF Max

\* A function on 1 .. n is a sequence.
LEMMA SeqOfFunction ==
    ASSUME NEW S, NEW n \in Nat, NEW f \in [1 .. n -> S]
    PROVE  f \in Seq(S) /\ Len(f) = n
OBVIOUS

\* A longer prefix has one more element.
LEMMA PrefixGrows ==
    ASSUME NEW S, NEW s \in Seq(S), NEW k \in 0 .. Len(s) - 1
    PROVE  /\ SubSeq(s, 1, k) \in Seq(S) /\ s[k + 1] \in S
           /\ SubSeq(s, 1, k + 1) = Append(SubSeq(s, 1, k), s[k + 1])
<1>1. Len(s) \in Nat /\ \A i \in 1 .. Len(s) : s[i] \in S
  OBVIOUS
<1>2. SubSeq(s, 1, k) \in Seq(S) /\ Len(SubSeq(s, 1, k)) = k /\ s[k + 1] \in S
      /\ \A i \in 1 .. k : SubSeq(s, 1, k)[i] = s[i]
  BY <1>1, SubSeqProperties
<1>3. SubSeq(s, 1, k + 1) \in Seq(S) /\ Len(SubSeq(s, 1, k + 1)) = k + 1
      /\ \A i \in 1 .. k + 1 : SubSeq(s, 1, k + 1)[i] = s[i]
  BY <1>1, SubSeqProperties
<1> DEFINE a == Append(SubSeq(s, 1, k), s[k + 1])
           b == SubSeq(s, 1, k + 1)
<1>4. a \in Seq(S) /\ Len(a) = k + 1 /\ \A i \in 1 .. k + 1 : a[i] = s[i]
  BY <1>2, AppendProperties
<1>5. b \in Seq(S) /\ Len(b) = k + 1 /\ \A i \in 1 .. k + 1 : b[i] = s[i]
  BY <1>3
<1>6. a = b
  <2> HIDE DEF a, b
  <2>1. Len(a) = Len(b) /\ \A i \in 1 .. Len(a) : a[i] = b[i]
    BY <1>4, <1>5
  <2> QED
    BY <1>4, <1>5, <2>1, SeqEqual
<1>7. QED
  BY <1>2, <1>6

\* Appending to the second of two sequences appends to both together.
LEMMA ConcatAppend ==
    \A S : \A s, t \in Seq(S) : \A x \in S : s \o Append(t, x) = Append(s \o t, x)
<1> SUFFICES ASSUME NEW S, NEW s \in Seq(S), NEW t \in Seq(S), NEW x \in S
             PROVE  s \o Append(t, x) = Append(s \o t, x)
  OBVIOUS
<1>1. s \o t \in Seq(S) /\ <<x>> \in Seq(S)
  OBVIOUS
<1>2. Append(t, x) = t \o <<x>> /\ Append(s \o t, x) = (s \o t) \o <<x>>
  BY <1>1, AppendIsConcat
<1>3. s \o (t \o <<x>>) = (s \o t) \o <<x>>
  BY <1>1, ConcatAssociative
<1>4. QED
  BY <1>2, <1>3

-----------------------------------------------------------------------------
(* A text that repeats.                                                    *)

\* A number below the divisor is its remainder.
LEMMA SmallRemainder ==
    ASSUME NEW d \in Nat \ {0}, NEW a \in Nat, a < d PROVE a % d = a
OBVIOUS

\* Taking the divisor away keeps the remainder.
LEMMA RemainderRepeats ==
    ASSUME NEW d \in Nat \ {0}, NEW a \in Nat, a >= d PROVE a - d \in Nat /\ (a - d) % d = a % d
<1> DEFINE q == a \div d
<1>1. a % d = a - d * q
  OBVIOUS
<1>2. (a - d) \div d = q - 1
  BY Z3
<1>3. (a - d) % d = (a - d) - d * ((a - d) \div d)
  <2> DEFINE b == a - d
  <2>1. b \in Nat
    OBVIOUS
  <2> HIDE DEF b
  <2>2. b % d = b - d * (b \div d)
    BY <2>1
  <2>3. QED
    BY <2>2 DEF b
<1>4. q \in Int
  OBVIOUS
<1> HIDE DEF q
<1>5. (a - d) - d * (q - 1) = a - d * q
  BY <1>4
<1>6. (a - d) % d = (a - d) - d * (q - 1)
  BY <1>2, <1>3
<1>7. QED
  BY <1>1, <1>5, <1>6

\* From b on the text repeats, for len bytes, what is d before.
Repeats(text, b, d, len) == \A i \in 1 .. len : text[b - d + i] = text[b + i]

\* What repeats after d bytes is told by the first d of them.
LEMMA Periodic ==
    ASSUME NEW text, NEW b \in Int, NEW d \in Nat \ {0}, NEW len \in Nat,
           Repeats(text, b, d, len)
    PROVE  \A i \in 1 .. len : text[b - d + 1 + ((i - 1) % d)] = text[b + i]
<1> DEFINE P(i) == text[b - d + 1 + ((i - 1) % d)] = text[b + i]
           T == {i \in 1 .. len : ~P(i)}
<1>1. SUFFICES ASSUME T # {} PROVE FALSE
  OBVIOUS
<1>2. PICK m \in T : \A i \in T : m <= i
  <2>1. T \subseteq Nat
    OBVIOUS
  <2> HIDE DEF T
  <2>2. QED
    BY <1>1, <2>1, LeastElement
<1>3. m \in 1 .. len /\ ~P(m) /\ text[b - d + m] = text[b + m]
  BY DEF Repeats
<1>4. CASE m <= d
  <2>1. (m - 1) % d = m - 1
    BY <1>3, <1>4, SmallRemainder
  <2>2. b - d + 1 + (m - 1) = b - d + m
    BY <1>3
  <2>3. QED
    BY <1>3, <2>1, <2>2
<1>5. CASE m > d
  <2>1. m - d \in 1 .. len /\ m - d < m
    BY <1>3, <1>5
  <2>2. P(m - d)
    <3> HIDE DEF P
    <3>1. m - d \notin T
      <4> HIDE DEF T
      <4>1. m \in Int /\ d \in Int
        BY <1>3
      <4> QED
        BY <1>2, <2>1, <4>1
    <3> QED
      BY <2>1, <3>1
  <2>3. ((m - 1) - d) % d = (m - 1) % d
    <3>1. m - 1 \in Nat /\ m - 1 >= d
      BY <1>3, <1>5
    <3> QED
      BY <3>1, RemainderRepeats
  <2>4. (m - d) - 1 = (m - 1) - d /\ b + (m - d) = b - d + m
    BY <1>3
  <2>5. text[b - d + 1 + ((m - 1) % d)] = text[b - d + m]
    BY <2>2, <2>3, <2>4
  <2>6. QED
    BY <1>3, <2>5
<1>6. QED
  BY <1>3, <1>4, <1>5

-----------------------------------------------------------------------------
(* Numbers by their remainders and digits; parts of sequences.             *)

\* Division with remainder.
LEMMA Division ==
    ASSUME NEW n \in Nat, NEW d \in Nat \ {0}
    PROVE  n \div d \in Nat /\ n \div d <= n /\ n % d \in 0 .. d - 1 /\ (n \div d) * d + (n % d) = n
<1>1. n \div d \in Nat /\ n \div d <= n /\ n % d \in 0 .. d - 1
  OBVIOUS
<1>2. d * (n \div d) + (n % d) = n
  OBVIOUS
<1>3. \A q, e \in Int : q * e = e * q
  OBVIOUS
<1>4. (n \div d) * d = d * (n \div d)
  BY <1>1, <1>3
<1>5. QED
  BY <1>1, <1>2, <1>4

\* Two digits of base d are told by their number.
LEMMA Digits ==
    \A d \in Nat \ {0} : \A x \in Nat : \A y \in 0 .. d - 1 :
        (x * d + y) \div d = x /\ (x * d + y) % d = y
OBVIOUS

\* The least element.
LEMMA MinIs ==
    ASSUME NEW T, NEW m \in T, T \subseteq Int, \A k \in T : m <= k
    PROVE  Min(T) = m
<1>1. \A k \in T : k \in Int /\ m \in Int
  OBVIOUS
<1> DEFINE P(x) == x \in T /\ \A y \in T : x <= y
<1>2. P(m)
  OBVIOUS
<1>3. Min(T) = CHOOSE x \in T : \A y \in T : x <= y
  BY DEF Min
<1>4. P(Min(T))
  BY <1>2, <1>3
<1>5. Min(T) \in Int /\ m \in Int /\ Min(T) <= m /\ m <= Min(T)
  BY <1>1, <1>4
<1>6. QED
  BY <1>5

-----------------------------------------------------------------------------
\* The sequence part is in the sequence text, behind its first p elements.
Lies(part, text, p) ==
    /\ p + Len(part) <= Len(text)
    /\ \A i \in 1 .. Len(part) : text[p + i] = part[i]

LEMMA LiesConcat ==
    ASSUME NEW S, NEW x \in Seq(S), NEW y \in Seq(S), NEW text \in Seq(S), NEW p \in Nat,
           Lies(x \o y, text, p)
    PROVE  Lies(x, text, p) /\ Lies(y, text, p + Len(x))
<1> DEFINE m == Len(x)
           n == Len(y)
           z == x \o y
<1>1. m \in Nat /\ n \in Nat /\ Len(text) \in Nat
  OBVIOUS
<1>2. Len(z) = m + n /\ (\A i \in 1 .. m : z[i] = x[i]) /\ (\A i \in 1 .. n : z[m + i] = y[i])
  BY ConcatProperties
<1> HIDE DEF m, n, z
<1>3. p + Len(z) <= Len(text) /\ \A i \in 1 .. Len(z) : text[p + i] = z[i]
  BY DEF Lies, z
<1>4. p + m <= Len(text) /\ p + m + n <= Len(text)
  BY <1>1, <1>2, <1>3
<1>5. ASSUME NEW i \in 1 .. m PROVE text[p + i] = x[i]
  BY <1>1, <1>2, <1>3
<1>6. ASSUME NEW i \in 1 .. n PROVE text[p + m + i] = y[i]
  <2>1. m + i \in 1 .. m + n /\ p + (m + i) = p + m + i
    BY <1>1
  <2>2. text[p + (m + i)] = z[m + i]
    BY <1>2, <1>3, <2>1
  <2>3. QED
    BY <1>2, <2>1, <2>2
<1>7. Lies(x, text, p)
  BY <1>4, <1>5 DEF Lies, m
<1>8. Lies(y, text, p + m)
  BY <1>4, <1>6 DEF Lies, n
<1>9. QED
  BY <1>7, <1>8 DEF m

\* And so does each of two parts one behind the other in their concatenation.
LEMMA LiesFirst ==
    ASSUME NEW S, NEW part \in Seq(S), NEW x \in Seq(S), NEW y \in Seq(S), NEW p \in Nat, Lies(part, x, p)
    PROVE  Lies(part, x \o y, p)
<1>1. Len(x \o y) = Len(x) + Len(y) /\ Len(x) \in Nat /\ Len(y) \in Nat /\ Len(part) \in Nat
      /\ \A i \in 1 .. Len(x) : (x \o y)[i] = x[i]
  BY ConcatProperties
<1>2. p + Len(part) <= Len(x) /\ \A i \in 1 .. Len(part) : x[p + i] = part[i]
  BY DEF Lies
<1>3. p + Len(part) <= Len(x \o y)
  BY <1>1, <1>2
<1>4. ASSUME NEW i \in 1 .. Len(part) PROVE (x \o y)[p + i] = part[i]
  <2>1. p + i \in 1 .. Len(x)
    BY <1>1, <1>2
  <2>2. QED
    BY <1>1, <1>2, <2>1
<1>5. QED
  BY <1>3, <1>4 DEF Lies

LEMMA LiesSecond ==
    ASSUME NEW S, NEW x \in Seq(S), NEW y \in Seq(S)
    PROVE  Lies(y, x \o y, Len(x))
  BY ConcatProperties DEF Lies

\* All of a text is itself.
LEMMA LiesWhole ==
    ASSUME NEW S, NEW part \in Seq(S), NEW text \in Seq(S), Lies(part, text, 0), Len(part) = Len(text)
    PROVE  part = text
<1>1. \A i \in 1 .. Len(part) : text[i] = part[i]
  <2>1. \A i \in 1 .. Len(part) : text[0 + i] = part[i]
    BY DEF Lies
  <2>2. QED
    BY <2>1
<1>2. QED
  BY <1>1, SeqEqual

\* What lies at p is the stretch there.
LEMMA LiesStretch ==
    ASSUME NEW S, NEW part \in Seq(S), NEW text \in Seq(S), NEW p \in Nat, Lies(part, text, p)
    PROVE  SubSeq(text, p + 1, p + Len(part)) = part
<1> DEFINE n == Len(part)
           s == SubSeq(text, p + 1, p + n)
<1>1. n \in Nat /\ p + n <= Len(text) /\ Len(text) \in Nat /\ \A i \in 1 .. n : text[p + i] = part[i]
  BY DEF Lies
<1> HIDE DEF n
<1>2. \A i \in p + 1 .. p + n : text[i] \in S
  BY <1>1
<1>3. s \in Seq(S) /\ Len(s) = n /\ \A i \in 1 .. n : s[i] = text[p + i]
  <2>1. s \in Seq(S)
    BY <1>1, <1>2, SubSeqProperties
  <2>2. p + n - (p + 1) + 1 = n /\ \A i \in 1 .. n : p + 1 + i - 1 = p + i
    BY <1>1
  <2>3. Len(s) = n
    BY <1>1, <1>2, SubSeqProperties
  <2>4. \A i \in 1 .. n : s[i] = text[p + 1 + i - 1]
    BY <1>1, <1>2, SubSeqProperties
  <2>5. QED
    BY <2>1, <2>2, <2>3, <2>4
<1> HIDE DEF s
<1>4. \A i \in 1 .. n : s[i] = part[i]
  BY <1>1, <1>3
<1>5. s = part
  BY <1>3, <1>4, SeqEqual DEF n
<1>6. QED
  BY <1>5 DEF s, n

\* Two stretches, one behind the other.
LEMMA StretchesJoin ==
    ASSUME NEW S, NEW text \in Seq(S), NEW a \in Nat, NEW b \in Nat, a <= b, b <= Len(text)
    PROVE  SubSeq(text, 1, a) \o SubSeq(text, a + 1, b) = SubSeq(text, 1, b)
<1> DEFINE x == SubSeq(text, 1, a)
           y == SubSeq(text, a + 1, b)
           z == SubSeq(text, 1, b)
<1>1. \A i \in 1 .. b : text[i] \in S
  OBVIOUS
<1>2. x \in Seq(S) /\ Len(x) = a /\ \A i \in 1 .. a : x[i] = text[i]
  BY <1>1, SubSeqProperties
<1>3. z \in Seq(S) /\ Len(z) = b /\ \A i \in 1 .. b : z[i] = text[i]
  BY <1>1, SubSeqProperties
<1>4. y \in Seq(S) /\ Len(y) = b - a /\ \A i \in 1 .. b - a : y[i] = text[a + i]
  <2>1. \A i \in a + 1 .. b : text[i] \in S
    BY <1>1
  <2>2. b - (a + 1) + 1 = b - a /\ \A i \in 1 .. b - a : a + 1 + i - 1 = a + i
    OBVIOUS
  <2>3. y \in Seq(S)
    BY <2>1, SubSeqProperties
  <2>4. Len(y) = b - a
    BY <2>1, SubSeqProperties
  <2>5. \A i \in 1 .. b - a : y[i] = text[a + 1 + i - 1]
    BY <2>1, SubSeqProperties
  <2>6. QED
    BY <2>2, <2>3, <2>4, <2>5
<1> HIDE DEF x, y, z
<1>5. x \o y \in Seq(S) /\ Len(x \o y) = b
      /\ \A i \in 1 .. b : (x \o y)[i] = IF i <= a THEN x[i] ELSE y[i - a]
  BY <1>2, <1>4, ConcatProperties
<1>6. ASSUME NEW i \in 1 .. b PROVE (x \o y)[i] = z[i]
  <2>1. CASE i <= a
    BY <1>2, <1>3, <1>5, <2>1
  <2>2. CASE i > a
    <3>1. i - a \in 1 .. b - a /\ a + (i - a) = i
      BY <2>2
    <3>2. y[i - a] = text[i]
      BY <1>4, <3>1
    <3>3. QED
      BY <1>3, <1>5, <2>2, <3>2
  <2>3. i <= a \/ i > a
    OBVIOUS
  <2>4. QED
    BY <2>1, <2>2, <2>3
<1>7. x \o y = z
  BY <1>3, <1>5, <1>6, SeqEqual
<1>8. QED
  BY <1>7 DEF x, y, z

-----------------------------------------------------------------------------
\* Where the parts of a flattened sequence end.
PartEnds(at, parts) ==
    /\ at \in [0 .. Len(parts) -> Nat] /\ at[0] = 0
    /\ \A k \in 1 .. Len(parts) : at[k] = at[k - 1] + Len(parts[k])

\* Flattening is joining the parts from left to right.
LEMMA FlattenUnfolded ==
    ASSUME NEW S, NEW parts \in Seq(Seq(S)), Len(parts) # 0
    PROVE  \E f \in [1 .. Len(parts) -> Seq(S)] :
              /\ f[1] = parts[1] /\ \A k \in 2 .. Len(parts) : f[k] = f[k - 1] \o parts[k]
              /\ FlattenSeq(parts) = f[Len(parts)]
<1> DEFINE n == Len(parts)
           E(g) == g = [i \in 1 .. n |-> IF i = 1 THEN parts[i] ELSE g[i - 1] \o parts[i]]
           flatten == CHOOSE g : E(g)
<1>1. n \in Nat /\ \A k \in 1 .. n : parts[k] \in Seq(S)
  OBVIOUS
<1>3. n # 0
  OBVIOUS
<1>4. QED
  <2>1. \E g : E(g)
    <3> DEFINE T == Seq(S)
               step == [k \in 1 .. n - 1 |-> [x \in T |-> x \o parts[k + 1]]]
    <3>1. parts[1] \in T /\ n - 1 \in Nat
      BY <1>1, <1>3
    <3>2. step \in StepsIn(T, n - 1)
      <4> SUFFICES ASSUME NEW k \in 1 .. n - 1, NEW x \in T PROVE x \o parts[k + 1] \in T
        BY DEF StepsIn
      <4>1. parts[k + 1] \in T
        BY <1>1
      <4> HIDE DEF n
      <4>2. QED
        BY <4>1, ConcatProperties
    <3> HIDE DEF T
    <3>3. PICK g : IsRun(g, T, n - 1, parts[1], step)
      <4> HIDE DEF n, step
      <4>1. QED
        BY <3>1, <3>2, Iteration
    <3>4. g \in [0 .. n - 1 -> T] /\ g[0] = parts[1] /\ \A k \in 1 .. n - 1 : g[k] = step[k][g[k - 1]]
      BY <3>3 DEF IsRun
    <3>5. \A k \in 1 .. n - 1 : g[k] = g[k - 1] \o parts[k + 1]
      <4> SUFFICES ASSUME NEW k \in 1 .. n - 1 PROVE g[k] = g[k - 1] \o parts[k + 1]
        OBVIOUS
      <4>1. k - 1 \in 0 .. n - 1
        BY <1>1
      <4>2. g[k - 1] \in T
        BY <3>4, <4>1
      <4>3. g[k] = step[k][g[k - 1]]
        BY <3>4
      <4>4. \A x \in T : step[k][x] = x \o parts[k + 1]
        OBVIOUS
      <4> HIDE DEF step
      <4>5. QED
        BY <4>2, <4>3, <4>4
    <3> DEFINE h == [i \in 1 .. n |-> g[i - 1]]
    <3>6. \A i \in 1 .. n : h[i] = IF i = 1 THEN parts[i] ELSE h[i - 1] \o parts[i]
      <4> SUFFICES ASSUME NEW i \in 1 .. n PROVE h[i] = IF i = 1 THEN parts[i] ELSE h[i - 1] \o parts[i]
        OBVIOUS
      <4>1. CASE i = 1
        BY <3>4, <4>1
      <4>2. CASE i # 1
        <5>1. i - 1 \in 1 .. n - 1 /\ i - 1 + 1 = i /\ i - 1 \in 1 .. n
          BY <1>1, <4>2
        <5>2. h[i] = g[i - 1] /\ h[i - 1] = g[i - 1 - 1]
          BY <5>1
        <5>3. g[i - 1] = g[i - 1 - 1] \o parts[i - 1 + 1]
          BY <3>5, <5>1
        <5> HIDE DEF h
        <5>4. QED
          BY <4>2, <5>1, <5>2, <5>3
      <4>3. QED
        BY <4>1, <4>2
    <3>7. h = [i \in 1 .. n |-> h[i]]
      OBVIOUS
    <3> HIDE DEF h
    <3>8. E(h)
      BY <3>6, <3>7
    <3>9. QED
      BY <3>8
  <2>2. E(flatten)
    BY <2>1, Zenon
  <2>3. FlattenSeq(parts) = flatten[n]
    BY <1>3 DEF FlattenSeq
  <2>4. flatten[1] = parts[1] /\ \A k \in 2 .. n : flatten[k] = flatten[k - 1] \o parts[k]
    <3>1. flatten = [i \in 1 .. n |-> IF i = 1 THEN parts[i] ELSE flatten[i - 1] \o parts[i]]
      BY <2>2
    <3> HIDE DEF flatten, n
    <3>2. \A i \in 1 .. n : flatten[i] = IF i = 1 THEN parts[i] ELSE flatten[i - 1] \o parts[i]
      BY <3>1
    <3>3. 1 \in 1 .. n /\ \A k \in 2 .. n : k \in 1 .. n /\ k # 1
      BY <1>1, <1>3
    <3>4. QED
      BY <3>2, <3>3
  <2>5. flatten \in [1 .. n -> Seq(S)]
    <3> DEFINE T == {k \in 0 .. n - 1 : flatten[k + 1] \in Seq(S)}
    <3> HIDE DEF flatten, E, n
    <3>1. 0 \in T
      BY <1>1, <1>3, <2>4
    <3>2. ASSUME NEW k \in 0 .. n - 1 - 1, k \in T PROVE k + 1 \in T
      <4>1. k + 2 \in 2 .. n /\ (k + 2) - 1 = k + 1 /\ k + 1 + 1 = k + 2 /\ k + 1 \in 0 .. n - 1
        BY <1>1
      <4>2. flatten[k + 2] = flatten[k + 1] \o parts[k + 2] /\ parts[k + 2] \in Seq(S)
        <5>1. PICK j \in 2 .. n : j = k + 2 /\ j - 1 = k + 1 /\ j \in 1 .. n
          BY <1>1, <4>1
        <5>2. flatten[j] = flatten[j - 1] \o parts[j]
          BY <2>4
        <5>3. parts[j] \in Seq(S)
          BY <1>1, <5>1
        <5>4. QED
          BY <5>1, <5>2, <5>3
      <4>3. flatten[k + 1] \in Seq(S)
        BY <3>2
      <4>4. flatten[k + 2] \in Seq(S)
        BY <4>2, <4>3
      <4>5. QED
        BY <4>1, <4>4
    <3>3. 0 .. n - 1 \subseteq T
      <4>1. n - 1 \in Nat
        BY <1>1, <1>3
      <4> HIDE DEF T
      <4>2. QED
        BY <3>1, <3>2, <4>1, BoundedInductive
    <3>4. ASSUME NEW k \in 1 .. n PROVE flatten[k] \in Seq(S)
      <4>1. k - 1 \in 0 .. n - 1 /\ k - 1 + 1 = k
        BY <1>1
      <4>2. QED
        BY <3>3, <4>1
    <3>5. flatten = [i \in 1 .. n |-> IF i = 1 THEN parts[i] ELSE flatten[i - 1] \o parts[i]]
      BY <2>2 DEF E
    <3>6. QED
      BY <3>4, <3>5
  <2>6. QED
    <3> HIDE DEF flatten
    <3>1. QED
      BY <2>3, <2>4, <2>5

\* Each part lies behind the ones before it, and there is nothing else.
LEMMA FlattenParts ==
    ASSUME NEW S, NEW parts \in Seq(Seq(S))
    PROVE  /\ FlattenSeq(parts) \in Seq(S)
           /\ \E at : /\ PartEnds(at, parts) /\ at[Len(parts)] = Len(FlattenSeq(parts))
                      /\ \A k \in 1 .. Len(parts) : Lies(parts[k], FlattenSeq(parts), at[k - 1])
<1> DEFINE n == Len(parts)
<1>1. n \in Nat /\ \A k \in 1 .. n : parts[k] \in Seq(S)
  OBVIOUS
<1>2. CASE n = 0
  <2>1. FlattenSeq(parts) = parts /\ parts = <<>>
    BY <1>2 DEF FlattenSeq
  <2>2. PartEnds([k \in 0 .. 0 |-> 0], <<>>) /\ [k \in 0 .. 0 |-> 0][0] = 0 /\ Len(<<>>) = 0 /\ <<>> \in Seq(S)
    BY DEF PartEnds
  <2>3. QED
    BY <2>1, <2>2
<1>3. CASE n # 0
  <2>1. PICK flatten \in [1 .. n -> Seq(S)] :
          /\ flatten[1] = parts[1] /\ \A k \in 2 .. n : flatten[k] = flatten[k - 1] \o parts[k]
          /\ FlattenSeq(parts) = flatten[n]
    BY <1>3, FlattenUnfolded
  <2>3. FlattenSeq(parts) = flatten[n]
    BY <2>1
  <2> DEFINE P(k) == /\ flatten[k] \in Seq(S)
                     /\ \E at : /\ at \in [0 .. k -> Nat] /\ at[0] = 0 /\ at[k] = Len(flatten[k])
                                /\ \A j \in 1 .. k : /\ at[j] = at[j - 1] + Len(parts[j])
                                                     /\ Lies(parts[j], flatten[k], at[j - 1])
  <2>4. flatten[1] = parts[1] /\ \A k \in 2 .. n : flatten[k] = flatten[k - 1] \o parts[k]
    BY <2>1
  <2>5. P(1)
    <3> DEFINE at == [k \in 0 .. 1 |-> IF k = 0 THEN 0 ELSE Len(parts[1])]
    <3>1. parts[1] \in Seq(S) /\ Len(parts[1]) \in Nat
      <4>1. parts[1] \in Seq(S)
        BY <1>1, <1>3
      <4>2. QED
        BY <4>1
    <3>2. at \in [0 .. 1 -> Nat] /\ at[0] = 0 /\ at[1] = Len(parts[1])
      BY <3>1
    <3>3. Lies(parts[1], parts[1], 0)
      BY <3>1 DEF Lies
    <3> HIDE DEF at
    <3>4. \A j \in 1 .. 1 : at[j] = at[j - 1] + Len(parts[j]) /\ Lies(parts[j], flatten[1], at[j - 1])
      BY <2>4, <3>1, <3>2, <3>3
    <3>5. QED
      BY <2>4, <3>1, <3>2, <3>4
  <2>6. ASSUME NEW k \in 1 .. n - 1, P(k) PROVE P(k + 1)
    <3>1. PICK at : /\ at \in [0 .. k -> Nat] /\ at[0] = 0 /\ at[k] = Len(flatten[k])
                    /\ \A j \in 1 .. k : /\ at[j] = at[j - 1] + Len(parts[j])
                                         /\ Lies(parts[j], flatten[k], at[j - 1])
      BY <2>6
    <3> DEFINE x == flatten[k]
               y == parts[k + 1]
               z == flatten[k + 1]
               new == [j \in 0 .. k + 1 |-> IF j <= k THEN at[j] ELSE Len(z)]
    <3>2. k + 1 \in 2 .. n /\ k \in Nat /\ (k + 1) - 1 = k /\ \A j \in 1 .. k : j \in 1 .. n
      BY <1>1
    <3>3. x \in Seq(S) /\ y \in Seq(S) /\ z = x \o y
      <4>1. x \in Seq(S)
        BY <2>6
      <4>2. y \in Seq(S)
        BY <1>1, <3>2
      <4>3. z = flatten[(k + 1) - 1] \o y
        <5> DEFINE m == k + 1
        <5>1. m \in 2 .. n
          BY <3>2
        <5> HIDE DEF m
        <5>2. flatten[m] = flatten[m - 1] \o parts[m]
          BY <2>4, <5>1
        <5>3. QED
          BY <5>2 DEF m
      <4>4. QED
        BY <3>2, <4>1, <4>2, <4>3
    <3>4. at \in [0 .. k -> Nat] /\ at[0] = 0 /\ at[k] = Len(x)
          /\ \A j \in 1 .. k : at[j] = at[j - 1] + Len(parts[j]) /\ Lies(parts[j], x, at[j - 1])
      BY <3>1
    <3> HIDE DEF x, z
    <3>5. z \in Seq(S) /\ Len(z) = Len(x) + Len(y) /\ Len(x) \in Nat /\ Len(y) \in Nat
      <4> HIDE DEF y
      <4>1. QED
        BY <3>3, ConcatProperties
    <3>6. new \in [0 .. k + 1 -> Nat] /\ new[0] = 0 /\ new[k + 1] = Len(z) /\ \A j \in 0 .. k : new[j] = at[j]
      BY <3>2, <3>4, <3>5
    <3> HIDE DEF new
    <3>7. ASSUME NEW j \in 1 .. k + 1
          PROVE  new[j] = new[j - 1] + Len(parts[j]) /\ Lies(parts[j], z, new[j - 1])
      <4>1. CASE j = k + 1
        <5>1. Lies(y, x \o y, Len(x))
          <6> HIDE DEF y
          <6>1. QED
            BY <3>3, LiesSecond
        <5>2. k \in 0 .. k /\ j - 1 = k /\ parts[j] = y
          BY <3>2, <4>1
        <5>3. new[j - 1] = Len(x) /\ new[j] = Len(z)
          BY <3>4, <3>6, <4>1, <5>2
        <5> HIDE DEF y
        <5>4. QED
          BY <3>3, <3>5, <5>1, <5>2, <5>3
      <4>2. CASE j # k + 1
        <5>1. j \in 1 .. k /\ j - 1 \in 0 .. k /\ j \in 0 .. k /\ j \in 1 .. n
          BY <3>2, <4>2
        <5>2. new[j] = at[j] /\ new[j - 1] = at[j - 1]
          BY <3>6, <5>1
        <5> DEFINE q == parts[j]
                   b == at[j - 1]
        <5>3. at[j] = b + Len(q) /\ Lies(q, x, b) /\ b \in Nat /\ q \in Seq(S)
          BY <1>1, <3>4, <5>1
        <5> HIDE DEF q, b, y
        <5>4. Lies(q, z, b)
          BY <3>3, <5>3, LiesFirst
        <5>5. QED
          BY <5>2, <5>3, <5>4 DEF q, b
      <4>3. QED
        BY <4>1, <4>2
    <3>8. QED
      BY <3>5, <3>6, <3>7 DEF z
  <2>7. P(n)
    <3> DEFINE T == {k \in 0 .. n - 1 : P(k + 1)}
    <3> HIDE DEF P
    <3>1. 0 \in T
      BY <1>1, <1>3, <2>5
    <3>2. ASSUME NEW k \in 0 .. n - 2, k \in T PROVE k + 1 \in T
      <4>1. k + 1 \in 1 .. n - 1 /\ P(k + 1)
        BY <1>1, <3>2
      <4>2. P(k + 1 + 1)
        BY <2>6, <4>1
      <4>3. QED
        BY <1>1, <4>1, <4>2
    <3>3. 0 .. n - 1 \subseteq T
      <4> HIDE DEF T, n
      <4>1. n - 1 \in Nat /\ n - 1 - 1 = n - 2
        BY <1>1, <1>3
      <4> DEFINE m == n - 1
      <4>2. \A k \in 0 .. m - 1 : k \in T => k + 1 \in T
        BY <3>2, <4>1
      <4>3. m \in Nat
        BY <4>1
      <4> HIDE DEF m
      <4>4. 0 .. m \subseteq T
        BY <3>1, <4>2, <4>3, BoundedInductive
      <4>5. QED
        BY <4>4 DEF m
    <3>4. n - 1 \in T
      <4>1. n - 1 \in 0 .. n - 1
        BY <1>1, <1>3
      <4> HIDE DEF T, n
      <4>2. QED
        BY <3>3, <4>1
    <3>5. n - 1 + 1 = n
      BY <1>1
    <3>6. QED
      BY <3>4, <3>5
  <2>8. QED
    <3>1. PICK at : /\ at \in [0 .. n -> Nat] /\ at[0] = 0 /\ at[n] = Len(flatten[n])
                    /\ \A j \in 1 .. n : at[j] = at[j - 1] + Len(parts[j]) /\ Lies(parts[j], flatten[n], at[j - 1])
      BY <2>7
    <3>2. PartEnds(at, parts)
      BY <3>1 DEF PartEnds
    <3>3. QED
      BY <2>3, <2>7, <3>1, <3>2
<1>4. QED
  BY <1>2, <1>3

\* One part more.
LEMMA FlattenMore ==
    ASSUME NEW S, NEW parts \in Seq(Seq(S)), NEW x \in Seq(S)
    PROVE  FlattenSeq(Append(parts, x)) = FlattenSeq(parts) \o x
<1> DEFINE n == Len(parts)
           all == Append(parts, x)
<1>1. /\ n \in Nat /\ all \in Seq(Seq(S)) /\ Len(all) = n + 1 /\ all[n + 1] = x
      /\ \A k \in 1 .. n : all[k] = parts[k]
  OBVIOUS
<1> HIDE DEF all, n
<1>2. PICK g \in [1 .. n + 1 -> Seq(S)] :
        /\ g[1] = all[1] /\ \A k \in 2 .. n + 1 : g[k] = g[k - 1] \o all[k]
        /\ FlattenSeq(all) = g[n + 1]
  <2>1. Len(all) # 0
    BY <1>1
  <2>2. PICK g \in [1 .. Len(all) -> Seq(S)] :
        /\ g[1] = all[1] /\ \A k \in 2 .. Len(all) : g[k] = g[k - 1] \o all[k]
        /\ FlattenSeq(all) = g[Len(all)]
    BY <1>1, <2>1, FlattenUnfolded
  <2> QED
    BY <1>1, <2>2
<1>3. CASE n = 0
  <2>1. FlattenSeq(parts) = <<>>
    BY <1>3 DEF FlattenSeq, n
  <2>2. FlattenSeq(all) = x
    BY <1>1, <1>2, <1>3
  <2> QED
    BY <2>1, <2>2 DEF all
<1>4. CASE n # 0
  <2>1. PICK f \in [1 .. n -> Seq(S)] :
          /\ f[1] = parts[1] /\ \A k \in 2 .. n : f[k] = f[k - 1] \o parts[k]
          /\ FlattenSeq(parts) = f[n]
    BY <1>4, FlattenUnfolded DEF n
  <2> DEFINE T == {k \in 0 .. n - 1 : g[k + 1] = f[k + 1]}
  <2>2. 0 \in T
    BY <1>1, <1>2, <1>4, <2>1
  <2>3. ASSUME NEW k \in 0 .. n - 1 - 1, k \in T PROVE k + 1 \in T
    <3>1. /\ k + 2 \in 2 .. n /\ k + 2 \in 2 .. n + 1 /\ (k + 2) - 1 = k + 1
          /\ k + 1 + 1 = k + 2 /\ k + 1 \in 0 .. n - 1 /\ k + 2 \in 1 .. n
      BY <1>1
    <3>2. g[k + 2] = g[k + 1] \o all[k + 2] /\ f[k + 2] = f[k + 1] \o parts[k + 2]
      BY <1>2, <2>1, <3>1
    <3>3. g[k + 1] = f[k + 1] /\ all[k + 2] = parts[k + 2]
      BY <1>1, <2>3, <3>1
    <3>4. g[k + 2] = f[k + 2]
      BY <3>2, <3>3
    <3> QED
      BY <3>1, <3>4
  <2>4. n - 1 \in T
    <3>1. n - 1 \in Nat
      BY <1>1, <1>4
    <3> HIDE DEF T
    <3>2. 0 .. n - 1 \subseteq T
      BY <2>2, <2>3, <3>1, BoundedInductive
    <3> QED
      BY <3>1, <3>2
  <2>5. g[n] = f[n]
    <3>1. n - 1 + 1 = n
      BY <1>1
    <3> QED
      BY <2>4, <3>1
  <2>6. n + 1 \in 2 .. n + 1 /\ (n + 1) - 1 = n
    BY <1>1, <1>4
  <2>7. g[n + 1] = g[n] \o all[n + 1]
    BY <1>2, <2>6
  <2> QED
    BY <1>1, <1>2, <2>1, <2>5, <2>7 DEF all
<1> QED
  BY <1>3, <1>4

-----------------------------------------------------------------------------
\* What a recursive function over the naturals is.
LEMMA NatRun ==
    ASSUME NEW S, NEW first \in S, NEW step \in [S -> S]
    PROVE  \E g \in [Nat -> S] : g[0] = first /\ \A k \in Nat : g[k + 1] = step[g[k]]
<1> DEFINE Upto(k) == CHOOSE g \in [0 .. k -> S] : g[0] = first /\ \A i \in 0 .. k - 1 : g[i + 1] = step[g[i]]
           h == [k \in Nat |-> Upto(k)[k]]
<1>1. ASSUME NEW k \in Nat
      PROVE  /\ Upto(k) \in [0 .. k -> S] /\ Upto(k)[0] = first
             /\ \A i \in 0 .. k - 1 : Upto(k)[i + 1] = step[Upto(k)[i]]
  <2> DEFINE st == [i \in 1 .. k |-> step]
  <2>1. st \in StepsIn(S, k) /\ \A i \in 1 .. k : st[i] = step
    BY DEF StepsIn
  <2> HIDE DEF st
  <2>2. PICK g : IsRun(g, S, k, first, st)
    BY <2>1, Iteration
  <2>3. g \in [0 .. k -> S] /\ g[0] = first /\ \A i \in 1 .. k : g[i] = st[i][g[i - 1]]
    BY <2>2 DEF IsRun
  <2>4. ASSUME NEW i \in 0 .. k - 1 PROVE g[i + 1] = step[g[i]]
    <3>1. i + 1 \in 1 .. k /\ (i + 1) - 1 = i
      OBVIOUS
    <3> QED
      BY <2>1, <2>3, <3>1
  <2> QED
    BY <2>3, <2>4
<1> HIDE DEF Upto
<1>2. ASSUME NEW k \in Nat PROVE Upto(k + 1)[k] = Upto(k)[k]
  <2> DEFINE R == {i \in 0 .. k : Upto(k + 1)[i] = Upto(k)[i]}
  <2>1. k + 1 \in Nat /\ (k + 1) - 1 = k
    OBVIOUS
  <2>2. 0 \in R
    BY <1>1, <2>1
  <2>3. ASSUME NEW i \in 0 .. k - 1, i \in R PROVE i + 1 \in R
    <3>1. i \in 0 .. k /\ i + 1 \in 0 .. k
      OBVIOUS
    <3>2. Upto(k)[i + 1] = step[Upto(k)[i]]
      BY <1>1
    <3>3. Upto(k + 1)[i + 1] = step[Upto(k + 1)[i]]
      BY <1>1, <2>1, <3>1
    <3> QED
      BY <2>3, <3>1, <3>2, <3>3
  <2> HIDE DEF R
  <2>4. 0 .. k \subseteq R
    BY <2>2, <2>3, BoundedInductive
  <2> QED
    BY <2>4 DEF R
<1>3. h \in [Nat -> S]
  BY <1>1
<1>4. h[0] = first
  BY <1>1
<1>5. ASSUME NEW k \in Nat PROVE h[k + 1] = step[h[k]]
  <2>1. k + 1 \in Nat /\ k \in 0 .. (k + 1) - 1
    OBVIOUS
  <2>2. h[k] = Upto(k)[k] /\ h[k + 1] = Upto(k + 1)[k + 1]
    BY <2>1
  <2>3. Upto(k + 1)[k + 1] = step[Upto(k + 1)[k]]
    BY <1>1, <2>1
  <2> QED
    BY <1>2, <2>2, <2>3
<1> HIDE DEF h
<1> QED
  BY <1>3, <1>4, <1>5
=============================================================================
