------------------------------ MODULE ZipProofs ------------------------------
(***************************************************************************)
(* The writer of Zip gives the library's mutex back on every path and has  *)
(* room for all that zip_bound has room for, a consumer unpacks nothing    *)
(* through a link, and what the writer took and closed the reader finds,   *)
(* for any members, sizes, codecs and archives.                            *)
(***************************************************************************)
EXTENDS Zip, Lemmas, FiniteSetTheorems

-----------------------------------------------------------------------------
(* The inductive invariant.  A write to a stored member fails without      *)
(* giving anything back, so it matters that such a member has no encoder.  *)

MemberKnown == DOMAIN member = DOMAIN NoMember

EncoderOfDeflate == inner => member.method = "DEFLATE"

WriterInv == MutexGivenBack /\ MemberKnown /\ EncoderOfDeflate

\* A writer begins without the mutex.
LEMMA InitHolds == Init => WriterInv
BY DEF Init, WriterInv, MutexGivenBack, MemberKnown, EncoderOfDeflate

\* A member is only taken while no other one is open.
LEMMA FreeToAdd ==
    ASSUME NEW name, Refusal(name) = "none"
    PROVE  err = "none" /\ ~open
BY DEF Refusal

\* Whoever abandons the open member no longer holds the mutex.
LEMMA AbandonGivesBack ==
    ASSUME WriterInv, AbandonMember
    PROVE  ~held' /\ ~open' /\ ~inner' /\ member' = member
BY DEF WriterInv, MutexGivenBack, AbandonMember

\* Without the mutex, and without an open encoder, the invariant is about the
\* member only.
LEMMA WithoutMutex ==
    ASSUME ~held', ~(open' /\ inner'), MemberKnown', EncoderOfDeflate'
    PROVE  WriterInv'
BY DEF WriterInv, MutexGivenBack

-----------------------------------------------------------------------------
(* One step per action.                                                    *)

\* A member that is added at once needs no encoder of the writer.
LEMMA AddKeeps ==
    ASSUME WriterInv, NEW m, NEW method, Add(m, method)
    PROVE  WriterInv'
<1>1. err = "none" /\ ~open
  BY FreeToAdd DEF Add
<1>2. held' = held /\ open' = open /\ inner' = inner /\ member' = member
  BY DEF Add, stream
<1>3. ~held
  BY <1>1 DEF WriterInv, MutexGivenBack
<1>4. MemberKnown' /\ EncoderOfDeflate'
  BY <1>2 DEF WriterInv, MemberKnown, EncoderOfDeflate
<1> QED
  BY <1>1, <1>2, <1>3, <1>4, WithoutMutex

\* The mutex is taken with the encoder, and only if there is one.
LEMMA BeginKeeps ==
    ASSUME WriterInv, NEW m, NEW method, Begin(m, method)
    PROVE  WriterInv'
<1>1. err = "none" /\ ~open
  BY FreeToAdd DEF Begin
<1>2. ~held
  BY <1>1 DEF WriterInv, MutexGivenBack
<1> DEFINE opened == [name |-> m.name, content |-> <<>>, mode |-> m.mode,
                      mtime |-> m.mtime, hdr |-> pos, body |-> pos + 30 + NameLen(m.name),
                      method |-> method, out |-> 0]
           Opens  == open' = TRUE /\ inner' = (method = "DEFLATE") /\ held' = inner'
                     /\ member' = opened /\ result' = "ok" /\ err' = err
<1>3. \/ UNCHANGED <<stream, held>>
      \/ Opens
  BY DEF Begin, OutOfRoom, Stick, Return
<1>4. CASE UNCHANGED <<stream, held>>
  <2>1. MemberKnown' /\ EncoderOfDeflate'
    BY <1>4 DEF WriterInv, MemberKnown, EncoderOfDeflate, stream
  <2> QED
    BY <1>1, <1>2, <1>4, <2>1, WithoutMutex DEF stream
<1>5. CASE Opens
  <2>1. MemberKnown'
    BY <1>5 DEF MemberKnown, NoMember
  <2>2. EncoderOfDeflate'
    BY <1>5 DEF EncoderOfDeflate
  <2>3. MutexGivenBack'
    BY <1>1, <1>5 DEF MutexGivenBack
  <2> QED
    BY <2>1, <2>2, <2>3 DEF WriterInv
<1> QED
  BY <1>3, <1>4, <1>5

\* A write that fails gives the encoder back, if there is one.
LEMMA WriteKeeps ==
    ASSUME WriterInv, NEW chunk, EncWrite(chunk)
    PROVE  WriterInv'
<1> DEFINE content == Append(member.content, chunk)
<1>1. err = "none" /\ open
  BY DEF EncWrite
<1>2. CASE member.method = "DEFLATE"
  <2>1. WritePacked(content)
    BY <1>2 DEF EncWrite
  <2> HIDE DEF content
  <2>2. PICK out : \/ AbandonMember
                   \/ /\ member' = [member EXCEPT !.content = content, !.out = out]
                      /\ result' = "ok" /\ UNCHANGED <<err, open, inner, held>>
    BY <2>1 DEF WritePacked, Return
  <2>3. CASE AbandonMember
    <3>1. ~held' /\ ~open' /\ ~inner' /\ member' = member
      BY <2>3, AbandonGivesBack
    <3>2. MemberKnown' /\ EncoderOfDeflate'
      BY <3>1 DEF WriterInv, MemberKnown, EncoderOfDeflate
    <3> QED
      BY <3>1, <3>2, WithoutMutex
  <2>4. CASE /\ member' = [member EXCEPT !.content = content, !.out = out]
             /\ result' = "ok" /\ UNCHANGED <<err, open, inner, held>>
    <3>1. DOMAIN member' = DOMAIN member
      BY <2>4
    <3>2. "method" \in DOMAIN member
      BY DEF WriterInv, MemberKnown, NoMember
    <3>3. member'.method = member.method
      BY <2>4, <3>2
    <3>4. MemberKnown' /\ EncoderOfDeflate'
      BY <1>2, <3>1, <3>3 DEF WriterInv, MemberKnown, EncoderOfDeflate
    <3>5. MutexGivenBack'
      BY <1>1, <2>4 DEF WriterInv, MutexGivenBack
    <3> QED
      BY <3>4, <3>5 DEF WriterInv
  <2> QED
    BY <2>2, <2>3, <2>4
<1>3. CASE member.method # "DEFLATE"
  <2>1. WritePlain(chunk, content)
    BY <1>3 DEF EncWrite
  <2> HIDE DEF content
  <2>2. member' = [member EXCEPT !.content = content] /\ UNCHANGED <<open, inner, held>>
    BY <2>1 DEF WritePlain
  <2>3. ~inner /\ ~held
    BY <1>3 DEF WriterInv, EncoderOfDeflate, MutexGivenBack
  <2>4. MemberKnown' /\ EncoderOfDeflate'
    BY <2>2, <2>3 DEF WriterInv, MemberKnown, EncoderOfDeflate
  <2> QED
    BY <2>2, <2>3, <2>4, WithoutMutex
<1> QED
  BY <1>2, <1>3

\* The end of a member gives the encoder back, however it goes.
LEMMA EndKeeps ==
    ASSUME WriterInv, EncEnd \/ EncEndFailed
    PROVE  WriterInv'
<1>1. ~held' /\ ~inner' /\ member' = member
  <2>1. CASE EncEnd
    BY <2>1 DEF EncEnd
  <2>2. CASE EncEndFailed
    BY <2>2, AbandonGivesBack DEF EncEndFailed
  <2> QED
    BY <2>1, <2>2
<1>2. MemberKnown' /\ EncoderOfDeflate'
  BY <1>1 DEF WriterInv, MemberKnown, EncoderOfDeflate
<1> QED
  BY <1>1, <1>2, WithoutMutex

\* A finish that is refused gives the encoder of the open member back.
LEMMA FinishKeeps ==
    ASSUME WriterInv, Finish
    PROVE  WriterInv'
<1>1. ~held' /\ ~(open' /\ inner') /\ MemberKnown' /\ EncoderOfDeflate'
  <2>1. CASE open
    <3>1. ~held' /\ ~open' /\ ~inner' /\ member' = member
      BY <2>1, AbandonGivesBack DEF Finish, DropOpen
    <3> QED
      BY <3>1 DEF WriterInv, MemberKnown, EncoderOfDeflate
  <2>2. CASE ~open
    <3>1. UNCHANGED <<stream, held>>
      BY <2>2 DEF Finish
    <3> QED
      BY <2>2, <3>1 DEF WriterInv, MutexGivenBack, MemberKnown, EncoderOfDeflate, stream
  <2> QED
    BY <2>1, <2>2
<1> QED
  BY <1>1, WithoutMutex

\* Calls that change nothing, and whatever the consumer does.
LEMMA OthersKeep ==
    ASSUME WriterInv, UNCHANGED <<stream, held, err, result>>
    PROVE  WriterInv'
BY DEF WriterInv, MutexGivenBack, MemberKnown, EncoderOfDeflate, stream

\* So every step keeps the invariant.
LEMMA StepKeeps == WriterInv /\ [Next]_vars => WriterInv'
<1> SUFFICES ASSUME WriterInv, [Next]_vars
             PROVE  WriterInv'
  OBVIOUS
<1>1. CASE \E m \in Members, method \in {"STORE", "DEFLATE"} \cup OtherCodecs : Add(m, method)
  BY <1>1, AddKeeps
<1>2. CASE \E m \in Members, method \in {"STORE", "DEFLATE"} : Begin(m, method)
  BY <1>2, BeginKeeps
<1>3. CASE \E chunk \in DOMAIN Size : EncWrite(chunk)
  BY <1>3, WriteKeeps
<1>4. CASE EncEnd \/ EncEndFailed
  BY <1>4, EndKeeps
<1>5. CASE Finish
  BY <1>5, FinishKeeps
<1>6. CASE \/ \E m \in Members : Refuse(m)
           \/ EncNothingOpen \/ FinishFailed \/ UNCHANGED vars
  <2>1. UNCHANGED vars
    BY <1>6 DEF Refuse, EncNothingOpen, FinishFailed
  <2> QED
    BY <2>1, OthersKeep DEF vars, writer
<1>7. CASE Tamper
  <2>1. UNCHANGED <<stream, held, err, result>>
    BY <1>7 DEF Tamper
  <2> QED
    BY <2>1, OthersKeep
<1>8. CASE OpenArchive
  <2>1. UNCHANGED <<stream, held, err, result>>
    BY <1>8 DEF OpenArchive, writer
  <2> QED
    BY <2>1, OthersKeep
<1>9. CASE \E i \in DOMAIN reader.entries, ask \in Asks : Unpack(i, ask)
  <2>1. UNCHANGED <<stream, held, err, result>>
    BY <1>9 DEF Unpack, writer
  <2> QED
    BY <2>1, OthersKeep
<1> QED
  BY <1>1, <1>2, <1>3, <1>4, <1>5, <1>6, <1>7, <1>8, <1>9 DEF Next

\* zip.cyr:1101-1106: whatever is added, streamed, abandoned or refused, and
\* wherever memory or room runs out, the mutex is held exactly while a DEFLATE
\* member is open, and never behind a call that failed for good.
THEOREM MutexIsGivenBack == Spec => []MutexGivenBack
<1>1. WriterInv => MutexGivenBack
  BY DEF WriterInv
<1> QED
  BY InitHolds, StepKeeps, <1>1, PTL DEF Spec
-----------------------------------------------------------------------------
(* What a consumer unpacked.  The entries are those of the archive that is  *)
(* open, whoever made it, and nothing is assumed of them.                   *)

\* Each file on the disk is that of an entry the ledger let through.
DiskKnown ==
    \A f \in disk :
        \E i \in DOMAIN reader.entries :
            /\ ~Escapes(reader.entries, i)
            /\ f.path = Canonical(reader.entries[i].name)
            /\ f.link = (reader.entries[i].mode = "link")

\* The path a file is written to is the one the ledger knows it by.
LEMMA WrittenWhereHashed == ASSUME NEW n PROVE FilePath(n) = Canonical(n)
BY DEF FilePath, Canonical

\* What is extracted was let through.
LEMMA ExtractedIsSafe ==
    ASSUME NEW d, NEW len, NEW entries, NEW i, NEW room, NEW ratio, NEW methods,
           Extract(d, len, entries, i, room, ratio, methods).err = "none"
    PROVE  ~Escapes(entries, i)
<1>1. Prepare(d, len, entries, i, room, ratio).err = "none"
  BY DEF Extract
<1> QED
  BY <1>1 DEF Prepare

\* The ledger has every link, so what it lets through is not below or in the
\* place of one.
LEMMA SafeOfAll ==
    ASSUME NEW entries, NEW i \in DOMAIN entries, NEW j \in DOMAIN entries,
           ~Escapes(entries, i), entries[j].mode = "link"
    PROVE  /\ Canonical(entries[j].name) \notin Above(Canonical(entries[i].name))
           /\ Canonical(entries[j].name) = Canonical(entries[i].name)
                => entries[i].mode = "link"
<1>1. Canonical(entries[j].name) \in Ledger(entries, i)
  BY DEF Ledger
<1> QED
  BY <1>1 DEF Escapes, Through, Above

\* Only Unpack writes to the disk, and a new archive begins with an empty one.
LEMMA DiskStep == DiskKnown /\ [Next]_vars => DiskKnown'
<1> SUFFICES ASSUME DiskKnown, [Next]_vars
             PROVE  DiskKnown'
  OBVIOUS
<1>1. CASE UNCHANGED <<disk, reader>>
  BY <1>1 DEF DiskKnown
<1>2. CASE OpenArchive
  BY <1>2 DEF OpenArchive, DiskKnown
<1>3. CASE \E i \in DOMAIN reader.entries, ask \in Asks : Unpack(i, ask)
  <2>1. PICK i \in DOMAIN reader.entries, ask \in Asks : Unpack(i, ask)
    BY <1>3
  <2> DEFINE e == reader.entries[i]
             new == {[path |-> n, link |-> e.mode = "link"] : n \in {FilePath(e.name)} \ {<<>>}}
  <2>2. reader' = reader /\ disk' = disk \cup new
    BY <2>1 DEF Unpack
  <2>3. ~Escapes(reader.entries, i)
    BY <2>1, ExtractedIsSafe DEF Unpack
  <2>4. ASSUME NEW f \in new
        PROVE  f.path = Canonical(e.name) /\ f.link = (e.mode = "link")
    BY WrittenWhereHashed
  <2> QED
    BY <2>2, <2>3, <2>4 DEF DiskKnown
<1>4. [Next]_vars => \/ UNCHANGED <<disk, reader>> \/ OpenArchive
                     \/ \E i \in DOMAIN reader.entries, ask \in Asks : Unpack(i, ask)
  BY DEF Next, vars, consumer, Add, Refuse, Begin, EncWrite, EncEnd, EncEndFailed,
         EncNothingOpen, Finish, FinishFailed, Tamper
<1> QED
  BY <1>1, <1>2, <1>3, <1>4

\* zip.cyr:224-231: in whatever order the members of whatever archive are
\* unpacked, none is written through or onto a link another one put there,
\* because the ledger each is checked against has the links of all of them.
THEOREM NothingIsUnpackedThroughALink == Spec => []NothingThroughALink
<1>1. Init => DiskKnown
  BY DEF Init, DiskKnown
<1>2. DiskKnown => NothingThroughALink
  <2> SUFFICES ASSUME DiskKnown, NEW f \in disk, NEW l \in disk, l.link
               PROVE  l.path \notin Above(f.path) /\ (l.path = f.path => f.link)
    BY DEF NothingThroughALink
  <2>1. PICK i \in DOMAIN reader.entries :
           /\ ~Escapes(reader.entries, i)
           /\ f.path = Canonical(reader.entries[i].name)
           /\ f.link = (reader.entries[i].mode = "link")
    BY DEF DiskKnown
  <2>2. PICK j \in DOMAIN reader.entries :
           /\ l.path = Canonical(reader.entries[j].name)
           /\ l.link = (reader.entries[j].mode = "link")
    BY DEF DiskKnown
  <2>3. reader.entries[j].mode = "link"
    BY <2>2
  <2>4. /\ Canonical(reader.entries[j].name) \notin Above(Canonical(reader.entries[i].name))
        /\ Canonical(reader.entries[j].name) = Canonical(reader.entries[i].name)
             => reader.entries[i].mode = "link"
    BY <2>1, <2>3, SafeOfAll
  <2> QED
    BY <2>1, <2>2, <2>4
<1> QED
  BY <1>1, <1>2, DiskStep, PTL DEF Spec

-----------------------------------------------------------------------------
(* Sums.                                                                   *)

\* What the numbers of s add up to, one by one.
AddUp(g, s, n) ==
    /\ g \in [0 .. n -> Nat] /\ g[0] = 0
    /\ \A k \in 1 .. n : g[k] = g[k - 1] + s[k]

\* SumOf is the last of the partial sums.
LEMMA SumUnfolded ==
    ASSUME NEW s \in Seq(Nat)
    PROVE  \E g : AddUp(g, s, Len(s)) /\ SumOf(s) = g[Len(s)]
<1> DEFINE n == Len(s)
           E(g) == g = [k \in 0 .. n |-> IF k = 0 THEN 0 ELSE g[k - 1] + s[k]]
           sum == CHOOSE g : E(g)
<1>1. n \in Nat /\ \A k \in 1 .. n : s[k] \in Nat
  OBVIOUS
<1>2. \E g : E(g)
  <2> DEFINE step == [k \in 1 .. n |-> [x \in Nat |-> x + s[k]]]
  <2>1. step \in StepsIn(Nat, n)
    BY <1>1 DEF StepsIn
  <2>2. PICK g : IsRun(g, Nat, n, 0, step)
    <3> HIDE DEF step, n
    <3> QED
      BY <1>1, <2>1, Iteration
  <2>3. g \in [0 .. n -> Nat] /\ g[0] = 0 /\ \A k \in 1 .. n : g[k] = step[k][g[k - 1]]
    BY <2>2 DEF IsRun
  <2>4. ASSUME NEW k \in 1 .. n PROVE g[k] = g[k - 1] + s[k]
    <3>1. k - 1 \in 0 .. n
      BY <1>1
    <3>2. g[k - 1] \in Nat
      BY <2>3, <3>1
    <3> QED
      BY <2>3, <3>2
  <2>5. E(g)
    <3> HIDE DEF step, n
    <3> QED
      BY <2>3, <2>4
  <2> QED
    BY <2>5
<1>3. E(sum)
  BY <1>2, Zenon
<1>4. sum[0] = 0 /\ \A k \in 1 .. n : sum[k] = sum[k - 1] + s[k]
  <2> HIDE DEF sum
  <2> QED
    BY <1>1, <1>3
<1>5. \A k \in 0 .. n : sum[k] \in Nat
  <2> DEFINE T == {k \in 0 .. n : sum[k] \in Nat}
  <2> HIDE DEF sum, E
  <2>1. 0 \in T
    BY <1>1, <1>4
  <2>2. ASSUME NEW k \in 0 .. n - 1, k \in T PROVE k + 1 \in T
    <3>1. k + 1 \in 1 .. n
      BY <1>1
    <3>2. sum[k + 1] = sum[k] + s[k + 1] /\ sum[k] \in Nat /\ s[k + 1] \in Nat
      BY <1>1, <1>4, <2>2, <3>1
    <3> QED
      BY <3>1, <3>2
  <2>3. 0 .. n \subseteq T
    <3> HIDE DEF T, n
    <3> QED
      BY <1>1, <2>1, <2>2, BoundedInductive
  <2> QED
    BY <2>3
<1>6. sum \in [0 .. n -> Nat]
  <2> HIDE DEF sum
  <2> QED
    BY <1>3, <1>5
<1>7. SumOf(s) = sum[n]
  BY DEF SumOf
<1> QED
  <2> HIDE DEF sum, E
  <2> QED
    BY <1>4, <1>6, <1>7 DEF AddUp

\* It depends on the numbers only.
LEMMA SumsAgree ==
    ASSUME NEW s, NEW t, NEW g, NEW h, NEW m \in Nat, NEW n \in Nat, NEW k \in Nat,
           AddUp(g, s, m), AddUp(h, t, n), k <= m, k <= n, \A i \in 1 .. k : s[i] = t[i]
    PROVE  g[k] = h[k]
<1> DEFINE T == {i \in 0 .. k : g[i] = h[i]}
<1>1. 0 \in T
  BY DEF AddUp
<1>2. ASSUME NEW i \in 0 .. k - 1, i \in T PROVE i + 1 \in T
  <2>1. i + 1 \in 1 .. k /\ i + 1 \in 1 .. m /\ i + 1 \in 1 .. n /\ i + 1 - 1 = i
    OBVIOUS
  <2>2. g[i + 1] = g[i] + s[i + 1] /\ h[i + 1] = h[i] + t[i + 1]
    BY <2>1 DEF AddUp
  <2> QED
    BY <1>2, <2>1, <2>2
<1>3. 0 .. k \subseteq T
  <2> HIDE DEF T
  <2> QED
    BY <1>1, <1>2, BoundedInductive
<1> QED
  BY <1>3

\* A sum of naturals is one.
LEMMA SumType == \A s \in Seq(Nat) : SumOf(s) \in Nat
<1> SUFFICES ASSUME NEW s \in Seq(Nat) PROVE SumOf(s) \in Nat
  OBVIOUS
<1>1. PICK g : AddUp(g, s, Len(s)) /\ SumOf(s) = g[Len(s)]
  BY SumUnfolded
<1>2. Len(s) \in 0 .. Len(s)
  OBVIOUS
<1> QED
  BY <1>1, <1>2 DEF AddUp

\* Nothing adds up to 0.
LEMMA SumOfNone == SumOf(<<>>) = 0
<1>1. <<>> \in Seq(Nat) /\ Len(<<>>) = 0
  OBVIOUS
<1>2. PICK g : AddUp(g, <<>>, Len(<<>>)) /\ SumOf(<<>>) = g[Len(<<>>)]
  BY <1>1, SumUnfolded
<1> QED
  BY <1>1, <1>2 DEF AddUp

\* One number more.
LEMMA SumExtends ==
    ASSUME NEW s \in Seq(Nat), NEW t \in Seq(Nat), Len(t) = Len(s) + 1,
           \A i \in 1 .. Len(s) : t[i] = s[i]
    PROVE  SumOf(t) = SumOf(s) + t[Len(t)]
<1>1. PICK g : AddUp(g, s, Len(s)) /\ SumOf(s) = g[Len(s)]
  BY SumUnfolded
<1>2. PICK h : AddUp(h, t, Len(t)) /\ SumOf(t) = h[Len(t)]
  BY SumUnfolded
<1>3. Len(s) \in Nat /\ Len(t) \in Nat /\ Len(t) \in 1 .. Len(t) /\ Len(t) - 1 = Len(s)
      /\ Len(s) <= Len(t) /\ Len(s) <= Len(s)
  OBVIOUS
<1>4. g[Len(s)] = h[Len(s)]
  <2> DEFINE m == Len(s)
             n == Len(t)
  <2>1. AddUp(g, s, m) /\ AddUp(h, t, n) /\ m \in Nat /\ n \in Nat /\ m <= m /\ m <= n
        /\ \A i \in 1 .. m : s[i] = t[i]
    BY <1>1, <1>2, <1>3
  <2> HIDE DEF m, n
  <2>2. g[m] = h[m]
    BY <2>1, SumsAgree
  <2> QED
    BY <2>2 DEF m
<1>5. h[Len(t)] = h[Len(s)] + t[Len(t)]
  BY <1>2, <1>3 DEF AddUp
<1> QED
  BY <1>1, <1>2, <1>4, <1>5

\* The first numbers and the next one add up to at most the sum of all.
LEMMA SumOfPart ==
    ASSUME NEW s \in Seq(Nat), NEW t \in Seq(Nat), Len(t) < Len(s),
           \A i \in 1 .. Len(t) : t[i] = s[i]
    PROVE  SumOf(t) + s[Len(t) + 1] <= SumOf(s)
<1>1. PICK g : AddUp(g, s, Len(s)) /\ SumOf(s) = g[Len(s)]
  BY SumUnfolded
<1>2. PICK h : AddUp(h, t, Len(t)) /\ SumOf(t) = h[Len(t)]
  BY SumUnfolded
<1> DEFINE n == Len(s)
           k == Len(t) + 1
           T == {i \in 0 .. n : i >= k => g[k] <= g[i]}
<1>3. n \in Nat /\ k \in 1 .. n /\ Len(t) \in Nat /\ Len(t) \in 0 .. n /\ k - 1 = Len(t)
  OBVIOUS
<1>4. g[Len(t)] = h[Len(t)]
  <2>1. \A i \in 1 .. Len(t) : s[i] = t[i]
    OBVIOUS
  <2> QED
    BY <1>1, <1>2, <1>3, <2>1, SumsAgree, SMTT(60)
<1>5. g[k] = g[Len(t)] + s[k]
  BY <1>1, <1>3 DEF AddUp
<1> HIDE DEF k, n
<1>6. 0 \in T
  BY <1>3
<1>7. ASSUME NEW i \in 0 .. n - 1, i \in T PROVE i + 1 \in T
  <2>1. i + 1 \in 1 .. n /\ i + 1 - 1 = i /\ s[i + 1] \in Nat /\ i \in 0 .. n /\ i + 1 \in 0 .. n
    BY <1>3 DEF n
  <2>2. AddUp(g, s, n)
    BY <1>1 DEF n
  <2>3. g[i + 1] = g[i] + s[i + 1] /\ g[i] \in Nat /\ g[k] \in Nat /\ g[i + 1] \in Nat
    BY <1>3, <2>1, <2>2, SMTT(60) DEF AddUp
  <2> QED
    BY <1>3, <1>7, <2>1, <2>3, SMTT(60)
<1>8. 0 .. n \subseteq T
  <2> HIDE DEF T
  <2> QED
    BY <1>3, <1>6, <1>7, BoundedInductive
<1>9. g[k] <= g[n]
  BY <1>3, <1>8
<1> QED
  BY <1>1, <1>2, <1>4, <1>5, <1>9 DEF k, n

\* Two sums together.
LEMMA SumPlus ==
    ASSUME NEW s \in Seq(Nat), NEW t \in Seq(Nat), NEW u \in Seq(Nat),
           Len(s) = Len(u), Len(t) = Len(u), \A i \in 1 .. Len(u) : u[i] = s[i] + t[i]
    PROVE  SumOf(u) = SumOf(s) + SumOf(t)
<1> DEFINE n == Len(u)
<1>0. n \in Nat
  OBVIOUS
<1>1. PICK f : AddUp(f, s, n) /\ SumOf(s) = f[n]
  BY SumUnfolded
<1>2. PICK g : AddUp(g, t, n) /\ SumOf(t) = g[n]
  BY SumUnfolded
<1>3. PICK h : AddUp(h, u, n) /\ SumOf(u) = h[n]
  BY SumUnfolded
<1> DEFINE T == {i \in 0 .. n : h[i] = f[i] + g[i]}
<1>4. 0 \in T
  BY <1>0, <1>1, <1>2, <1>3 DEF AddUp
<1>5. ASSUME NEW i \in 0 .. n - 1, i \in T PROVE i + 1 \in T
  <2>1. i + 1 \in 1 .. n /\ i + 1 - 1 = i
    BY <1>0
  <2>2. f[i + 1] = f[i] + s[i + 1] /\ g[i + 1] = g[i] + t[i + 1] /\ h[i + 1] = h[i] + u[i + 1]
    BY <1>1, <1>2, <1>3, <2>1 DEF AddUp
  <2>3. u[i + 1] = s[i + 1] + t[i + 1] /\ s[i + 1] \in Nat /\ t[i + 1] \in Nat
    BY <2>1
  <2>4. i \in 0 .. n /\ i + 1 \in 0 .. n /\ h[i] = f[i] + g[i]
    BY <1>0, <1>5
  <2>5. f[i] \in Nat /\ g[i] \in Nat
    BY <1>1, <1>2, <2>4 DEF AddUp
  <2> QED
    BY <2>2, <2>3, <2>4, <2>5, SMTT(60)
<1>6. 0 .. n \subseteq T
  <2> HIDE DEF T, n
  <2> QED
    BY <1>0, <1>4, <1>5, BoundedInductive
<1>7. n \in T
  BY <1>0, <1>6
<1> QED
  BY <1>1, <1>2, <1>3, <1>7

-----------------------------------------------------------------------------
(* What names and contents are long.                                       *)

Names    == Seq(DOMAIN Width) \ {<<>>}
Contents == Seq(DOMAIN Size)

\* A name has a length: at least one component, and separators between them.
LEMMA NameLenType == \A name \in Names : NameLen(name) \in Nat
<1> SUFFICES ASSUME NEW name \in Names PROVE NameLen(name) \in Nat
  OBVIOUS
<1> DEFINE ws == [k \in DOMAIN name |-> Width[name[k]]]
<1>1. name \in Seq(DOMAIN Width) /\ name # <<>> /\ Len(name) \in Nat \ {0}
      /\ DOMAIN name = 1 .. Len(name) /\ \A k \in 1 .. Len(name) : name[k] \in DOMAIN Width
  BY DEF Names
<1>2. ws \in [1 .. Len(name) -> Nat]
  BY <1>1, FormatAssumption
<1>3. SumOf(ws) \in Nat
  <2> HIDE DEF ws
  <2> QED
    BY <1>1, <1>2, SeqOfFunction, SumType
<1> QED
  BY <1>1, <1>3 DEF NameLen

\* The lengths of the chunks of a content.
LEMMA Chunks ==
    ASSUME NEW content \in Contents
    PROVE  LET ss == [k \in DOMAIN content |-> Size[content[k]]]
           IN  /\ ss \in Seq(Nat) /\ Len(ss) = Len(content)
               /\ \A k \in 1 .. Len(content) : ss[k] = Size[content[k]]
<1> DEFINE ss == [k \in DOMAIN content |-> Size[content[k]]]
<1>1. Len(content) \in Nat /\ DOMAIN content = 1 .. Len(content)
      /\ \A k \in 1 .. Len(content) : content[k] \in DOMAIN Size
  BY DEF Contents
<1>2. ss \in [1 .. Len(content) -> Nat]
  BY <1>1, FormatAssumption
<1>3. ss \in Seq(Nat) /\ Len(ss) = Len(content)
  <2> HIDE DEF ss
  <2> QED
    BY <1>1, <1>2, SeqOfFunction
<1> QED
  BY <1>1, <1>3

\* A content has a length.
LEMMA LengthType == \A content \in Contents : Length(content) \in Nat
BY Chunks, SumType DEF Length

\* No content has none.
LEMMA LengthOfNone == Length(<<>>) = 0
<1>1. [k \in DOMAIN <<>> |-> Size[<<>>[k]]] = <<>>
  OBVIOUS
<1> QED
  BY <1>1, SumOfNone DEF Length

\* One chunk more is as much longer as the chunk is long.
LEMMA LengthExtends ==
    ASSUME NEW content \in Contents, NEW chunk \in DOMAIN Size
    PROVE  /\ Append(content, chunk) \in Contents
           /\ Length(Append(content, chunk)) = Length(content) + Size[chunk]
<1> DEFINE more == Append(content, chunk)
           s    == [k \in DOMAIN content |-> Size[content[k]]]
           t    == [k \in DOMAIN more |-> Size[more[k]]]
<1>1. more \in Contents /\ Len(more) = Len(content) + 1 /\ more[Len(more)] = chunk
      /\ Len(content) \in Nat /\ \A k \in 1 .. Len(content) : more[k] = content[k]
  BY AppendProperties DEF Contents
<1>2. s \in Seq(Nat) /\ Len(s) = Len(content) /\ \A k \in 1 .. Len(content) : s[k] = Size[content[k]]
  BY Chunks
<1> HIDE DEF more
<1>3. t \in Seq(Nat) /\ Len(t) = Len(more) /\ \A k \in 1 .. Len(more) : t[k] = Size[more[k]]
  BY <1>1, Chunks
<1>4. SumOf(t) = SumOf(s) + t[Len(t)]
  <2> HIDE DEF s, t
  <2>1. Len(t) = Len(s) + 1 /\ \A k \in 1 .. Len(s) : t[k] = s[k]
    BY <1>1, <1>2, <1>3, SMTT(60)
  <2> QED
    BY <1>2, <1>3, <2>1, SumExtends
<1>5. Length(content) = SumOf(s) /\ Length(more) = SumOf(t)
  BY DEF Length
<1>6. t[Len(t)] = Size[chunk]
  <2> HIDE DEF t
  <2> QED
    BY <1>1, <1>3
<1> QED
  BY <1>1, <1>4, <1>5, <1>6 DEF more

\* The chunks of a content that is stored lie one behind the other.
LEMMA LengthOfPart ==
    ASSUME NEW content \in Contents, NEW k \in 1 .. Len(content)
    PROVE  Length(SubSeq(content, 1, k - 1)) + Size[content[k]] <= Length(content)
<1> DEFINE part == SubSeq(content, 1, k - 1)
           s    == [i \in DOMAIN content |-> Size[content[i]]]
           t    == [i \in DOMAIN part |-> Size[part[i]]]
<1>1. Len(content) \in Nat /\ part \in Contents /\ Len(part) = k - 1
      /\ \A i \in 1 .. k - 1 : part[i] = content[i]
  <2>1. k - 1 \in 0 .. Len(content) /\ content \in Seq(DOMAIN Size)
    BY DEF Contents
  <2> QED
    BY <2>1, SubSeqProperties DEF Contents
<1>2. s \in Seq(Nat) /\ Len(s) = Len(content) /\ \A i \in 1 .. Len(content) : s[i] = Size[content[i]]
  BY Chunks
<1> HIDE DEF part
<1>3. t \in Seq(Nat) /\ Len(t) = k - 1 /\ \A i \in 1 .. k - 1 : t[i] = Size[part[i]]
  BY <1>1, Chunks
<1>4. SumOf(t) + s[k] <= SumOf(s)
  <2> HIDE DEF s, t
  <2>1. Len(t) < Len(s) /\ Len(t) + 1 = k
    BY <1>1, <1>2, <1>3
  <2>3. ASSUME NEW i \in 1 .. Len(t) PROVE t[i] = s[i]
    <3>1. i \in 1 .. k - 1 /\ i \in 1 .. Len(content)
      BY <1>1, <1>3
    <3> QED
      BY <1>1, <1>2, <1>3, <3>1, ZenonT(60)
  <2>2. SumOf(t) + s[Len(t) + 1] <= SumOf(s)
    BY <1>2, <1>3, <2>1, <2>3, SumOfPart
  <2> QED
    BY <2>1, <2>2
<1>5. Length(content) = SumOf(s) /\ Length(part) = SumOf(t)
  BY DEF Length
<1>6. s[k] = Size[content[k]]
  <2> HIDE DEF s
  <2> QED
    BY <1>1, <1>2
<1> QED
  BY <1>4, <1>5, <1>6 DEF part

-----------------------------------------------------------------------------
(* The bound: what a member takes where it lies, and in the directory.     *)

Measures(all) ==
    /\ all = [k \in 1 .. Len(all) |-> all[k]] /\ Len(all) \in Nat
    /\ \A k \in 1 .. Len(all) : all[k].nlen \in Nat /\ all[k].ulen \in Nat

Bodies(all)  == [k \in 1 .. Len(all) |-> 50 + all[k].nlen + all[k].ulen]
Listings(all) == [k \in 1 .. Len(all) |-> 74 + all[k].nlen]
Shares(all)  == [k \in 1 .. Len(all) |-> 124 + 2 * all[k].nlen + all[k].ulen]

\* What the members of zip_bound take, as sequences of numbers.
LEMMA SharesType ==
    ASSUME NEW all, Measures(all)
    PROVE  /\ Bodies(all) \in Seq(Nat) /\ Len(Bodies(all)) = Len(all)
           /\ Listings(all) \in Seq(Nat) /\ Len(Listings(all)) = Len(all)
           /\ Shares(all) \in Seq(Nat) /\ Len(Shares(all)) = Len(all)
           /\ Bound(all) = 98 + SumOf(Shares(all))
<1>1. Len(all) \in Nat /\ DOMAIN all = 1 .. Len(all)
  BY DEF Measures
<1>2. Bodies(all) \in [1 .. Len(all) -> Nat]
  BY DEF Measures, Bodies
<1>3. Listings(all) \in [1 .. Len(all) -> Nat]
  BY DEF Measures, Listings
<1>4. Shares(all) \in [1 .. Len(all) -> Nat]
  BY DEF Measures, Shares
<1>5. Bound(all) = 98 + SumOf(Shares(all))
  BY <1>1 DEF Bound, Shares
<1> QED
  BY <1>1, <1>2, <1>3, <1>4, <1>5, SeqOfFunction

\* The bound is what members take where they lie, and in the directory, and 98.
LEMMA BoundSplits ==
    ASSUME NEW all, Measures(all)
    PROVE  /\ Bound(all) = 98 + SumOf(Bodies(all)) + SumOf(Listings(all))
           /\ SumOf(Bodies(all)) \in Nat /\ SumOf(Listings(all)) \in Nat
<1>1. \A k \in 1 .. Len(all) : Shares(all)[k] = Bodies(all)[k] + Listings(all)[k]
  BY SMTT(60) DEF Measures, Shares, Bodies, Listings
<1>2. SumOf(Shares(all)) = SumOf(Bodies(all)) + SumOf(Listings(all))
  BY <1>1, SharesType, SumPlus
<1>3. SumOf(Bodies(all)) \in Nat /\ SumOf(Listings(all)) \in Nat
  BY SharesType, SumType
<1> QED
  BY <1>2, <1>3, SharesType

\* One member more.
LEMMA SharesExtend ==
    ASSUME NEW S, NEW all \in Seq(S), Measures(all), NEW m \in S, m.nlen \in Nat, m.ulen \in Nat
    PROVE  /\ Measures(Append(all, m))
           /\ SumOf(Bodies(Append(all, m))) = SumOf(Bodies(all)) + 50 + m.nlen + m.ulen
           /\ SumOf(Listings(Append(all, m))) = SumOf(Listings(all)) + 74 + m.nlen
<1> DEFINE more == Append(all, m)
<1>1. more \in Seq(S) /\ Len(more) = Len(all) + 1 /\ more[Len(more)] = m
      /\ Len(all) \in Nat /\ \A k \in 1 .. Len(all) : more[k] = all[k]
  BY AppendProperties
<1> HIDE DEF more
<1>2. Measures(more)
  BY <1>1 DEF Measures
<1>3. SumOf(Bodies(more)) = SumOf(Bodies(all)) + Bodies(more)[Len(more)]
  <2>1. \A k \in 1 .. Len(all) : Bodies(more)[k] = Bodies(all)[k]
    BY <1>1 DEF Bodies
  <2>2. /\ Bodies(all) \in Seq(Nat) /\ Len(Bodies(all)) = Len(all)
        /\ Bodies(more) \in Seq(Nat) /\ Len(Bodies(more)) = Len(more)
    BY <1>2, SharesType
  <2> QED
    BY <1>1, <2>1, <2>2, SumExtends
<1>4. SumOf(Listings(more)) = SumOf(Listings(all)) + Listings(more)[Len(more)]
  <2>1. \A k \in 1 .. Len(all) : Listings(more)[k] = Listings(all)[k]
    BY <1>1 DEF Listings
  <2>2. /\ Listings(all) \in Seq(Nat) /\ Len(Listings(all)) = Len(all)
        /\ Listings(more) \in Seq(Nat) /\ Len(Listings(more)) = Len(more)
    BY <1>2, SharesType
  <2> QED
    BY <1>1, <2>1, <2>2, SumExtends
<1>5. Bodies(more)[Len(more)] = 50 + m.nlen + m.ulen /\ Listings(more)[Len(more)] = 74 + m.nlen
  BY <1>1 DEF Bodies, Listings
<1>6. SumOf(Bodies(all)) \in Nat /\ SumOf(Listings(all)) \in Nat
  BY BoundSplits
<1> QED
  BY <1>2, <1>3, <1>4, <1>5, <1>6, SMTT(60) DEF more

-----------------------------------------------------------------------------
(* What is written lies where it was put.                                  *)

Within(ps, limit) == \A p \in ps : End(p) <= limit

\* Wiping leaves fewer pieces.
LEMMA WipeWithin ==
    ASSUME NEW d, NEW limit, Within(d, limit), NEW from, NEW upto
    PROVE  Within(Wipe(d, from, upto), limit)
BY DEF Within, Wipe

\* The buffers on the way while several pieces are put.
Puts(put, d, ps) ==
    /\ put[0] = d /\ \A k \in 1 .. Len(ps) : put[k] = Put(put[k - 1], ps[k])
    /\ PutAll(d, ps) = put[Len(ps)]

\* There are such buffers.
LEMMA PutUnfolded ==
    ASSUME NEW d, NEW S, NEW ps \in Seq(S)
    PROVE  \E put : Puts(put, d, ps)
<1> DEFINE n == Len(ps)
           U == d \cup S
           P == SUBSET U
           E(g) == g = [k \in 0 .. n |-> IF k = 0 THEN d ELSE Put(g[k - 1], ps[k])]
           put == CHOOSE g : E(g)
<1>1. n \in Nat /\ \A k \in 1 .. n : ps[k] \in U
  OBVIOUS
<1>2. \E g : E(g)
  <2> DEFINE step == [k \in 1 .. n |-> [x \in P |-> Put(x, ps[k])]]
  <2>1. step \in StepsIn(P, n)
    <3> SUFFICES ASSUME NEW k \in 1 .. n, NEW x \in P PROVE Put(x, ps[k]) \in P
      BY DEF StepsIn
    <3> HIDE DEF n, U
    <3> QED
      BY <1>1 DEF Put, Wipe
  <2>2. d \in P
    OBVIOUS
  <2>3. PICK g : IsRun(g, P, n, d, step)
    <3> HIDE DEF step, n, P
    <3> QED
      BY <1>1, <2>1, <2>2, Iteration
  <2>4. g \in [0 .. n -> P] /\ g[0] = d /\ \A k \in 1 .. n : g[k] = step[k][g[k - 1]]
    BY <2>3 DEF IsRun
  <2>5. ASSUME NEW k \in 1 .. n PROVE g[k] = Put(g[k - 1], ps[k])
    <3>1. k - 1 \in 0 .. n
      BY <1>1
    <3>2. g[k - 1] \in P
      BY <2>4, <3>1
    <3>3. step[k][g[k - 1]] = Put(g[k - 1], ps[k])
      <4> HIDE DEF P
      <4> QED
        BY <3>2
    <3> QED
      BY <2>4, <3>3
  <2>6. E(g)
    <3> HIDE DEF step, n, P
    <3> QED
      BY <2>4, <2>5
  <2> QED
    BY <2>6
<1>3. E(put)
  BY <1>2, Zenon
<1>4. put[0] = d /\ \A k \in 1 .. n : put[k] = Put(put[k - 1], ps[k])
  <2> HIDE DEF put, n
  <2> QED
    BY <1>1, <1>3
<1>5. PutAll(d, ps) = put[n]
  BY DEF PutAll
<1>6. Puts(put, d, ps)
  <2> HIDE DEF put, E
  <2> QED
    BY <1>4, <1>5 DEF Puts
<1> QED
  BY <1>6

\* Of several pieces that are put, each lies there or is wiped by a later one.
LEMMA PutWithin ==
    ASSUME NEW d, NEW limit, Within(d, limit), NEW S, NEW ps \in Seq(S),
           \A k \in 1 .. Len(ps) : End(ps[k]) <= limit
    PROVE  Within(PutAll(d, ps), limit)
<1> DEFINE n == Len(ps)
<1>1. n \in Nat
  OBVIOUS
<1>2. PICK put : Puts(put, d, ps)
  BY PutUnfolded
<1> DEFINE T == {k \in 0 .. n : Within(put[k], limit)}
<1>3. 0 \in T
  BY <1>1, <1>2 DEF Puts
<1>4. ASSUME NEW k \in 0 .. n - 1, k \in T PROVE k + 1 \in T
  <2>1. k + 1 \in 1 .. n /\ k + 1 - 1 = k /\ k + 1 \in 0 .. n
    BY <1>1
  <2>2. put[k + 1] = Put(put[k], ps[k + 1])
    BY <1>2, <2>1 DEF Puts
  <2>3. End(ps[k + 1]) <= limit
    BY <2>1
  <2>4. Within(put[k + 1], limit)
    BY <1>4, <2>2, <2>3 DEF Put, Wipe, Within
  <2> QED
    BY <2>1, <2>4
<1>5. 0 .. n \subseteq T
  <2> HIDE DEF T, n
  <2> QED
    BY <1>1, <1>3, <1>4, BoundedInductive
<1> QED
  BY <1>1, <1>2, <1>5 DEF Puts

-----------------------------------------------------------------------------
(* What finish writes.                                                     *)

\* A sum grows with its numbers.
LEMMA SumBelow ==
    ASSUME NEW s \in Seq(Nat), NEW t \in Seq(Nat), Len(s) = Len(t),
           \A k \in 1 .. Len(t) : s[k] <= t[k]
    PROVE  SumOf(s) <= SumOf(t)
<1> DEFINE u == [k \in 1 .. Len(t) |-> t[k] - s[k]]
<1>1. Len(t) \in Nat /\ \A k \in 1 .. Len(t) : s[k] \in Nat /\ t[k] \in Nat
  OBVIOUS
<1>2. u \in [1 .. Len(t) -> Nat]
  BY <1>1
<1>3. \A k \in 1 .. Len(t) : t[k] = s[k] + u[k]
  BY <1>1
<1> HIDE DEF u
<1>4. u \in Seq(Nat) /\ Len(u) = Len(t)
  BY <1>1, <1>2, SeqOfFunction
<1>5. SumOf(t) = SumOf(s) + SumOf(u)
  BY <1>3, <1>4, SumPlus
<1> QED
  BY <1>4, <1>5, SumType

Named(rs) == Len(rs) \in Nat /\ \A k \in 1 .. Len(rs) : rs[k].name \in Names

\* A field moves at most one value to the extra field.
LEMMA OverflownType ==
    ASSUME NEW S, NEW v \in S
    PROVE  Overflown(v) \in Seq(S) /\ Len(Overflown(v)) \in 0 .. 1
<1>1. <<v>> \in Seq(S) /\ Len(<<v>>) = 1 /\ <<>> \in Seq(S) /\ Len(<<>>) = 0
  OBVIOUS
<1> QED
  BY <1>1 DEF Overflown

\* A central record takes at most 74 bytes beside the name.
LEMMA CentralSizeBounds ==
    ASSUME NEW r, r.name \in Names
    PROVE  CentralSize(r) \in Nat /\ CentralSize(r) <= 74 + NameLen(r.name)
<1> DEFINE S == {r.ulen, r.csize, r.hdr}
           a == Overflown(r.ulen)
           b == Overflown(r.csize)
           c == Overflown(r.hdr)
<1>1. /\ a \in Seq(S) /\ b \in Seq(S) /\ c \in Seq(S)
      /\ Len(a) \in 0 .. 1 /\ Len(b) \in 0 .. 1 /\ Len(c) \in 0 .. 1
  BY OverflownType
<1>2. Extra(r) = a \o b \o c
  BY DEF Extra
<1> HIDE DEF a, b, c, S
<1>3. a \o b \in Seq(S) /\ Len(a \o b) = Len(a) + Len(b)
  BY <1>1, ConcatProperties
<1>4. Len(Extra(r)) = Len(a) + Len(b) + Len(c)
  BY <1>1, <1>2, <1>3, ConcatProperties
<1>5. Len(Extra(r)) \in 0 .. 3
  <2>1. PICK x \in 0 .. 1, y \in 0 .. 1, z \in 0 .. 1 : Len(Extra(r)) = x + y + z
    BY <1>1, <1>4, Zenon
  <2> QED
    BY <2>1
<1>6. NameLen(r.name) \in Nat
  BY NameLenType
<1> DEFINE e == IF Extra(r) = <<>> THEN 0 ELSE 4 + 8 * Len(Extra(r))
<1>7. e \in 0 .. 28
  <2>1. PICK x \in 0 .. 3 : Len(Extra(r)) = x
    BY <1>5
  <2> QED
    BY <2>1
<1>8. CentralSize(r) = 46 + NameLen(r.name) + e
  BY DEF CentralSize
<1> HIDE DEF e
<1> QED
  BY <1>6, <1>7, <1>8

\* The sizes of the central records, as a sequence of numbers.
LEMMA SizesType ==
    ASSUME NEW rs, Named(rs)
    PROVE  CentralSizes(rs) \in Seq(Nat) /\ Len(CentralSizes(rs)) = Len(rs)
<1>1. CentralSizes(rs) \in [1 .. Len(rs) -> Nat]
  BY CentralSizeBounds DEF CentralSizes, Named
<1> QED
  BY <1>1, SeqOfFunction DEF Named

\* Each record of a directory ends before the directory does.
LEMMA DirectoryEnds ==
    ASSUME NEW at \in Nat, NEW rs, Named(rs)
    PROVE  /\ Directory(at, rs) \in Seq({Directory(at, rs)[k] : k \in 1 .. Len(rs)})
           /\ Len(Directory(at, rs)) = Len(rs)
           /\ \A k \in 1 .. Len(rs) :
                 /\ End(Directory(at, rs)[k]) \in Nat
                 /\ End(Directory(at, rs)[k]) <= DirectoryEnd(at, rs)
           /\ DirectoryEnd(at, rs) \in Nat
<1> DEFINE ss == CentralSizes(rs)
           dir == Directory(at, rs)
<1>1. ss \in Seq(Nat) /\ Len(ss) = Len(rs) /\ Len(rs) \in Nat
  BY SizesType DEF Named
<1>2. dir \in [1 .. Len(rs) -> {dir[k] : k \in 1 .. Len(rs)}]
  BY DEF Directory
<1>3. dir \in Seq({dir[k] : k \in 1 .. Len(rs)}) /\ Len(dir) = Len(rs)
  <2> HIDE DEF dir
  <2> QED
    BY <1>1, <1>2, SeqOfFunction
<1>4. ASSUME NEW k \in 1 .. Len(rs)
      PROVE  End(dir[k]) \in Nat /\ End(dir[k]) <= DirectoryEnd(at, rs)
  <2> DEFINE part == SubSeq(ss, 1, k - 1)
  <2>1. part \in Seq(Nat) /\ Len(part) = k - 1 /\ \A i \in 1 .. k - 1 : part[i] = ss[i]
    <3>1. k - 1 \in 0 .. Len(ss) /\ k - 1 \in Nat
      BY <1>1
    <3> HIDE DEF ss
    <3> QED
      BY <1>1, <3>1, SubSeqProperties
  <2>2. ss[k] = CentralSize(rs[k]) /\ ss[k] \in Nat
    <3>1. ss[k] = CentralSize(rs[k])
      BY DEF CentralSizes
    <3> QED
      BY <3>1, CentralSizeBounds DEF Named
  <2>3. End(dir[k]) = at + SumOf(part) + ss[k]
    <3>1. dir[k] = Central(at + SumOf(part), rs[k])
      BY DEF Directory
    <3> QED
      BY <2>2, <3>1 DEF End, Central
  <2> HIDE DEF part, ss
  <2>4. SumOf(part) + ss[k] <= SumOf(ss)
    <3>1. Len(part) < Len(ss) /\ Len(part) + 1 = k /\ \A i \in 1 .. Len(part) : part[i] = ss[i]
      BY <1>1, <2>1
    <3>2. SumOf(part) + ss[Len(part) + 1] <= SumOf(ss)
      BY <1>1, <2>1, <3>1, SumOfPart
    <3> QED
      BY <3>1, <3>2
  <2>5. SumOf(part) \in Nat /\ SumOf(ss) \in Nat
    BY <1>1, <2>1, SumType
  <2> QED
    BY <2>2, <2>3, <2>4, <2>5 DEF DirectoryEnd, ss
<1>5. DirectoryEnd(at, rs) \in Nat
  BY <1>1, SumType DEF DirectoryEnd
<1> QED
  BY <1>3, <1>4, <1>5

\* The trailer takes 98 bytes at most.
LEMMA TrailerEnds ==
    ASSUME NEW at \in Nat, NEW count, NEW from
    PROVE  LET after == Trailer(at, count, from)
               last  == End(after[Len(after)])
           IN  /\ after \in Seq({after[k] : k \in 1 .. Len(after)}) /\ Len(after) \in Nat
               /\ \A k \in 1 .. Len(after) : End(after[k]) \in Nat /\ End(after[k]) <= last
               /\ at <= last /\ last <= at + 98 /\ last \in Nat
<1> DEFINE after == Trailer(at, count, from)
           size == at - from
           plain(where) == [kind |-> "eocd", at |-> where, size |-> 22, disk |-> 0,
                            count |-> IF count > MaxCount THEN MaxCount ELSE count,
                            dsize |-> Field32(size), doff |-> Field32(from)]
           big == [kind |-> "eocd64", at |-> at, size |-> 56, disk |-> 0, count |-> count,
                   dsize |-> size, doff |-> from]
           loc == [kind |-> "locator", at |-> at + 56, size |-> 20, target |-> at]
<1>1. after = <<plain(at)>> \/ after = <<big, loc, plain(at + 76)>>
  BY DEF Trailer
<1>2. /\ End(plain(at)) = at + 22 /\ End(plain(at + 76)) = at + 98
      /\ End(big) = at + 56 /\ End(loc) = at + 76
  BY DEF End
<1> HIDE DEF plain, big, loc, after
<1>3. CASE after = <<plain(at)>>
  BY <1>2, <1>3 DEF after
<1>4. CASE after = <<big, loc, plain(at + 76)>>
  <2>1. Len(after) = 3 /\ after[1] = big /\ after[2] = loc /\ after[3] = plain(at + 76)
    BY <1>4
  <2>2. after \in Seq({after[k] : k \in 1 .. Len(after)})
    BY <1>4
  <2> QED
    BY <1>2, <2>1, <2>2 DEF after
<1> QED
  BY <1>1, <1>3, <1>4

-----------------------------------------------------------------------------
(* The inductive invariant of the room: the books of the writer, the       *)
(* buffer, and the member that is open.                                    *)

Methods == {"STORE", "DEFLATE"} \cup OtherCodecs
Modes   == {m.mode : m \in Members}
Times   == {m.mtime : m \in Members}

Records == [name : Names, method : Methods, crc : Contents, csize : Nat, ulen : Nat,
            hdr : Nat, mode : Modes, mtime : Times]

Taken == [name : Names, content : Contents, mode : Modes, mtime : Times,
          nlen : Nat, ulen : Nat, expands : BOOLEAN]

Measured == [nlen : Nat, ulen : Nat, expands : BOOLEAN]

Streamed == [name : Names, content : DOMAIN PackedSize, mode : Modes, mtime : Times,
             hdr : Nat, body : Nat, method : {"STORE", "DEFLATE"}, out : Nat]

Lean(all) == \A k \in DOMAIN all : ~all[k].expands

BooksType ==
    /\ cap \in Nat /\ pos \in Nat /\ pos <= cap
    /\ recs \in Seq(Records) /\ accepted \in Seq(Taken)
    /\ reccap \in Nat \ {0} /\ Len(recs) <= reccap /\ Len(recs) <= MaxEntries

\* The records are those of the members that were taken.
Matching ==
    /\ Len(recs) = Len(accepted)
    /\ \A k \in 1 .. Len(recs) : NameLen(recs[k].name) = accepted[k].nlen

\* What is taken so far was counted.
Counted == Lean(accepted) => pos <= SumOf(Bodies(accepted))

Refusing ==
    /\ refused = <<>> \/ \E m \in Measured : refused = <<m>>
    /\ err = "none" => refused = <<>>

NoRoomNoBound ==
    LET all == accepted \o refused
    IN  result = "BUFFER_TOO_SMALL" /\ Lean(all) => cap < Bound(all)

Books == BooksType /\ Matching /\ Counted /\ Refusing /\ NoRoomNoBound

Buffer == tampered \/ Within(dst, cap)

OpenFits ==
    /\ member \in Streamed /\ member.hdr = pos
    /\ member.body = pos + 30 + NameLen(member.name) /\ member.body <= cap
    /\ Len(recs) < MaxEntries

RoomInv == Books /\ Buffer /\ (open => OpenFits)

\* What may be added has a name and a content with a length.
LEMMA MemberType ==
    ASSUME NEW m \in Members
    PROVE  /\ m.name \in Names /\ m.content \in Contents /\ m.content \in DOMAIN PackedSize
           /\ NameLen(m.name) \in Nat /\ Length(m.content) \in Nat
           /\ m.mode \in Modes /\ m.mtime \in Times
<1>1. m.name \in Names /\ m.content \in Contents /\ m.content \in DOMAIN PackedSize
  BY ZipAssumption DEF Names, Contents
<1> QED
  BY <1>1, NameLenType, LengthType DEF Modes, Times

\* The members that were taken count for the bound.
LEMMA AcceptedMeasures == ASSUME Books PROVE Measures(accepted)
<1>1. accepted \in Seq(Taken)
  BY DEF Books, BooksType
<1>2. Len(accepted) \in Nat /\ \A k \in 1 .. Len(accepted) : accepted[k] \in Taken
  BY <1>1
<1>3. accepted = [k \in 1 .. Len(accepted) |-> accepted[k]]
  BY <1>1
<1> QED
  BY <1>2, <1>3 DEF Measures, Taken

\* What is taken is counted, and the directory of it as well.
LEMMA WithinBound ==
    ASSUME Books, Lean(accepted)
    PROVE  /\ pos + SumOf(Listings(accepted)) + 98 <= Bound(accepted)
           /\ pos <= SumOf(Bodies(accepted))
           /\ Bound(accepted) \in Nat /\ SumOf(Listings(accepted)) \in Nat
           /\ SumOf(Bodies(accepted)) \in Nat
<1>1. pos <= SumOf(Bodies(accepted)) /\ pos \in Nat
  BY DEF Books, BooksType, Counted
<1> QED
  BY <1>1, AcceptedMeasures, BoundSplits

\* Without an error no member was refused for room.
LEMMA RefusedNone == ASSUME Books, err = "none" PROVE accepted \o refused = accepted
<1>1. refused = <<>> /\ accepted \in Seq(Taken)
  BY DEF Books, BooksType, Refusing
<1> QED
  BY <1>1, ConcatEmptySeq

\* Calls that neither take nor refuse anything.
LEMMA BooksStay ==
    ASSUME Books, UNCHANGED <<cap, pos, recs, reccap, accepted, refused>>,
           \/ result' = result /\ err' = err
           \/ result' # "BUFFER_TOO_SMALL" /\ (err' = "none" => err = "none")
    PROVE  Books'
BY DEF Books, BooksType, Matching, Counted, Refusing, NoRoomNoBound

\* There is no room for a member: the bound of it is above the buffer.
LEMMA BooksRefuse ==
    ASSUME Books, err = "none", NEW m \in Measured, OutOfRoom(m),
           m.expands \/ cap < pos + 50 + m.nlen + m.ulen,
           UNCHANGED <<cap, pos, recs, reccap, accepted>>
    PROVE  Books'
<1> DEFINE S == Taken \cup Measured
           all == Append(accepted, m)
<1>1. result' = "BUFFER_TOO_SMALL" /\ err' = "BUFFER_TOO_SMALL" /\ refused' = <<m>>
  BY DEF OutOfRoom, Stick
<1>2. accepted \in Seq(S) /\ m \in S /\ Measures(accepted) /\ m.nlen \in Nat /\ m.ulen \in Nat
  <2>1. accepted \in Seq(Taken)
    BY DEF Books, BooksType
  <2>2. accepted \in Seq(S)
    BY <2>1
  <2> QED
    BY <2>2, AcceptedMeasures DEF Measured
<1>3. accepted' \o refused' = all
  BY <1>1, <1>2, AppendIsConcat
<1>4. all \in Seq(S) /\ Len(all) = Len(accepted) + 1 /\ all[Len(all)] = m
      /\ Len(accepted) \in Nat /\ DOMAIN all = 1 .. Len(all) /\ DOMAIN accepted = 1 .. Len(accepted)
      /\ \A k \in 1 .. Len(accepted) : all[k] = accepted[k]
  BY <1>2, AppendProperties
<1>5. ASSUME Lean(all) PROVE cap < Bound(all)
  <2>1. ~m.expands /\ Lean(accepted)
    <3> HIDE DEF all
    <3> QED
      BY <1>4, <1>5 DEF Lean
  <2>2. cap < pos + 50 + m.nlen + m.ulen /\ cap \in Nat /\ pos \in Nat
    BY <2>1 DEF Books, BooksType
  <2>3. pos <= SumOf(Bodies(accepted)) /\ SumOf(Bodies(accepted)) \in Nat
        /\ SumOf(Listings(accepted)) \in Nat
    BY <2>1, WithinBound
  <2>4. /\ Measures(all)
        /\ SumOf(Bodies(all)) = SumOf(Bodies(accepted)) + 50 + m.nlen + m.ulen
        /\ SumOf(Listings(all)) = SumOf(Listings(accepted)) + 74 + m.nlen
    <3> HIDE DEF S
    <3> QED
      BY <1>2, SharesExtend
  <2> HIDE DEF all
  <2>5. Bound(all) = 98 + SumOf(Bodies(all)) + SumOf(Listings(all))
    BY <2>4, BoundSplits
  <2>6. PICK b \in Nat, l \in Nat, n \in Nat, u \in Nat, p \in Nat, c \in Nat :
           /\ b = SumOf(Bodies(accepted)) /\ l = SumOf(Listings(accepted))
           /\ n = m.nlen /\ u = m.ulen /\ p = pos /\ c = cap
    BY <1>2, <2>2, <2>3
  <2>7. Bound(all) = 98 + (b + 50 + n + u) + (l + 74 + n)
    BY <2>4, <2>5, <2>6, Zenon
  <2>8. c < p + 50 + n + u /\ p <= b
    BY <2>2, <2>3, <2>6, Zenon
  <2>9. c < Bound(all)
    BY <2>7, <2>8
  <2> QED
    BY <2>6, <2>9
<1>6. NoRoomNoBound'
  <2> HIDE DEF all
  <2> QED
    BY <1>3, <1>5 DEF NoRoomNoBound
<1>7. Refusing'
  BY <1>1 DEF Refusing
<1>8. (BooksType /\ Matching /\ Counted)'
  BY DEF Books, BooksType, Matching, Counted
<1> QED
  BY <1>6, <1>7, <1>8 DEF Books

\* A member is entered, or there was no memory for its record.
LEMMA BooksRecord ==
    ASSUME Books, err = "none", Len(recs) < MaxEntries, NEW r \in Records, Record(r),
           NEW m, m.name \in Names, m.mode \in Modes, m.mtime \in Times,
           NEW content \in Contents, NEW size \in Measured, Accept(m, content, size),
           size.nlen = NameLen(r.name), NEW more \in Nat, pos + more <= cap,
           size.expands \/ more <= 50 + size.nlen + size.ulen,
           pos' = IF err' = "none" THEN pos + more ELSE pos, UNCHANGED <<cap, refused>>
    PROVE  Books'
<1> DEFINE x == [name |-> m.name, content |-> content, mode |-> m.mode, mtime |-> m.mtime,
                 nlen |-> size.nlen, ulen |-> size.ulen, expands |-> size.expands]
<1>1. CASE recs' = Append(recs, r) /\ reccap' = (IF TableFull THEN 2 * reccap ELSE reccap)
           /\ result' = "ok" /\ err' = err
  <2>1. accepted' = Append(accepted, x) /\ pos' = pos + more
    BY <1>1 DEF Accept
  <2>2. x \in Taken
    BY DEF Taken, Measured
  <2>3. recs \in Seq(Records) /\ accepted \in Seq(Taken) /\ Len(recs) = Len(accepted)
        /\ \A k \in 1 .. Len(recs) : NameLen(recs[k].name) = accepted[k].nlen
    BY DEF Books, BooksType, Matching
  <2>4. /\ recs' \in Seq(Records) /\ Len(recs') = Len(recs) + 1 /\ recs'[Len(recs) + 1] = r
        /\ \A k \in 1 .. Len(recs) : recs'[k] = recs[k]
        /\ Len(recs) \in Nat
    BY <1>1, <2>3, AppendProperties
  <2>5. /\ accepted' \in Seq(Taken) /\ Len(accepted') = Len(accepted) + 1
        /\ accepted'[Len(accepted) + 1] = x
        /\ \A k \in 1 .. Len(accepted) : accepted'[k] = accepted[k]
        /\ DOMAIN accepted' = 1 .. Len(accepted') /\ DOMAIN accepted = 1 .. Len(accepted)
    <3> HIDE DEF x
    <3> QED
      BY <2>1, <2>2, <2>3, AppendProperties
  <2>6. x.nlen = size.nlen /\ x.ulen = size.ulen /\ x.expands = size.expands
        /\ size.nlen \in Nat /\ size.ulen \in Nat
    BY DEF Measured
  <2> HIDE DEF x
  <2>7. Matching'
    <3> SUFFICES ASSUME NEW k \in 1 .. Len(recs')
                 PROVE  NameLen(recs'[k].name) = accepted'[k].nlen
      BY <2>3, <2>4, <2>5 DEF Matching
    <3>1. CASE k \in 1 .. Len(recs)
      BY <2>3, <2>4, <2>5, <3>1
    <3>2. CASE k = Len(recs) + 1
      BY <2>3, <2>4, <2>5, <2>6, <3>2
    <3> QED
      BY <2>4, <3>1, <3>2
  <2>8. BooksType'
    <3>1. cap \in Nat /\ pos \in Nat /\ reccap \in Nat \ {0} /\ Len(recs) <= reccap
      BY DEF Books, BooksType
    <3>2. reccap' \in Nat \ {0} /\ Len(recs') <= reccap'
      <4>1. CASE Len(recs) >= reccap
        <5>1. reccap' = 2 * reccap
          BY <1>1, <4>1 DEF TableFull
        <5> QED
          BY <2>4, <3>1, <4>1, <5>1
      <4>2. CASE Len(recs) < reccap
        <5>1. reccap' = reccap
          BY <1>1, <2>4, <3>1, <4>2 DEF TableFull
        <5> QED
          BY <2>4, <3>1, <4>2, <5>1
      <4> QED
        BY <2>4, <3>1, <4>1, <4>2
    <3>3. pos' \in Nat /\ pos' <= cap' /\ cap' \in Nat
      BY <2>1, <3>1
    <3>4. Len(recs') <= MaxEntries
      BY <2>4, ZipAssumption
    <3> QED
      BY <2>4, <2>5, <3>2, <3>3, <3>4 DEF BooksType
  <2>9. Counted'
    <3> SUFFICES ASSUME Lean(accepted') PROVE pos' <= SumOf(Bodies(accepted'))
      BY DEF Counted
    <3>1. ~x.expands /\ Lean(accepted)
      BY <2>4, <2>3, <2>5 DEF Lean
    <3>2. pos <= SumOf(Bodies(accepted)) /\ SumOf(Bodies(accepted)) \in Nat
      BY <3>1, WithinBound
    <3>3. SumOf(Bodies(accepted')) = SumOf(Bodies(accepted)) + 50 + x.nlen + x.ulen
      BY <2>1, <2>2, <2>3, <2>6, AcceptedMeasures, SharesExtend
    <3>4. pos \in Nat
      BY DEF Books, BooksType
    <3> QED
      BY <2>1, <2>6, <3>1, <3>2, <3>3, <3>4, SMTT(60)
  <2>10. (Refusing /\ NoRoomNoBound)'
    BY <1>1 DEF Books, Refusing, NoRoomNoBound
  <2> QED
    BY <2>7, <2>8, <2>9, <2>10 DEF Books
<1>2. CASE result' = "OOM" /\ err' = "OOM" /\ recs' = recs
           /\ reccap' \in {reccap, IF TableFull THEN 2 * reccap ELSE reccap}
  <2>1. accepted' = accepted /\ pos' = pos
    BY <1>2 DEF Accept
  <2>2. BooksType'
    <3>1. recs \in Seq(Records) /\ reccap \in Nat \ {0} /\ Len(recs) <= reccap
      BY DEF Books, BooksType
    <3>2. Len(recs) \in Nat
      BY <3>1
    <3>3. reccap' \in {reccap, 2 * reccap}
      BY <1>2
    <3>4. reccap' \in Nat \ {0} /\ Len(recs) <= reccap'
      BY <3>1, <3>2, <3>3
    <3> QED
      BY <1>2, <2>1, <3>4 DEF Books, BooksType
  <2> QED
    BY <1>2, <2>1, <2>2 DEF Books, Matching, Counted, Refusing, NoRoomNoBound
<1> QED
  BY <1>1, <1>2 DEF Record, Stick, Return

-----------------------------------------------------------------------------
(* Pieces that are put.                                                    *)

\* One piece is put where it ends within the limit.
LEMMA PutOneWithin ==
    ASSUME NEW d, NEW limit, Within(d, limit), NEW p, End(p) <= limit
    PROVE  Within(Put(d, p), limit)
BY DEF Within, Put, Wipe

Ends(ps, limit) == \A k \in 1 .. Len(ps) : End(ps[k]) <= limit

\* Pieces that end within the limit, one sequence behind the other.
LEMMA EndsTogether ==
    ASSUME NEW S, NEW ps \in Seq(S), NEW T, NEW qs \in Seq(T), NEW limit,
           Ends(ps, limit), Ends(qs, limit)
    PROVE  ps \o qs \in Seq(S \cup T) /\ Ends(ps \o qs, limit)
<1>1. ps \in Seq(S \cup T) /\ qs \in Seq(S \cup T) /\ Len(ps) \in Nat /\ Len(qs) \in Nat
  OBVIOUS
<1>2. /\ ps \o qs \in Seq(S \cup T) /\ Len(ps \o qs) = Len(ps) + Len(qs)
      /\ \A k \in 1 .. Len(ps) + Len(qs) :
            (ps \o qs)[k] = IF k <= Len(ps) THEN ps[k] ELSE qs[k - Len(ps)]
  BY <1>1, ConcatProperties
<1>3. ASSUME NEW k \in 1 .. Len(ps) + Len(qs) PROVE End((ps \o qs)[k]) <= limit
  <2>1. CASE k <= Len(ps)
    <3>1. k \in 1 .. Len(ps)
      BY <1>1, <2>1
    <3> QED
      BY <1>2, <2>1, <3>1 DEF Ends
  <2>2. CASE ~(k <= Len(ps))
    <3>1. k - Len(ps) \in 1 .. Len(qs)
      BY <1>1, <2>2
    <3>2. (ps \o qs)[k] = qs[k - Len(ps)]
      BY <1>2, <2>2
    <3> QED
      BY <3>1, <3>2 DEF Ends
  <2> QED
    BY <2>1, <2>2
<1> QED
  BY <1>2, <1>3 DEF Ends

\* The same of a single piece,
LEMMA OneEnds ==
    ASSUME NEW p, NEW limit, End(p) <= limit
    PROVE  <<p>> \in Seq({p}) /\ Ends(<<p>>, limit)
BY DEF Ends

\* of none,
LEMMA NoneEnds == \A limit : <<>> \in Seq({}) /\ Ends(<<>>, limit)
BY DEF Ends

\* and of what is put of them.
LEMMA PutEnds ==
    ASSUME NEW d, NEW limit, Within(d, limit), NEW S, NEW ps \in Seq(S), Ends(ps, limit)
    PROVE  Within(PutAll(d, ps), limit)
BY PutWithin DEF Ends

\* A stored content ends where its last chunk does.
LEMMA PlainEnds ==
    ASSUME NEW content \in Contents, NEW at \in Nat, NEW limit \in Nat,
           at + Length(content) <= limit
    PROVE  \E S : Plain(at, content) \in Seq(S) /\ Ends(Plain(at, content), limit)
<1> DEFINE ps == Plain(at, content)
           S  == {ps[k] : k \in 1 .. Len(content)}
<1>1. Len(content) \in Nat /\ DOMAIN content = 1 .. Len(content)
      /\ \A k \in 1 .. Len(content) : content[k] \in DOMAIN Size
  BY DEF Contents
<1>2. ps \in [1 .. Len(content) -> S]
  BY <1>1 DEF Plain
<1>3. ps \in Seq(S) /\ Len(ps) = Len(content)
  <2> HIDE DEF ps, S
  <2> QED
    BY <1>1, <1>2, SeqOfFunction
<1>4. ASSUME NEW k \in 1 .. Len(content) PROVE End(ps[k]) <= limit
  <2> DEFINE part == SubSeq(content, 1, k - 1)
  <2>1. ps[k] = [kind |-> "plain", at |-> at + Length(part),
                 size |-> Size[content[k]], chunk |-> content[k]]
    BY <1>1 DEF Plain
  <2>2. End(ps[k]) = at + Length(part) + Size[content[k]]
    <3> HIDE DEF part, ps
    <3> QED
      BY <2>1 DEF End
  <2>3. Length(part) + Size[content[k]] <= Length(content)
    BY LengthOfPart
  <2>4. part \in Contents
    <3>1. k - 1 \in 0 .. Len(content) /\ content \in Seq(DOMAIN Size)
      BY <1>1 DEF Contents
    <3> QED
      BY <3>1, SubSeqProperties DEF Contents
  <2>5. Length(part) \in Nat /\ Length(content) \in Nat /\ Size[content[k]] \in Nat
    BY <1>1, <2>4, LengthType, FormatAssumption
  <2> HIDE DEF part, ps
  <2> QED
    BY <2>2, <2>3, <2>5
<1> QED
  BY <1>3, <1>4 DEF Ends

-----------------------------------------------------------------------------
(* One step per action.                                                    *)

\* Nothing is in the buffer at first.
LEMMA RoomAtFirst == Init => RoomInv
<1> SUFFICES ASSUME Init PROVE RoomInv
  OBVIOUS
<1>1. cap \in Nat /\ dst = {} /\ pos = 0 /\ recs = <<>> /\ reccap = RecInit /\ err = "none"
      /\ ~open /\ result = "ok" /\ accepted = <<>> /\ refused = <<>>
  BY ZipAssumption DEF Init
<1>2. BooksType
  <2>1. <<>> \in Seq(Records) /\ <<>> \in Seq(Taken) /\ Len(<<>>) = 0
    OBVIOUS
  <2> QED
    BY <1>1, <2>1, ZipAssumption DEF BooksType
<1>3. Matching
  BY <1>1 DEF Matching
<1>4. Measures(<<>>)
  BY DEF Measures
<1>5. Counted
  <2>1. SumOf(Bodies(<<>>)) \in Nat
    BY <1>4, BoundSplits
  <2> QED
    BY <1>1, <2>1 DEF Counted
<1>6. Refusing /\ NoRoomNoBound
  BY <1>1 DEF Refusing, NoRoomNoBound
<1> QED
  BY <1>1, <1>2, <1>3, <1>5, <1>6 DEF RoomInv, Books, Buffer, Within

\* A member can only be added while none is open, and there is a free number.
LEMMA FreeForAll ==
    ASSUME RoomInv, NEW name, Refusal(name) = "none"
    PROVE  err = "none" /\ ~open /\ Len(recs) < MaxEntries
<1>1. Len(recs) \in Nat /\ MaxEntries \in Nat
  BY ZipAssumption DEF RoomInv, Books, BooksType
<1> QED
  BY <1>1 DEF Refusal

\* What a bound has to know of a member, whole or streamed.
LEMMA MeasureType ==
    ASSUME NEW m, m.name \in Names, NEW content \in Contents, NEW method
    PROVE  /\ LET size == Measure(m, method, content, FALSE)
              IN  /\ size \in Measured /\ ~size.expands
                  /\ size.nlen = NameLen(m.name) /\ size.ulen = Length(content)
           /\ LET size == Measure(m, method, content, TRUE)
              IN  /\ size \in Measured /\ (size.expands <=> method = "DEFLATE")
                  /\ size.nlen = NameLen(m.name) /\ size.ulen = Length(content)
<1>1. NameLen(m.name) \in Nat /\ Length(content) \in Nat
  BY NameLenType, LengthType
<1> QED
  BY <1>1 DEF Measure, Measured

\* The record of a member has its name.
LEMMA RecordType ==
    ASSUME NEW m, m.name \in Names, m.mode \in Modes, m.mtime \in Times, NEW method \in Methods,
           NEW content \in Contents, NEW csize \in Nat, NEW hdr \in Nat
    PROVE  /\ RecordOf(m, method, content, csize, hdr) \in Records
           /\ RecordOf(m, method, content, csize, hdr).name = m.name
BY LengthType DEF RecordOf, Records

\* A member that is added lies within the buffer, or there was no room for it
\* in any buffer below the bound.
LEMMA AddFits ==
    ASSUME RoomInv, NEW m \in Members, NEW method \in Methods, Add(m, method)
    PROVE  RoomInv'
<1>1. err = "none" /\ ~open /\ Len(recs) < MaxEntries /\ ~tampered
  <2>1. Refusal(m.name) = "none" /\ ~tampered
    BY Zenon DEF Add, Adding, Calling
  <2>2. err = "none" /\ ~open /\ Len(recs) < MaxEntries
    BY <2>1, FreeForAll, Zenon
  <2> QED
    BY <2>1, <2>2
<1>2. cap' = cap /\ open' = open /\ tampered' = tampered
  BY DEF Add, stream, consumer
<1>3. Books /\ Within(dst, cap) /\ cap \in Nat /\ pos \in Nat
  BY <1>1 DEF RoomInv, Buffer, Books, BooksType
<1>4. SUFFICES Books' /\ Within(dst', cap)
  BY <1>1, <1>2 DEF RoomInv, Buffer
<1>5. CASE result' = "OOM" /\ UNCHANGED <<dst, pos, recs, reccap, err, accepted, refused>>
  BY <1>2, <1>3, <1>5, BooksStay
<1>6. ASSUME NEW tried \in Methods, Added(m, tried)
      PROVE  Books' /\ Within(dst', cap)
  <2> DEFINE c      == m.content
             body   == pos + LocalSize(m.name, Length(c))
             room   == cap - body
             packed == IF Tried(tried, c) THEN PackedSize[c] ELSE 0
             packs  == Tried(tried, c) /\ Shrinks(packed, c, room)
             csize  == IF packs THEN packed ELSE Length(c)
             spoilt == Wipe(dst, body, IF packed <= room THEN body + packed ELSE cap)
             local  == LocalHeader(pos, body - pos)
             used   == IF packs THEN tried ELSE "STORE"
             load   == IF packs THEN <<Packed(body, csize, tried, c)>> ELSE Plain(body, c)
             size   == Measure(m, tried, c, FALSE)
  <2>1. \/ body > cap /\ OutOfRoom(size) /\ UNCHANGED <<dst, pos, recs, reccap, accepted>>
        \/ /\ ~(body > cap) /\ body + csize > cap /\ OutOfRoom(size) /\ dst' = spoilt
           /\ UNCHANGED <<pos, recs, reccap, accepted>>
        \/ /\ ~(body > cap) /\ ~(body + csize > cap)
           /\ Record(RecordOf(m, used, c, csize, pos))
           /\ dst' = PutAll(spoilt, <<local>> \o load)
           /\ pos' = (IF err' = "none" THEN body + csize ELSE pos)
           /\ Accept(m, c, size) /\ refused' = refused
    BY <1>6 DEF Added
  <2>2. /\ m.name \in Names /\ c \in Contents /\ c \in DOMAIN PackedSize
        /\ NameLen(m.name) \in Nat /\ Length(c) \in Nat
        /\ m.mode \in Modes /\ m.mtime \in Times
    BY MemberType
  <2>3. /\ size \in Measured /\ size.nlen = NameLen(m.name) /\ size.ulen = Length(c)
        /\ ~size.expands
    <3> HIDE DEF c
    <3> QED
      BY <2>2, MeasureType
  <2>4. body \in Nat /\ pos + 30 + NameLen(m.name) <= body /\ body <= pos + 50 + NameLen(m.name)
    BY <1>3, <2>2 DEF LocalSize
  <2>5. packed \in Nat
    BY <2>2, ZipAssumption
  <2>6. csize \in Nat /\ csize <= Length(c)
    <3> HIDE DEF c
    <3> QED
      BY <2>2, <2>5 DEF Shrinks
  <2>7. used \in Methods
    BY DEF Methods
  <2>8. Within(spoilt, cap)
    BY <1>3, WipeWithin
  <2>9. packs => <<Packed(body, csize, tried, c)>> = load
    OBVIOUS
  <2>10. ~packs => Plain(body, c) = load /\ csize = Length(c)
    OBVIOUS
  <2>11. End(Packed(body, csize, tried, c)) = body + csize
    BY DEF End, Packed
  <2>12. End(local) = body
    BY <1>3, <2>4 DEF End, LocalHeader
  <2> HIDE DEF c, body, packed, packs, csize, spoilt, local, used, load, size
  <2>13. CASE body > cap /\ OutOfRoom(size) /\ UNCHANGED <<dst, pos, recs, reccap, accepted>>
    <3>1. cap < pos + 50 + size.nlen + size.ulen
      BY <1>3, <2>2, <2>3, <2>4, <2>13
    <3> QED
      BY <1>1, <1>2, <1>3, <2>3, <2>13, <3>1, BooksRefuse
  <2>14. CASE body + csize > cap /\ OutOfRoom(size) /\ dst' = spoilt
              /\ UNCHANGED <<pos, recs, reccap, accepted>>
    <3>1. cap < pos + 50 + size.nlen + size.ulen
      BY <1>3, <2>2, <2>3, <2>4, <2>6, <2>14
    <3> QED
      BY <1>1, <1>2, <1>3, <2>3, <2>8, <2>14, <3>1, BooksRefuse
  <2>15. CASE /\ ~(body > cap) /\ ~(body + csize > cap)
              /\ Record(RecordOf(m, used, c, csize, pos))
              /\ dst' = PutAll(spoilt, <<local>> \o load)
              /\ pos' = (IF err' = "none" THEN body + csize ELSE pos)
              /\ Accept(m, c, size) /\ refused' = refused
    <3> DEFINE more == body + csize - pos
    <3>1. more \in Nat /\ pos + more = body + csize /\ pos + more <= cap
          /\ more <= 50 + size.nlen + size.ulen
      BY <1>3, <2>2, <2>3, <2>4, <2>6, <2>15
    <3>2. RecordOf(m, used, c, csize, pos) \in Records
          /\ RecordOf(m, used, c, csize, pos).name = m.name
      BY <1>3, <2>2, <2>6, <2>7, RecordType
    <3> HIDE DEF more
    <3>3. Books'
      BY <1>1, <1>2, <1>3, <2>2, <2>3, <2>15, <3>1, <3>2, BooksRecord
    <3>4. \E S : load \in Seq(S) /\ Ends(load, cap)
      <4>1. CASE packs
        <5>1. End(Packed(body, csize, tried, c)) <= cap
          BY <1>3, <2>4, <2>6, <2>11, <2>15
        <5> QED
          BY <2>9, <4>1, <5>1, OneEnds
      <4>2. CASE ~packs
        <5>1. body + Length(c) <= cap
          BY <1>3, <2>2, <2>4, <2>10, <2>15, <4>2
        <5> QED
          BY <1>3, <2>2, <2>4, <2>10, <4>2, <5>1, PlainEnds
      <4> QED
        BY <4>1, <4>2
    <3>5. PICK S : load \in Seq(S) /\ Ends(load, cap)
      BY <3>4
    <3>6. <<local>> \in Seq({local}) /\ Ends(<<local>>, cap)
      <4>1. End(local) <= cap
        BY <1>3, <2>4, <2>12, <2>15
      <4> QED
        BY <4>1, OneEnds
    <3>7. <<local>> \o load \in Seq({local} \cup S) /\ Ends(<<local>> \o load, cap)
      BY <3>5, <3>6, EndsTogether
    <3>8. Within(dst', cap)
      BY <2>8, <2>15, <3>7, PutEnds
    <3> QED
      BY <3>3, <3>8
  <2> QED
    BY <2>1, <2>13, <2>14, <2>15
<1> QED
  BY <1>5, <1>6 DEF Add, Methods, Return

\* A streamed member begins within the buffer.
LEMMA BeginFits ==
    ASSUME RoomInv, NEW m \in Members, NEW method \in {"STORE", "DEFLATE"}, Begin(m, method)
    PROVE  RoomInv'
<1>1. err = "none" /\ ~open /\ Len(recs) < MaxEntries /\ ~tampered
  <2>1. Refusal(m.name) = "none" /\ ~tampered
    BY Zenon DEF Begin, Adding, Calling
  <2>2. err = "none" /\ ~open /\ Len(recs) < MaxEntries
    BY <2>1, FreeForAll, Zenon
  <2> QED
    BY <2>1, <2>2
<1>2. UNCHANGED <<cap, pos, recs, reccap, accepted, tampered>>
  BY DEF Begin, consumer
<1>3. Books /\ Within(dst, cap) /\ cap \in Nat /\ pos \in Nat
  BY <1>1 DEF RoomInv, Buffer, Books, BooksType
<1>4. m.content = <<>> /\ <<>> \in DOMAIN PackedSize /\ m.name \in Names /\ <<>> \in Contents /\ NameLen(m.name) \in Nat
      /\ m.mode \in Modes /\ m.mtime \in Times
  BY MemberType, ZipAssumption DEF Begin
<1> DEFINE body  == pos + 30 + NameLen(m.name)
           local == LocalHeader(pos, body - pos)
           size  == Measure(m, method, <<>>, TRUE)
           opened == [name |-> m.name, content |-> <<>>, mode |-> m.mode, mtime |-> m.mtime,
                      hdr |-> pos, body |-> body, method |-> method, out |-> 0]
<1>5. \/ body > cap /\ OutOfRoom(size) /\ UNCHANGED <<dst, stream, held>>
      \/ result' = "OOM" /\ err' = "OOM" /\ UNCHANGED <<dst, stream, held, refused>>
      \/ ~(body > cap) /\ result' = "OOM" /\ err' = "OOM" /\ dst' = Put(dst, local)
         /\ UNCHANGED <<stream, held, refused>>
      \/ ~(body > cap) /\ dst' = Put(dst, local) /\ member' = opened
         /\ result' = "ok" /\ UNCHANGED <<err, refused>>
  BY DEF Begin, Stick, Return
<1>6. body \in Nat /\ End(local) = body
  BY <1>3, <1>4 DEF End, LocalHeader
<1>7. size \in Measured /\ size.nlen = NameLen(m.name) /\ size.ulen = 0
  BY <1>4, MeasureType, LengthOfNone
<1>8. opened \in Streamed /\ opened.hdr = pos /\ opened.body = body /\ opened.name = m.name
  BY <1>3, <1>4, <1>6 DEF Streamed
<1>9. ~(body > cap) => Within(Put(dst, local), cap)
  <2> HIDE DEF local, body
  <2> QED
    BY <1>3, <1>6, PutOneWithin
<1>10. opened.body = pos + 30 + NameLen(m.name)
  OBVIOUS
<1>11. body = pos + 30 + NameLen(m.name)
  OBVIOUS
<1> HIDE DEF body, local, size, opened
<1>12. CASE body > cap /\ OutOfRoom(size) /\ UNCHANGED <<dst, stream, held>>
  <2>1. cap < pos + 50 + size.nlen + size.ulen
    BY <1>3, <1>4, <1>6, <1>7, <1>11, <1>12
  <2>2. Books'
    BY <1>1, <1>2, <1>3, <1>7, <1>12, <2>1, BooksRefuse
  <2> QED
    BY <1>1, <1>2, <1>3, <1>12, <2>2 DEF RoomInv, Buffer, stream
<1>13. CASE /\ result' = "OOM" /\ err' = "OOM" /\ UNCHANGED <<stream, refused>>
            /\ \/ dst' = dst
               \/ ~(body > cap) /\ dst' = Put(dst, local)
  <2>1. Books'
    BY <1>2, <1>3, <1>13, BooksStay
  <2>2. Within(dst', cap)
    BY <1>3, <1>9, <1>13
  <2> QED
    BY <1>1, <1>2, <1>13, <2>1, <2>2 DEF RoomInv, Buffer, stream
<1>14. CASE ~(body > cap) /\ dst' = Put(dst, local) /\ member' = opened
            /\ result' = "ok" /\ UNCHANGED <<err, refused>>
  <2>1. Books'
    BY <1>2, <1>3, <1>14, BooksStay
  <2>2. OpenFits'
    BY <1>1, <1>2, <1>3, <1>6, <1>8, <1>11, <1>14 DEF OpenFits
  <2> QED
    BY <1>2, <1>9, <1>14, <2>1, <2>2 DEF RoomInv, Buffer
<1> QED
  BY <1>5, <1>12, <1>13, <1>14

\* What is known of the open member.
LEMMA OpenKnown ==
    ASSUME RoomInv, open, ~tampered
    PROVE  /\ Books /\ Within(dst, cap) /\ OpenFits /\ cap \in Nat /\ pos \in Nat
           /\ member.name \in Names /\ member.content \in Contents
           /\ member.content \in DOMAIN PackedSize /\ member.mode \in Modes
           /\ member.mtime \in Times /\ member.hdr = pos /\ member.out \in Nat
           /\ member.method \in {"STORE", "DEFLATE"} /\ NameLen(member.name) \in Nat
           /\ member.body \in Nat /\ member.body = pos + 30 + NameLen(member.name)
           /\ member.body <= cap /\ Length(member.content) \in Nat
           /\ Len(recs) < MaxEntries
<1>1. member \in Streamed /\ OpenFits
  BY DEF RoomInv, OpenFits
<1>2. member.name \in Names /\ member.content \in Contents /\ member.content \in DOMAIN PackedSize
  BY <1>1, ZipAssumption DEF Streamed, Contents
<1>3. NameLen(member.name) \in Nat /\ Length(member.content) \in Nat
  BY <1>2, NameLenType, LengthType
<1> QED
  BY <1>1, <1>2, <1>3 DEF RoomInv, Buffer, Books, BooksType, OpenFits, Streamed

\* The open member goes on, with more content.
LEMMA GoesOn ==
    ASSUME OpenFits, NEW content \in DOMAIN PackedSize, NEW out \in Nat,
           member' = [member EXCEPT !.content = content, !.out = out]
             \/ member' = [member EXCEPT !.content = content],
           UNCHANGED <<cap, pos, recs>>
    PROVE  OpenFits'
BY DEF OpenFits, Streamed

\* What is streamed lies within the buffer.
LEMMA WriteFits ==
    ASSUME RoomInv, NEW chunk \in DOMAIN Size, EncWrite(chunk)
    PROVE  RoomInv'
<1> DEFINE content == Append(member.content, chunk)
<1>1. ~tampered /\ open /\ err = "none" /\ content \in DOMAIN PackedSize
      /\ UNCHANGED <<cap, pos, recs, reccap, accepted, tampered>>
  BY DEF EncWrite, Calling, consumer
<1>2. /\ Books /\ Within(dst, cap) /\ OpenFits /\ cap \in Nat /\ pos \in Nat
      /\ member.name \in Names /\ member.content \in Contents /\ member.out \in Nat
      /\ NameLen(member.name) \in Nat /\ Length(member.content) \in Nat
      /\ member.body \in Nat /\ member.body = pos + 30 + NameLen(member.name)
  BY <1>1, OpenKnown
<1>3. content \in Contents /\ Length(content) = Length(member.content) + Size[chunk]
      /\ Size[chunk] \in Nat
  BY <1>2, LengthExtends, FormatAssumption
<1>4. PackedSize[content] \in Nat
  BY <1>1, ZipAssumption
<1>5. IF member.method = "DEFLATE" THEN WritePacked(content) ELSE WritePlain(chunk, content)
  BY DEF EncWrite
<1> HIDE DEF content
<1>6. CASE WritePacked(content)
  <2> DEFINE size == Measure(member, "DEFLATE", content, TRUE)
  <2>1. PICK out \in {member.out, PackedSize[content]} :
           \/ OutOfRoom(size) /\ dst' = Wipe(dst, member.body, cap) /\ open' = FALSE
           \/ /\ dst' = Wipe(dst, member.body, member.body + out)
              /\ member' = [member EXCEPT !.content = content, !.out = out]
              /\ result' = "ok" /\ UNCHANGED <<err, open, refused>>
    BY <1>6 DEF WritePacked, AbandonMember, Return
  <2>2. size \in Measured /\ size.expands
    BY <1>2, <1>3, MeasureType
  <2> HIDE DEF size
  <2>3. CASE OutOfRoom(size) /\ dst' = Wipe(dst, member.body, cap) /\ open' = FALSE
    <3>1. Books'
      BY <1>1, <1>2, <2>2, <2>3, BooksRefuse
    <3> QED
      BY <1>1, <1>2, <2>3, <3>1, WipeWithin DEF RoomInv, Buffer
  <2>4. CASE /\ dst' = Wipe(dst, member.body, member.body + out)
             /\ member' = [member EXCEPT !.content = content, !.out = out]
             /\ result' = "ok" /\ UNCHANGED <<err, open, refused>>
    <3>1. Books'
      BY <1>1, <1>2, <2>4, BooksStay
    <3>2. out \in Nat
      BY <1>2, <1>4
    <3>3. OpenFits'
      BY <1>1, <1>2, <1>3, <2>4, <3>2, GoesOn
    <3> QED
      BY <1>1, <1>2, <2>4, <3>1, <3>3, WipeWithin DEF RoomInv, Buffer
  <2> QED
    BY <2>1, <2>3, <2>4
<1>7. CASE WritePlain(chunk, content)
  <2> DEFINE at   == member.body + Length(member.content)
             size == Measure(member, "STORE", content, TRUE)
  <2>1. /\ member' = [member EXCEPT !.content = content] /\ open' = open
        /\ \/ at + Size[chunk] > cap /\ OutOfRoom(size) /\ dst' = dst
           \/ /\ ~(at + Size[chunk] > cap) /\ dst' = PutAll(dst, Plain(at, <<chunk>>))
              /\ result' = "ok" /\ UNCHANGED <<err, refused>>
    BY <1>7 DEF WritePlain, Return
  <2>2. size \in Measured /\ size.nlen = NameLen(member.name) /\ size.ulen = Length(content)
    BY <1>2, <1>3, MeasureType
  <2>3. at \in Nat /\ at + Size[chunk] = pos + 30 + NameLen(member.name) + Length(content)
    BY <1>2, <1>3
  <2>4. OpenFits'
    BY <1>1, <1>2, <1>3, <2>1, 0 \in Nat, GoesOn
  <2> HIDE DEF at, size
  <2>5. CASE at + Size[chunk] > cap /\ OutOfRoom(size) /\ dst' = dst
    <3>1. cap < pos + 50 + size.nlen + size.ulen
      <4>1. Length(content) \in Nat
        BY <1>2, <1>3
      <4> QED
        BY <1>2, <2>2, <2>3, <2>5, <4>1
    <3>2. Books'
      BY <1>1, <1>2, <2>2, <2>5, <3>1, BooksRefuse
    <3> QED
      BY <1>1, <1>2, <2>4, <2>5, <3>2 DEF RoomInv, Buffer
  <2>6. CASE /\ ~(at + Size[chunk] > cap) /\ dst' = PutAll(dst, Plain(at, <<chunk>>))
             /\ result' = "ok" /\ UNCHANGED <<err, refused>>
    <3>1. Books'
      BY <1>1, <1>2, <2>6, BooksStay
    <3>2. <<chunk>> \in Contents /\ Length(<<chunk>>) = Size[chunk]
      <4>1. <<>> \in Contents /\ Append(<<>>, chunk) = <<chunk>>
        BY DEF Contents
      <4>2. Append(<<>>, chunk) \in Contents
            /\ Length(Append(<<>>, chunk)) = Length(<<>>) + Size[chunk]
        BY <4>1, LengthExtends
      <4>3. Length(<<chunk>>) = 0 + Size[chunk]
        BY <4>1, <4>2, LengthOfNone, Zenon
      <4> QED
        BY <1>3, <4>1, <4>2, <4>3
    <3>3. PICK S : Plain(at, <<chunk>>) \in Seq(S) /\ Ends(Plain(at, <<chunk>>), cap)
      <4>1. at + Length(<<chunk>>) <= cap
        BY <1>2, <1>3, <2>3, <2>6, <3>2
      <4> QED
        BY <1>2, <2>3, <3>2, <4>1, PlainEnds
    <3>4. Within(dst', cap)
      BY <1>2, <2>6, <3>3, PutEnds
    <3> QED
      BY <1>1, <2>4, <3>1, <3>4 DEF RoomInv, Buffer
  <2> QED
    BY <2>1, <2>5, <2>6
<1> QED
  BY <1>5, <1>6, <1>7

\* A streamed member ends within the buffer, with its descriptor.
LEMMA EndFits ==
    ASSUME RoomInv, EncEnd
    PROVE  RoomInv'
<1> DEFINE content == member.content
           csize   == IF member.method = "STORE" THEN Length(content) ELSE PackedSize[content]
           at      == member.body + csize
           packed  == IF member.method = "DEFLATE"
                        THEN <<Packed(member.body, csize, "DEFLATE", content)>> ELSE <<>>
           size    == Measure(member, member.method, content, TRUE)
           whole   == Measure(member, "DEFLATE", content, TRUE)
           r       == RecordOf(member, member.method, content, csize, member.hdr)
<1>1. ~tampered /\ open /\ err = "none" /\ UNCHANGED <<cap, member, tampered>>
  BY DEF EncEnd, Calling, consumer
<1>2. /\ Books /\ Within(dst, cap) /\ OpenFits /\ cap \in Nat /\ pos \in Nat
      /\ member.name \in Names /\ content \in Contents /\ member.mode \in Modes
      /\ content \in DOMAIN PackedSize /\ member.mtime \in Times /\ member.hdr = pos
      /\ member.method \in {"STORE", "DEFLATE"} /\ NameLen(member.name) \in Nat
      /\ member.body \in Nat /\ member.body = pos + 30 + NameLen(member.name)
      /\ member.body <= cap /\ Length(content) \in Nat /\ Len(recs) < MaxEntries
  BY <1>1, OpenKnown
<1>3. csize \in Nat /\ (member.method = "STORE" => csize = Length(content))
  BY <1>2, ZipAssumption
<1>4. \/ /\ member.method = "DEFLATE" /\ OutOfRoom(whole) /\ dst' = Wipe(dst, member.body, cap)
         /\ UNCHANGED <<open, pos, recs, reccap, accepted>>
      \/ /\ ~(member.method = "DEFLATE" /\ csize > cap - member.body) /\ at + 16 > cap
         /\ OutOfRoom(size) /\ dst' = PutAll(dst, packed)
         /\ UNCHANGED <<open, pos, recs, reccap, accepted>>
      \/ /\ ~(at + 16 > cap) /\ dst' = PutAll(dst, packed \o <<Descriptor(at)>>)
         /\ Record(r) /\ pos' = (IF err' = "none" THEN at + 16 ELSE pos)
         /\ open' = (err' # "none") /\ Accept(member, content, size) /\ refused' = refused
  BY DEF EncEnd, EndMember
<1>5. /\ size \in Measured /\ size.nlen = NameLen(member.name) /\ size.ulen = Length(content)
      /\ (size.expands <=> member.method = "DEFLATE")
  <2> HIDE DEF content
  <2> QED
    BY <1>2, MeasureType
<1>6. whole \in Measured /\ whole.expands
  <2> HIDE DEF content
  <2> QED
    BY <1>2, MeasureType
<1>7. r \in Records /\ r.name = member.name
  <2>1. member.method \in Methods
    BY <1>2 DEF Methods
  <2> HIDE DEF content, csize
  <2> QED
    BY <1>2, <1>3, <2>1, RecordType
<1>8. at \in Nat /\ at = pos + 30 + NameLen(member.name) + csize
  <2> HIDE DEF csize
  <2> QED
    BY <1>2, <1>3
<1>9. at <= cap => packed \in Seq({packed[1]}) /\ Ends(packed, cap)
  <2> SUFFICES ASSUME at <= cap PROVE packed \in Seq({packed[1]}) /\ Ends(packed, cap)
    OBVIOUS
  <2>1. CASE member.method = "DEFLATE"
    <3> DEFINE p == Packed(member.body, csize, "DEFLATE", content)
    <3>1. packed = <<p>> /\ packed[1] = p
      BY <2>1
    <3>2. End(p) = at
      BY DEF End, Packed
    <3> HIDE DEF p, packed, at
    <3> QED
      BY <3>1, <3>2, OneEnds
  <2>2. CASE member.method # "DEFLATE"
    <3>1. packed = <<>>
      BY <2>2
    <3>2. <<>> \in Seq({packed[1]})
      OBVIOUS
    <3> HIDE DEF packed
    <3> QED
      BY <3>1, <3>2, NoneEnds
  <2> QED
    BY <2>1, <2>2
<1>10. End(Descriptor(at)) = at + 16
  BY DEF End, Descriptor
<1> HIDE DEF content, csize, at, packed, size, whole, r
<1>11. CASE /\ OutOfRoom(whole) /\ dst' = Wipe(dst, member.body, cap)
            /\ UNCHANGED <<open, pos, recs, reccap, accepted>>
  <2>1. Books'
    BY <1>1, <1>2, <1>6, <1>11, BooksRefuse
  <2>2. OpenFits'
    BY <1>1, <1>2, <1>11 DEF OpenFits
  <2> QED
    BY <1>1, <1>2, <1>11, <2>1, <2>2, WipeWithin DEF RoomInv, Buffer
<1>12. CASE /\ ~(member.method = "DEFLATE" /\ csize > cap - member.body) /\ at + 16 > cap
            /\ OutOfRoom(size) /\ dst' = PutAll(dst, packed)
            /\ UNCHANGED <<open, pos, recs, reccap, accepted>>
  <2>1. size.expands \/ cap < pos + 50 + size.nlen + size.ulen
    <3>1. CASE member.method = "DEFLATE"
      BY <1>5, <3>1
    <3>2. CASE member.method = "STORE"
      BY <1>2, <1>3, <1>5, <1>8, <1>12, <3>2, SMTT(60)
    <3> QED
      BY <1>2, <3>1, <3>2
  <2>2. Books'
    BY <1>1, <1>2, <1>5, <1>12, <2>1, BooksRefuse
  <2>3. Within(dst', cap)
    <3>1. CASE member.method = "DEFLATE"
      <4>1. at <= cap
        BY <1>2, <1>3, <1>8, <1>12, <3>1, SMTT(60)
      <4> QED
        BY <1>2, <1>9, <1>12, <4>1, PutEnds
    <3>2. CASE member.method # "DEFLATE"
      <4>1. packed = <<>>
        BY <3>2 DEF packed
      <4> QED
        BY <1>2, <1>12, <4>1, NoneEnds, PutEnds
    <3> QED
      BY <3>1, <3>2
  <2>4. OpenFits'
    BY <1>1, <1>2, <1>12 DEF OpenFits
  <2> QED
    BY <1>1, <2>2, <2>3, <2>4 DEF RoomInv, Buffer
<1>13. CASE /\ ~(at + 16 > cap) /\ dst' = PutAll(dst, packed \o <<Descriptor(at)>>)
            /\ Record(r) /\ pos' = (IF err' = "none" THEN at + 16 ELSE pos)
            /\ open' = (err' # "none") /\ Accept(member, content, size) /\ refused' = refused
  <2> DEFINE more == 46 + NameLen(member.name) + csize
  <2>1. more \in Nat /\ pos + more = at + 16 /\ pos + more <= cap /\ at <= cap
    BY <1>2, <1>3, <1>8, <1>13, SMTT(60)
  <2>2. size.expands \/ more <= 50 + size.nlen + size.ulen
    <3>1. CASE member.method = "DEFLATE"
      BY <1>5, <3>1
    <3>2. CASE member.method = "STORE"
      BY <1>2, <1>3, <1>5, <3>2
    <3> QED
      BY <1>2, <3>1, <3>2
  <2> HIDE DEF more
  <2>3. Books'
    BY <1>1, <1>2, <1>5, <1>7, <1>13, <2>1, <2>2, BooksRecord
  <2>4. Within(dst', cap)
    <3>1. <<Descriptor(at)>> \in Seq({Descriptor(at)}) /\ Ends(<<Descriptor(at)>>, cap)
      <4>1. End(Descriptor(at)) <= cap
        BY <1>2, <1>8, <1>10, <1>13
      <4> QED
        BY <4>1, OneEnds
    <3>2. packed \in Seq({packed[1]}) /\ Ends(packed, cap)
      BY <1>9, <2>1
    <3>3. packed \o <<Descriptor(at)>> \in Seq({packed[1]} \cup {Descriptor(at)})
          /\ Ends(packed \o <<Descriptor(at)>>, cap)
      BY <3>1, <3>2, EndsTogether
    <3> QED
      BY <1>2, <1>13, <3>3, PutEnds
  <2>5. ASSUME open' PROVE OpenFits'
    <3>1. err' # "none"
      BY <1>13, <2>5
    <3>2. pos' = pos /\ recs' = recs
      BY <1>1, <1>13, <3>1 DEF Record
    <3> QED
      BY <1>1, <1>2, <3>2 DEF OpenFits
  <2> QED
    BY <1>1, <2>3, <2>4, <2>5 DEF RoomInv, Buffer
<1> QED
  BY <1>4, <1>11, <1>12, <1>13

\* The records of the directory that fit end within the buffer.
LEMMA FirstFit ==
    ASSUME NEW S, NEW dir \in Seq(S)
    PROVE  FirstThatFit(dir) \in Seq(S) /\ Ends(FirstThatFit(dir), cap)
<1> DEFINE T == {n \in 0 .. Len(dir) : \A k \in 1 .. n : End(dir[k]) <= cap}
<1>1. Len(dir) \in Nat /\ T \subseteq Int /\ 0 \in T
  OBVIOUS
<1>2. IsUpperBound(Len(dir), T)
  BY <1>1 DEF IsUpperBound
<1>3. Max(T) \in T
  <2> HIDE DEF T
  <2> QED
    BY <1>1, <1>2, GreatestElement
<1>4. FirstThatFit(dir) = SubSeq(dir, 1, Max(T))
  BY DEF FirstThatFit
<1>5. PICK n \in T : n = Max(T)
  BY <1>3
<1>6. n \in 0 .. Len(dir) /\ \A k \in 1 .. n : End(dir[k]) <= cap
  OBVIOUS
<1>7. SubSeq(dir, 1, n) \in Seq(S) /\ Len(SubSeq(dir, 1, n)) = n
      /\ \A k \in 1 .. n : SubSeq(dir, 1, n)[k] = dir[k]
  BY <1>1, <1>6, SubSeqProperties
<1> QED
  BY <1>4, <1>5, <1>6, <1>7 DEF Ends

\* The directory takes what the bound has for it.
LEMMA DirectoryBound ==
    ASSUME Books
    PROVE  /\ Named(recs)
           /\ DirectoryEnd(pos, recs) <= pos + SumOf(Listings(accepted))
<1>1. recs \in Seq(Records) /\ Len(recs) = Len(accepted) /\ pos \in Nat
      /\ \A k \in 1 .. Len(recs) : NameLen(recs[k].name) = accepted[k].nlen
  BY DEF Books, BooksType, Matching
<1>2. Len(recs) \in Nat /\ \A k \in 1 .. Len(recs) : recs[k] \in Records
  BY <1>1
<1>3. Named(recs)
  BY <1>2 DEF Named, Records
<1>4. CentralSizes(recs) \in Seq(Nat) /\ Len(CentralSizes(recs)) = Len(recs)
  BY <1>3, SizesType
<1>5. Listings(accepted) \in Seq(Nat) /\ Len(Listings(accepted)) = Len(recs)
  BY <1>1, AcceptedMeasures, SharesType
<1>6. ASSUME NEW k \in 1 .. Len(recs) PROVE CentralSizes(recs)[k] <= Listings(accepted)[k]
  <2>1. CentralSize(recs[k]) <= 74 + NameLen(recs[k].name)
    BY <1>3, CentralSizeBounds DEF Named
  <2>2. CentralSizes(recs)[k] = CentralSize(recs[k])
    BY DEF CentralSizes
  <2>3. Listings(accepted)[k] = 74 + accepted[k].nlen
    BY <1>1 DEF Listings
  <2> QED
    BY <1>1, <2>1, <2>2, <2>3
<1>7. SumOf(CentralSizes(recs)) <= SumOf(Listings(accepted))
  BY <1>4, <1>5, <1>6, SumBelow
<1>8. SumOf(CentralSizes(recs)) \in Nat /\ SumOf(Listings(accepted)) \in Nat
  BY <1>4, <1>5, SumType
<1> QED
  BY <1>1, <1>3, <1>7, <1>8 DEF DirectoryEnd

\* The directory ends within the buffer, or the buffer is below the bound.
LEMMA FinishFits ==
    ASSUME RoomInv, Finish
    PROVE  RoomInv'
<1> DEFINE dir   == Directory(pos, recs)
           from  == DirectoryEnd(pos, recs)
           after == Trailer(from, Len(recs), pos)
           last  == End(after[Len(after)])
<1>1. ~tampered /\ err = "none" /\ err' = "none"
      /\ UNCHANGED <<cap, pos, recs, reccap, accepted, refused, tampered>>
  BY DEF Finish, Calling, history, consumer
<1>2. Books /\ Within(dst, cap) /\ cap \in Nat /\ pos \in Nat
  BY <1>1 DEF RoomInv, Buffer, Books, BooksType
<1>3. CASE open
  <2>1. open' = FALSE /\ dst' = dst /\ result' = "INVALID_INPUT"
    BY <1>3 DEF Finish, DropOpen, AbandonMember, Return
  <2>2. Books'
    BY <1>1, <1>2, <2>1, BooksStay
  <2> QED
    BY <1>1, <1>2, <2>1, <2>2 DEF RoomInv, Buffer
<1>4. CASE ~open
  <2>1. \/ last <= cap /\ result' = "ok" /\ dst' = PutAll(dst, dir \o after)
        \/ ~(last <= cap) /\ result' = "BUFFER_TOO_SMALL" /\ dst' = PutAll(dst, FirstThatFit(dir))
    BY <1>4 DEF Finish, Return
  <2>2. open' = open
    BY <1>4 DEF Finish, stream
  <2>3. Named(recs) /\ from <= pos + SumOf(Listings(accepted))
    BY <1>2, DirectoryBound
  <2>4. /\ dir \in Seq({dir[k] : k \in 1 .. Len(recs)}) /\ Len(dir) = Len(recs)
        /\ \A k \in 1 .. Len(recs) : End(dir[k]) \in Nat /\ End(dir[k]) <= from
        /\ from \in Nat
    BY <1>2, <2>3, DirectoryEnds
  <2>5. /\ after \in Seq({after[k] : k \in 1 .. Len(after)}) /\ Len(after) \in Nat
        /\ \A k \in 1 .. Len(after) : End(after[k]) \in Nat /\ End(after[k]) <= last
        /\ from <= last /\ last <= from + 98 /\ last \in Nat
    <3> HIDE DEF from
    <3> QED
      BY <2>4, TrailerEnds
  <2>6. PICK S : dir \in Seq(S)
    BY <2>4
  <2>7. PICK T : after \in Seq(T)
    BY <2>5
  <2> DEFINE fit == FirstThatFit(dir)
  <2>8. fit \in Seq(S) /\ Ends(fit, cap)
    <3> HIDE DEF dir
    <3> QED
      BY <2>6, FirstFit
  <2> HIDE DEF dir, from, after, last, fit
  <2>9. CASE last <= cap /\ result' = "ok" /\ dst' = PutAll(dst, dir \o after)
    <3>1. Ends(dir, cap)
      <4> SUFFICES ASSUME NEW k \in 1 .. Len(recs) PROVE End(dir[k]) <= cap
        BY <2>4 DEF Ends
      <4>1. End(dir[k]) \in Nat /\ End(dir[k]) <= from
        BY <2>4
      <4> QED
        BY <1>2, <2>4, <2>5, <2>9, <4>1
    <3>2. Ends(after, cap)
      <4> SUFFICES ASSUME NEW k \in 1 .. Len(after) PROVE End(after[k]) <= cap
        BY DEF Ends
      <4>1. End(after[k]) \in Nat /\ End(after[k]) <= last
        BY <2>5
      <4> QED
        BY <1>2, <2>5, <2>9, <4>1
    <3>3. dir \o after \in Seq(S \cup T) /\ Ends(dir \o after, cap)
      BY <2>6, <2>7, <3>1, <3>2, EndsTogether
    <3>4. Within(dst', cap)
      BY <1>2, <2>9, <3>3, PutEnds
    <3>5. Books'
      BY <1>1, <1>2, <2>9, BooksStay
    <3> QED
      BY <1>1, <1>4, <2>2, <3>4, <3>5 DEF RoomInv, Buffer
  <2>10. CASE ~(last <= cap) /\ result' = "BUFFER_TOO_SMALL" /\ dst' = PutAll(dst, fit)
    <3>1. Within(dst', cap)
      BY <1>2, <2>8, <2>10, PutEnds
    <3>2. Lean(accepted) => cap < Bound(accepted)
      <4> SUFFICES ASSUME Lean(accepted) PROVE cap < Bound(accepted)
        OBVIOUS
      <4>1. /\ pos + SumOf(Listings(accepted)) + 98 <= Bound(accepted)
            /\ Bound(accepted) \in Nat /\ SumOf(Listings(accepted)) \in Nat
        BY <1>2, WithinBound
      <4> QED
        BY <1>2, <2>3, <2>4, <2>5, <2>10, <4>1
    <3>3. accepted \o refused = accepted
      BY <1>1, <1>2, RefusedNone
    <3>4. (BooksType /\ Matching /\ Counted /\ Refusing)'
      BY <1>1, <1>2 DEF Books, BooksType, Matching, Counted, Refusing
    <3>5. NoRoomNoBound'
      BY <1>1, <2>10, <3>2, <3>3 DEF NoRoomNoBound
    <3> QED
      BY <1>1, <1>4, <2>2, <3>1, <3>4, <3>5 DEF RoomInv, Buffer, Books
  <2> QED
    BY <2>1, <2>9, <2>10 DEF fit
<1> QED
  BY <1>3, <1>4

\* What leaves the writer alone.
LEMMA OthersFit ==
    ASSUME RoomInv, UNCHANGED <<writer, result, history>>,
           tampered' = tampered \/ tampered'
    PROVE  RoomInv'
<1>1. Books'
  <2>1. UNCHANGED <<cap, pos, recs, reccap, accepted, refused, result, err>>
    BY DEF writer, history
  <2> QED
    BY <2>1, BooksStay DEF RoomInv
<1>2. Buffer' /\ (open' => OpenFits')
  BY DEF RoomInv, Buffer, OpenFits, writer, stream
<1> QED
  BY <1>1, <1>2 DEF RoomInv

\* So every step keeps the invariant.
LEMMA RoomStep == RoomInv /\ [Next]_vars => RoomInv'
<1> SUFFICES ASSUME RoomInv, [Next]_vars
             PROVE  RoomInv'
  OBVIOUS
<1>1. CASE \E m \in Members, method \in {"STORE", "DEFLATE"} \cup OtherCodecs : Add(m, method)
  BY <1>1, AddFits DEF Methods
<1>2. CASE \E m \in Members, method \in {"STORE", "DEFLATE"} : Begin(m, method)
  BY <1>2, BeginFits
<1>3. CASE \E chunk \in DOMAIN Size : EncWrite(chunk)
  BY <1>3, WriteFits
<1>4. CASE EncEnd
  BY <1>4, EndFits
<1>5. CASE EncEndFailed
  <2>1. UNCHANGED <<cap, dst, pos, recs, reccap, err, result, accepted, refused, tampered>>
        /\ open' = FALSE
    BY <1>5 DEF EncEndFailed, AbandonMember, history, consumer
  <2>2. Books'
    BY <2>1, BooksStay DEF RoomInv
  <2> QED
    BY <2>1, <2>2 DEF RoomInv, Buffer
<1>6. CASE Finish
  BY <1>6, FinishFits
<1>7. CASE \/ \E m \in Members : Refuse(m)
           \/ EncNothingOpen \/ FinishFailed \/ UNCHANGED vars
  <2>1. UNCHANGED vars
    BY <1>7 DEF Refuse, EncNothingOpen, FinishFailed
  <2> QED
    BY <2>1, OthersFit DEF vars, consumer
<1>8. CASE Tamper
  <2>1. UNCHANGED <<cap, pos, recs, reccap, accepted, refused, result, err, stream>> /\ tampered'
    BY <1>8 DEF Tamper, history
  <2>2. Books'
    BY <2>1, BooksStay DEF RoomInv
  <2> QED
    BY <2>1, <2>2 DEF RoomInv, Buffer, OpenFits, stream
<1>9. CASE OpenArchive
  BY <1>9, OthersFit DEF OpenArchive
<1>10. CASE \E i \in DOMAIN reader.entries, ask \in Asks : Unpack(i, ask)
  BY <1>10, OthersFit DEF Unpack
<1> QED
  BY <1>1, <1>2, <1>3, <1>4, <1>5, <1>6, <1>7, <1>8, <1>9, <1>10 DEF Next

\* zip.cyr:944-946: whatever is added, streamed or finished, and whatever fails,
\* nothing is written behind the end of the buffer or of the record table; and in
\* a buffer of zip_bound bytes, for the members that were offered, no call fails
\* for space unless a streamed DEFLATE member is among them.
THEOREM RoomIsSufficient == Spec => []RoomSuffices
<1>1. RoomInv => RoomSuffices
  <2> SUFFICES ASSUME RoomInv PROVE RoomSuffices
    OBVIOUS
  <2>1. pos <= cap /\ Len(recs) <= reccap /\ Len(recs) <= MaxEntries
    BY DEF RoomInv, Books, BooksType
  <2>2. \A p \in dst : tampered \/ End(p) <= cap
    BY DEF RoomInv, Buffer, Within
  <2>3. open => member.hdr = pos /\ member.body <= cap
    BY DEF RoomInv, OpenFits
  <2>4. LET all == accepted \o refused
        IN  result = "BUFFER_TOO_SMALL" /\ (\A k \in DOMAIN all : ~all[k].expands)
               => cap < Bound(all)
    BY DEF RoomInv, Books, NoRoomNoBound, Lean
  <2> QED
    BY <2>1, <2>2, <2>3, <2>4 DEF RoomSuffices
<1> QED
  BY RoomAtFirst, RoomStep, <1>1, PTL DEF Spec

-----------------------------------------------------------------------------
(* The calendar: what a stamp keeps of a time.                             *)

\* Within a cycle of 400 years, the years that stamps can say: 1980 to 2000,
LEMMA YearsBefore2000 ==
    ASSUME NEW doe \in Int, doe >= 138732, doe < 146097
    PROVE  LET yoe == (doe - doe \div 1460 + doe \div 36524 - doe \div 146096) \div 365
               doy == doe - (365 * yoe + yoe \div 4 - yoe \div 100)
           IN  /\ yoe \in 379 .. 399 /\ doy \in 0 .. 365
               /\ yoe = 379 => doy >= 306
BY Z3

\* and 2000 to 2107.
LEMMA YearsAfter2000 ==
    ASSUME NEW doe \in Int, doe >= 0, doe < 39386
    PROVE  LET yoe == (doe - doe \div 1460 + doe \div 36524 - doe \div 146096) \div 365
               doy == doe - (365 * yoe + yoe \div 4 - yoe \div 100)
           IN  /\ yoe \in 0 .. 107 /\ doy \in 0 .. 365
               /\ yoe = 107 => doy <= 305
BY Z3

\* A day of the year, which begins with March, is a day of a month.
LEMMA MonthsOfYear ==
    ASSUME NEW doy \in 0 .. 365
    PROVE  LET mp == (5 * doy + 2) \div 153
               d  == doy - (153 * mp + 2) \div 5 + 1
               m  == IF mp >= 10 THEN mp - 9 ELSE mp + 3
           IN  /\ mp \in 0 .. 11 /\ d \in 1 .. 31 /\ m \in 1 .. 12
               /\ (153 * ((m + 9) % 12) + 2) \div 5 + d - 1 = doy
               /\ m <= 2 <=> doy >= 306
BY Z3

\* A date of the years a stamp can say.
IsDate(date, days) ==
    /\ date.y \in 1980 .. 2107 /\ date.m \in 1 .. 12 /\ date.d \in 1 .. 31
    /\ DaysFromCivil(date.y, date.m, date.d) = days

\* Days from 1980 to 2107 are dates of those years, and come back from them.
LEMMA DatesComeBack ==
    ASSUME NEW days \in Int, days >= 3652, days < StampDays
    PROVE  IsDate(CivilFromDays(days), days)
<1> DEFINE z   == days + 719468
           doe == z % 146097
           yoe == (doe - doe \div 1460 + doe \div 36524 - doe \div 146096) \div 365
           doy == doe - (365 * yoe + yoe \div 4 - yoe \div 100)
           mp  == (5 * doy + 2) \div 153
           m   == IF mp >= 10 THEN mp - 9 ELSE mp + 3
           y   == yoe + (z \div 146097) * 400
           d   == doy - (153 * mp + 2) \div 5 + 1
           yr  == IF m <= 2 THEN y + 1 ELSE y
<1>1. CivilFromDays(days) = [y |-> yr, m |-> m, d |-> d]
  BY DEF CivilFromDays
<1>2. \/ z \div 146097 = 4 /\ doe = z - 584388 /\ doe >= 138732 /\ doe < 146097
      \/ z \div 146097 = 5 /\ doe = z - 730485 /\ doe >= 0 /\ doe < 39386
  <2>1. days < 50403
    BY DEF StampDays
  <2>2. CASE days < 11017
    <3>1. z \div 146097 = 4 /\ z % 146097 = z - 584388
      BY <2>1, <2>2, Z3
    <3>2. z \in Int /\ z >= 723120 /\ z < 730485
      BY <2>2, SMT
    <3> HIDE DEF z
    <3> QED
      BY <3>1, <3>2, SMT
  <2>3. CASE days >= 11017
    <3>1. z \div 146097 = 5 /\ z % 146097 = z - 730485
      BY <2>1, <2>3, Z3
    <3>2. z \in Int /\ z >= 730485 /\ z < 769871
      BY <2>1, <2>3, SMT
    <3> HIDE DEF z
    <3> QED
      BY <3>1, <3>2, SMT
  <2> HIDE DEF z, doe
  <2> QED
    BY <2>2, <2>3, SMT
<1>3. z \in Int /\ days = z - 719468
  BY SMT
<1> HIDE DEF z, doe
<1>4. PICK era \in 4 .. 5 : /\ z \div 146097 = era /\ z = era * 146097 + doe /\ doe \in Int
                            /\ era = 4 => doe >= 138732 /\ doe < 146097
                            /\ era = 5 => doe >= 0 /\ doe < 39386
  <2>1. PICK q : q = z \div 146097
    OBVIOUS
  <2>2. \/ q = 4 /\ doe = z - 584388 /\ doe >= 138732 /\ doe < 146097
        \/ q = 5 /\ doe = z - 730485 /\ doe >= 0 /\ doe < 39386
    BY <1>2, <2>1, SMT
  <2>3. /\ q \in 4 .. 5 /\ z = q * 146097 + doe /\ doe \in Int
        /\ q = 4 => doe >= 138732 /\ doe < 146097
        /\ q = 5 => doe >= 0 /\ doe < 39386
    BY <1>3, <2>2, SMT
  <2> QED
    BY <2>1, <2>3, SMT
<1>5. /\ era = 4 => yoe \in 379 .. 399 /\ doy \in 0 .. 365 /\ (yoe = 379 => doy >= 306)
      /\ era = 5 => yoe \in 0 .. 107 /\ doy \in 0 .. 365 /\ (yoe = 107 => doy <= 305)
  <2>1. CASE era = 4
    BY <1>4, <2>1, YearsBefore2000, SMTT(60)
  <2>2. CASE era = 5
    BY <1>4, <2>2, YearsAfter2000, SMTT(60)
  <2>3. era = 4 \/ era = 5
    BY SMT
  <2> HIDE DEF yoe, doy
  <2> QED
    BY <2>1, <2>2, <2>3, SMT
<1>6. /\ yoe \in 0 .. 399 /\ doy \in 0 .. 365 /\ y = yoe + era * 400
      /\ doe = doy + 365 * yoe + yoe \div 4 - yoe \div 100
  <2>1. yoe \in 0 .. 399 /\ doy \in 0 .. 365
    <3>1. era = 4 \/ era = 5
      BY SMT
    <3> HIDE DEF yoe, doy
    <3> QED
      BY <1>5, <3>1, SMT
  <2> HIDE DEF yoe
  <2> QED
    BY <1>4, <2>1, SMT
<1> HIDE DEF yoe, doy, y
<1>7. /\ mp \in 0 .. 11 /\ d \in 1 .. 31 /\ m \in 1 .. 12
      /\ (153 * ((m + 9) % 12) + 2) \div 5 + d - 1 = doy
      /\ m <= 2 <=> doy >= 306
  BY <1>6, MonthsOfYear
<1> HIDE DEF mp, m, d
<1>8. yr \in 1980 .. 2107
  BY <1>5, <1>6, <1>7
<1>9. (IF m <= 2 THEN yr - 1 ELSE yr) = y
  BY <1>6, <1>7
<1>10. y % 400 = yoe /\ y \div 400 = era
  BY <1>6
<1>11. DaysFromCivil(yr, m, d) = days
  <2>1. DaysFromCivil(yr, m, d)
          = (y \div 400) * 146097 + (y % 400) * 365 + (y % 400) \div 4 - (y % 400) \div 100
              + ((153 * ((m + 9) % 12) + 2) \div 5 + d - 1) - 719468
    <3> HIDE DEF yr
    <3> QED
      BY <1>9 DEF DaysFromCivil
  <2>2. DaysFromCivil(yr, m, d)
          = era * 146097 + yoe * 365 + yoe \div 4 - yoe \div 100 + doy - 719468
    BY <1>7, <1>10, <2>1
  <2> QED
    BY <1>3, <1>4, <1>6, <2>2, SMT
<1> HIDE DEF yr
<1> QED
  BY <1>1, <1>7, <1>8, <1>11 DEF IsDate

\* Days before 1980 are not dates of the years a stamp can say.
LEMMA DatesBefore1980 ==
    ASSUME NEW days \in Nat, days < 3652
    PROVE  CivilFromDays(days).y < 1980
<1> DEFINE z   == days + 719468
           doe == z % 146097
           yoe == (doe - doe \div 1460 + doe \div 36524 - doe \div 146096) \div 365
           doy == doe - (365 * yoe + yoe \div 4 - yoe \div 100)
           mp  == (5 * doy + 2) \div 153
           m   == IF mp >= 10 THEN mp - 9 ELSE mp + 3
           y   == yoe + (z \div 146097) * 400
           yr  == IF m <= 2 THEN y + 1 ELSE y
<1>1. CivilFromDays(days).y = yr
  BY DEF CivilFromDays
<1>2. z \div 146097 = 4 /\ doe = z - 584388
  BY Z3
<1>3. doe \in Int /\ doe >= 135080 /\ doe < 138732
  <2> HIDE DEF doe
  <2> QED
    BY <1>2, SMT
<1> HIDE DEF z, doe
<1>4. yoe \in 369 .. 379 /\ (yoe = 379 => doy < 306) /\ doy \in 0 .. 365
  BY <1>3, Z3
<1> HIDE DEF yoe, doy
<1>5. m <= 2 <=> doy >= 306
  BY <1>4, MonthsOfYear
<1> HIDE DEF m
<1> QED
  BY <1>1, <1>2, <1>4, <1>5

\* Hours, minutes and half seconds of a day, to two seconds.
Hour(s)   == s \div 3600
Minute(s) == (s % 3600) \div 60
Half(s)   == (s % 60) \div 2

\* What a stamp keeps of the second of the day.
IsClock(s, h, n, l) ==
    h \in 0 .. 23 /\ n \in 0 .. 59 /\ l \in 0 .. 29 /\ h * 3600 + n * 60 + 2 * l = s - (s % 2)

\* The parts of it, given as quotients and remainders,
LEMMA ClockParts ==
    ASSUME NEW s \in Int, NEW h \in Int, NEW r \in Int, h * 3600 + r = s,
           0 <= s, s < 86400, 0 <= r, r < 3600,
           NEW n \in Int, NEW u \in Int, n * 60 + u = r, 0 <= u, u < 60,
           NEW l \in Int, NEW e \in Int, l * 2 + e = u, 0 <= e, e < 2
    PROVE  /\ h \in 0 .. 23 /\ n \in 0 .. 59 /\ l \in 0 .. 29
           /\ h * 3600 + n * 60 + 2 * l = s - e
BY SMT

\* as a stamp has them.
LEMMA ClockComesBack ==
    ASSUME NEW s \in Int, 0 <= s, s < 86400
    PROVE  IsClock(s, Hour(s), Minute(s), Half(s))
<1> DEFINE r == s % 3600
           u == s % 60
           e == s % 2
           h == s \div 3600
           n == r \div 60
           l == u \div 2
<1>1. h \in Int /\ r \in Int /\ 0 <= r /\ r < 3600 /\ h * 3600 + r = s
  BY Z3
<1>2. u \in Int /\ 0 <= u /\ u < 60 /\ e \in Int /\ 0 <= e /\ e < 2
  BY Z3
<1>3. r % 60 = u
  BY Z3
<1>4. u % 2 = e
  BY Z3
<1> HIDE DEF r, u, e, h
<1>5. n \in Int /\ n * 60 + (r % 60) = r
  BY <1>1, Z3
<1>6. l \in Int /\ l * 2 + (u % 2) = u
  BY <1>2, Z3
<1> HIDE DEF n, l
<1>7. n * 60 + u = r
  BY <1>3, <1>5, SMT
<1>8. l * 2 + e = u
  BY <1>4, <1>6, SMT
<1>9. h \in 0 .. 23 /\ n \in 0 .. 59 /\ l \in 0 .. 29 /\ h * 3600 + n * 60 + 2 * l = s - e
  BY <1>1, <1>2, <1>5, <1>6, <1>7, <1>8, ClockParts, SMT
<1>10. IsClock(s, h, n, l)
  BY <1>9, SMT DEF IsClock, e
<1> QED
  BY <1>10, SMT DEF h, n, l, r, u, Hour, Minute, Half

\* The stamp that says that there is none.
LEMMA FloorFields ==
    ASSUME NEW y, NEW m, NEW d, NEW h, NEW n, NEW l
    PROVE  Stamp(y, m, d, h, n, l) = Floor1980
             <=> y = 0 /\ m = 1 /\ d = 1 /\ h = 0 /\ n = 0 /\ l = 0
BY DEF Stamp, Floor1980

\* The second of the day.
Second(t) == t % 86400

\* A time is its day and the second of that; a day has an even number of them.
LEMMA DayAndSecond ==
    ASSUME NEW t \in Int
    PROVE  /\ Day(t) \in Int /\ Second(t) \in Int /\ 0 <= Second(t) /\ Second(t) < 86400
           /\ t = Day(t) * 86400 + Second(t) /\ Second(t) % 2 = t % 2
BY Z3 DEF Day, Second

\* A stamp keeps a time to two seconds, from 1980 to 2107.
LEMMA StampsKeep ==
    ASSUME NEW t \in Int, Day(t) < StampDays
    PROVE  DosToUnix(UnixToDos(t)) = KeptTime(t)
<1>1. PICK days, s : days = Day(t) /\ s = Second(t)
  BY SMT
<1>2. /\ days \in Int /\ s \in Int /\ 0 <= s /\ s < 86400 /\ days < StampDays
      /\ t = days * 86400 + s
  BY <1>1, DayAndSecond, SMT
<1>3. s % 2 = t % 2
  BY <1>1, DayAndSecond, SMT
<1>4. CASE t < 315532800
  <2>1. UnixToDos(t) = Floor1980
    <3>1. CASE t <= 0
      BY <3>1, SMT DEF UnixToDos
    <3>2. CASE t > 0
      <4>1. days \in Nat /\ days < 3652
        BY <1>2, <1>4, <3>2, SMT
      <4>2. CivilFromDays(days).y < 1980
        BY <4>1, DatesBefore1980, SMT
      <4> QED
        BY <1>1, <4>2, SMT DEF UnixToDos, Day
    <3> QED
      BY <3>1, <3>2, SMT
  <2> QED
    BY <1>4, <2>1, SMT DEF DosToUnix, KeptTime
<1>5. CASE t >= 315532800
  <2>1. days >= 3652 /\ days < StampDays
    BY <1>2, <1>5, SMT
  <2>2. IsDate(CivilFromDays(days), days)
    BY <1>2, <2>1, DatesComeBack, SMT
  <2>3. PICK date : date = CivilFromDays(days)
    BY SMT
  <2> DEFINE y == date.y
             m == date.m
             d == date.d
  <2>4. /\ y \in 1980 .. 2107 /\ m \in 1 .. 12 /\ d \in 1 .. 31
        /\ DaysFromCivil(y, m, d) = days
    BY <2>2, <2>3, SMT DEF IsDate
  <2>5. IsClock(s, Hour(s), Minute(s), Half(s))
    BY <1>2, ClockComesBack, SMT
  <2>6. PICK h, n, l : /\ h = Hour(s) /\ n = Minute(s) /\ l = Half(s)
                       /\ IsClock(s, h, n, l)
    BY <2>5, SMT
  <2>7. UnixToDos(t) = Stamp(y - 1980, m, d, h, n, l)
    <3>1. ~(t <= 0) /\ ~(date.y < 1980) /\ ~(date.y > 2107)
      BY <1>2, <1>5, <2>4, SMT
    <3>2. UnixToDos(t) = LET yy == IF date.y > 2107 THEN 2107 ELSE date.y
                         IN  IF t <= 0 \/ date.y < 1980 THEN Floor1980
                             ELSE Stamp(yy - 1980, date.m, date.d, Hour(s), Minute(s), Half(s))
      BY <1>2, <2>3, SMT DEF UnixToDos, Day, Second, Hour, Minute, Half
    <3>3. UnixToDos(t) = Stamp(date.y - 1980, date.m, date.d, Hour(s), Minute(s), Half(s))
      BY <3>1, <3>2, SMT
    <3> QED
      BY <2>6, <3>3, SMT
  <2> HIDE DEF y, m, d
  <2> DEFINE z == y - 1980
             p == Stamp(z, m, d, h, n, l)
  <2>8. z \in 0 .. 127 /\ 1980 + z = y /\ (z = 0 <=> y = 1980)
    BY <2>4, SMT
  <2> HIDE DEF z
  <2>9. /\ p.year = z /\ p.month = m /\ p.day = d
        /\ p.hour = h /\ p.minute = n /\ p.half = l
    BY SMT DEF Stamp
  <2>10. h \in 0 .. 23 /\ n \in 0 .. 59 /\ l \in 0 .. 29 /\ h * 3600 + n * 60 + 2 * l = s - (s % 2)
    BY <2>6, SMT DEF IsClock
  <2>11. p = Floor1980 <=> z = 0 /\ m = 1 /\ d = 1 /\ h = 0 /\ n = 0 /\ l = 0
    BY FloorFields, SMT
  <2>12. UnixToDos(t) = p
    BY <2>7, SMT DEF z
  <2> HIDE DEF p
  <2>13. DaysFromCivil(1980, 1, 1) = 3652
    BY DEF DaysFromCivil, SMT
  <2>14. p = Floor1980 => t < 315532802
    <3> SUFFICES ASSUME p = Floor1980 PROVE t < 315532802
      BY SMT
    <3>1. y = 1980 /\ m = 1 /\ d = 1 /\ h = 0 /\ n = 0 /\ l = 0
      BY <2>8, <2>11, SMT
    <3>2. days = 3652
      BY <2>4, <2>13, <3>1, SMT
    <3>3. s < 2
      BY <1>2, <2>10, <3>1, SMT
    <3> QED
      BY <1>2, <3>2, <3>3, SMT
  <2>15. t < 315532802 => p = Floor1980
    <3> SUFFICES ASSUME t < 315532802 PROVE p = Floor1980
      BY SMT
    <3>1. days = 3652
      BY <1>2, <1>5, SMT
    <3>2. s < 2
      BY <1>2, <3>1, SMT
    <3>3. date = [y |-> 1980, m |-> 1, d |-> 1]
      BY <2>3, <3>1, SMT DEF CivilFromDays
    <3>4. y = 1980 /\ m = 1 /\ d = 1
      BY <3>3, SMT DEF y, m, d
    <3>5. h = 0 /\ n = 0 /\ l = 0
      BY <1>2, <2>10, <3>2, SMT
    <3> QED
      BY <2>8, <2>11, <3>4, <3>5, SMT
  <2>16. CASE t < 315532802
    BY <2>12, <2>15, <2>16, SMT DEF DosToUnix, KeptTime
  <2>17. CASE ~(t < 315532802)
    <3>1. ~(p.day < 1 \/ p.month \notin 1 .. 12 \/ p = Floor1980)
      BY <2>4, <2>9, <2>14, <2>17, SMT
    <3>2. DosToUnix(p) = DaysFromCivil(1980 + p.year, p.month, p.day) * 86400
                           + p.hour * 3600 + p.minute * 60 + 2 * p.half
      BY <3>1, SMT DEF DosToUnix
    <3>3. 1980 + p.year = y
      BY <2>8, <2>9, SMT
    <3>4. DosToUnix(p) = days * 86400 + h * 3600 + n * 60 + 2 * l
      BY <2>4, <2>9, <3>2, <3>3, SMT
    <3>5. KeptTime(t) = t - (t % 2)
      BY <2>17, SMT DEF KeptTime
    <3>6. s % 2 = t % 2 /\ s % 2 \in Int
      BY <1>2, <1>3, SMT
    <3>7. DosToUnix(p) = days * 86400 + (s - (s % 2))
      BY <1>2, <2>10, <3>4, <3>6, SMT
    <3>8. DosToUnix(p) = t - (s % 2)
      BY <1>2, <3>6, <3>7, SMT
    <3> QED
      BY <2>12, <3>5, <3>6, <3>8, SMT
  <2> QED
    BY <2>16, <2>17, SMT
<1> QED
  BY <1>4, <1>5, SMT

-----------------------------------------------------------------------------
(* Pieces that lie apart, and what is put beside them.                     *)

\* A piece as it may lie in a buffer: it takes some room.
Placed(p) == p.at \in Nat /\ p.size \in Nat \ {0}

\* No piece lies on another.
Apart(d) ==
    /\ \A p \in d : Placed(p)
    /\ \A p, q \in d : p = q \/ End(p) <= q.at \/ End(q) <= p.at

\* The pieces of d that end by lo are in e as well.
Stays(d, e, lo) == \A p \in d : End(p) <= lo => p \in e

\* The pieces ps lie in d.
Lie(d, ps) == \A k \in 1 .. Len(ps) : ps[k] \in d

\* Pieces one behind the other, from lo.
InLine(ps, lo) ==
    /\ \A k \in 1 .. Len(ps) : Placed(ps[k]) /\ ps[k].at >= lo
    /\ \A i, k \in 1 .. Len(ps) : i < k => End(ps[i]) <= ps[k].at

\* Wiping leaves them apart, and what ends in front of it alone.
LEMMA WipeApart ==
    ASSUME NEW d, Apart(d), NEW lo \in Int, NEW from \in Int, lo <= from, NEW upto
    PROVE  Apart(Wipe(d, from, upto)) /\ Stays(d, Wipe(d, from, upto), lo)
<1>1. Wipe(d, from, upto) \subseteq d
  BY DEF Wipe
<1>2. Apart(Wipe(d, from, upto))
  <2> DEFINE w == Wipe(d, from, upto)
  <2>1. w \subseteq d
    BY <1>1
  <2> HIDE DEF w
  <2>2. Apart(w)
    BY <2>1 DEF Apart
  <2> QED
    BY <2>2 DEF w
<1>3. ASSUME NEW p \in d, End(p) <= lo PROVE p \in Wipe(d, from, upto)
  <2>1. End(p) \in Int
    BY DEF Apart, Placed, End
  <2>2. End(p) <= from
    BY <1>3, <2>1
  <2> QED
    BY <2>2 DEF Wipe
<1> QED
  BY <1>2, <1>3 DEF Stays

\* So does putting a piece.
LEMMA PutApart ==
    ASSUME NEW d, Apart(d), NEW lo \in Int, NEW p, Placed(p), lo <= p.at
    PROVE  Apart(Put(d, p)) /\ Stays(d, Put(d, p), lo) /\ p \in Put(d, p)
<1> DEFINE w == Wipe(d, p.at, End(p))
<1>1. p.at \in Int /\ End(p) \in Int /\ p.at < End(p)
  BY DEF Placed, End
<1>2. Apart(w) /\ Stays(d, w, lo)
  BY <1>1, WipeApart
<1>3. Put(d, p) = w \cup {p}
  BY DEF Put
<1>4. \A q \in w : End(q) <= p.at \/ End(p) <= q.at
  <2> SUFFICES ASSUME NEW q \in w PROVE End(q) <= p.at \/ End(p) <= q.at
    OBVIOUS
  <2>1. q \in {x \in d : End(x) <= p.at \/ x.at >= End(p)}
    BY <1>1 DEF Wipe
  <2>2. q.at \in Int
    BY <1>2 DEF Apart, Placed
  <2> HIDE DEF w
  <2> QED
    BY <1>1, <2>1, <2>2
<1> HIDE DEF w
<1>5. Apart(w \cup {p})
  <2>1. \A q \in w \cup {p} : Placed(q)
    BY <1>2 DEF Apart
  <2>2. ASSUME NEW x \in w \cup {p}, NEW y \in w \cup {p}
        PROVE  x = y \/ End(x) <= y.at \/ End(y) <= x.at
    <3>1. CASE x \in w /\ y \in w
      BY <1>2, <3>1 DEF Apart
    <3>2. CASE x = p \/ y = p
      BY <1>4, <3>2
    <3> QED
      BY <3>1, <3>2
  <2> QED
    BY <2>1, <2>2 DEF Apart
<1> QED
  BY <1>2, <1>3, <1>5 DEF Stays

\* And putting several, one behind the other: they all lie there.
LEMMA PutAllApart ==
    ASSUME NEW d, Apart(d), NEW lo \in Int, NEW S, NEW ps \in Seq(S), InLine(ps, lo)
    PROVE  /\ Apart(PutAll(d, ps)) /\ Stays(d, PutAll(d, ps), lo)
           /\ Lie(PutAll(d, ps), ps)
<1> DEFINE n == Len(ps)
<1>1. n \in Nat
  OBVIOUS
<1>2. PICK put : Puts(put, d, ps)
  BY PutUnfolded
<1>3. \A k \in 1 .. n : /\ Placed(ps[k]) /\ ps[k].at \in Int /\ End(ps[k]) \in Int
                        /\ lo <= ps[k].at
  BY DEF InLine, Placed, End
<1> DEFINE Good(k) == /\ Apart(put[k]) /\ Stays(d, put[k], lo)
                      /\ \A i \in 1 .. k : ps[i] \in put[k]
           T == {k \in 0 .. n : Good(k)}
<1>4. 0 \in T
  BY <1>1, <1>2 DEF Puts, Stays
<1>5. ASSUME NEW k \in 0 .. n - 1, k \in T PROVE k + 1 \in T
  <2>1. k + 1 \in 1 .. n /\ k + 1 - 1 = k /\ k + 1 \in 0 .. n
    BY <1>1
  <2>2. put[k + 1] = Put(put[k], ps[k + 1])
    BY <1>2, <2>1 DEF Puts
  <2>3. PICK q : q = ps[k + 1]
    OBVIOUS
  <2>4. Placed(q) /\ q.at \in Int /\ lo <= q.at
    BY <1>3, <2>1, <2>3
  <2>5. Apart(put[k]) /\ Stays(d, put[k], lo) /\ \A i \in 1 .. k : ps[i] \in put[k]
    BY <1>5
  <2>6. Apart(put[k + 1]) /\ Stays(put[k], put[k + 1], lo) /\ q \in put[k + 1]
    BY <2>2, <2>3, <2>4, <2>5, PutApart
  <2>7. Stays(put[k], put[k + 1], q.at)
    BY <2>2, <2>3, <2>4, <2>5, PutApart
  <2>8. Stays(d, put[k + 1], lo)
    BY <2>5, <2>6 DEF Stays
  <2>9. ASSUME NEW i \in 1 .. k + 1 PROVE ps[i] \in put[k + 1]
    <3>1. CASE i = k + 1
      BY <2>3, <2>6, <3>1
    <3>2. CASE i \in 1 .. k
      <4>1. i \in 1 .. n /\ i < k + 1
        BY <1>1, <3>2
      <4>2. End(ps[i]) <= q.at
        BY <2>1, <2>3, <4>1 DEF InLine
      <4> QED
        BY <2>5, <2>7, <3>2, <4>2 DEF Stays
    <3> QED
      BY <3>1, <3>2
  <2> QED
    BY <2>1, <2>6, <2>8, <2>9
<1>6. 0 .. n \subseteq T
  <2> HIDE DEF T, n
  <2> QED
    BY <1>1, <1>4, <1>5, BoundedInductive
<1>7. Good(n)
  BY <1>1, <1>6
<1> QED
  BY <1>2, <1>7 DEF Puts, Lie

\* Pieces behind pieces.
LEMMA LinesTogether ==
    ASSUME NEW S, NEW ps \in Seq(S), NEW T, NEW qs \in Seq(T), NEW lo \in Int, NEW mid \in Int,
           InLine(ps, lo), lo <= mid, Ends(ps, mid), InLine(qs, mid)
    PROVE  /\ ps \o qs \in Seq(S \cup T) /\ InLine(ps \o qs, lo)
           /\ \A d : Lie(d, ps \o qs) => Lie(d, ps) /\ Lie(d, qs)
<1> DEFINE all == ps \o qs
<1>1. ps \in Seq(S \cup T) /\ qs \in Seq(S \cup T) /\ Len(ps) \in Nat /\ Len(qs) \in Nat
  OBVIOUS
<1>2. /\ all \in Seq(S \cup T) /\ Len(all) = Len(ps) + Len(qs)
      /\ \A k \in 1 .. Len(ps) + Len(qs) :
            all[k] = IF k <= Len(ps) THEN ps[k] ELSE qs[k - Len(ps)]
  BY <1>1, ConcatProperties
<1> HIDE DEF all
<1>3. \A k \in 1 .. Len(ps) : k \in 1 .. Len(all) /\ all[k] = ps[k]
  BY <1>1, <1>2
<1>4. \A k \in 1 .. Len(qs) : Len(ps) + k \in 1 .. Len(all) /\ all[Len(ps) + k] = qs[k]
  <2> SUFFICES ASSUME NEW k \in 1 .. Len(qs)
               PROVE  Len(ps) + k \in 1 .. Len(all) /\ all[Len(ps) + k] = qs[k]
    OBVIOUS
  <2>1. Len(ps) + k \in 1 .. Len(ps) + Len(qs) /\ ~(Len(ps) + k <= Len(ps))
        /\ Len(ps) + k - Len(ps) = k
    BY <1>1
  <2> QED
    BY <1>2, <2>1
<1>5. \A k \in 1 .. Len(all) :
         (k \in 1 .. Len(ps)) \/ (k - Len(ps) \in 1 .. Len(qs) /\ k = Len(ps) + (k - Len(ps)))
  BY <1>1, <1>2
<1>6. \A d : Lie(d, all) => Lie(d, ps) /\ Lie(d, qs)
  BY <1>3, <1>4 DEF Lie
<1>7. \A k \in 1 .. Len(ps) : /\ Placed(ps[k]) /\ ps[k].at \in Int /\ ps[k].at >= lo
                              /\ End(ps[k]) \in Int /\ End(ps[k]) <= mid
  BY DEF InLine, Ends, Placed, End
<1>8. \A k \in 1 .. Len(qs) : /\ Placed(qs[k]) /\ qs[k].at \in Int /\ qs[k].at >= mid
                              /\ qs[k].at >= lo
  BY DEF InLine, Placed
<1>9. ASSUME NEW k \in 1 .. Len(all) PROVE Placed(all[k]) /\ all[k].at >= lo
  BY <1>3, <1>4, <1>5, <1>7, <1>8
<1>10. ASSUME NEW i \in 1 .. Len(all), NEW k \in 1 .. Len(all), i < k
       PROVE  End(all[i]) <= all[k].at
  <2>1. CASE i \in 1 .. Len(ps) /\ k \in 1 .. Len(ps)
    BY <1>3, <1>10, <2>1 DEF InLine
  <2>2. CASE i \in 1 .. Len(ps) /\ k \notin 1 .. Len(ps)
    <3>1. PICK j \in 1 .. Len(qs) : k = Len(ps) + j
      BY <1>5, <2>2
    <3>2. End(ps[i]) \in Int /\ End(ps[i]) <= mid /\ qs[j].at \in Int /\ qs[j].at >= mid
      BY <1>7, <1>8, <2>2
    <3>3. all[i] = ps[i] /\ all[k] = qs[j]
      BY <1>3, <1>4, <2>2, <3>1
    <3> QED
      BY <3>2, <3>3
  <2>3. CASE i \notin 1 .. Len(ps)
    <3>1. PICK h \in 1 .. Len(qs) : i = Len(ps) + h
      BY <1>5, <2>3
    <3>2. k \notin 1 .. Len(ps)
      BY <1>1, <1>10, <3>1
    <3>3. PICK j \in 1 .. Len(qs) : k = Len(ps) + j
      BY <1>5, <3>2
    <3>4. h < j
      BY <1>1, <1>10, <3>1, <3>3
    <3>5. all[i] = qs[h] /\ all[k] = qs[j]
      BY <1>4, <3>1, <3>3
    <3> QED
      BY <3>4, <3>5 DEF InLine
  <2> QED
    BY <2>1, <2>2, <2>3
<1> QED
  BY <1>2, <1>6, <1>9, <1>10 DEF InLine, all

\* A single piece.
LEMMA OneInLine ==
    ASSUME NEW p, Placed(p), NEW lo, p.at >= lo
    PROVE  InLine(<<p>>, lo)
BY DEF InLine

\* No piece.
LEMMA NoneInLine == \A lo : InLine(<<>>, lo)
BY DEF InLine

-----------------------------------------------------------------------------
(* How far the chunks of a content, and the records of a directory, reach. *)

\* Partial sums only grow.
LEMMA Climbing ==
    ASSUME NEW n \in Nat, NEW f, \A k \in 0 .. n : f[k] \in Nat,
           \A k \in 0 .. n - 1 : f[k] <= f[k + 1]
    PROVE  \A i, k \in 0 .. n : i <= k => f[i] <= f[k]
<1> SUFFICES ASSUME NEW i \in 0 .. n PROVE \A k \in 0 .. n : i <= k => f[i] <= f[k]
  OBVIOUS
<1> DEFINE T == {k \in 0 .. n : i <= k => f[i] <= f[k]}
<1>1. 0 \in T
  <2>1. i <= 0 => i = 0
    OBVIOUS
  <2>2. f[0] <= f[0]
    OBVIOUS
  <2> QED
    BY <2>1, <2>2
<1>2. ASSUME NEW k \in 0 .. n - 1, k \in T PROVE k + 1 \in T
  <2>1. k \in 0 .. n /\ k + 1 \in 0 .. n /\ f[k] <= f[k + 1] /\ f[k] \in Nat /\ f[k + 1] \in Nat
        /\ f[i] \in Nat
    OBVIOUS
  <2>2. CASE i <= k
    <3>1. f[i] <= f[k]
      BY <1>2, <2>2
    <3> QED
      BY <2>1, <3>1
  <2>3. CASE ~(i <= k)
    <3>1. i <= k + 1 => i = k + 1
      BY <2>3
    <3> QED
      BY <2>1, <3>1
  <2> QED
    BY <2>2, <2>3
<1>3. 0 .. n \subseteq T
  <2> HIDE DEF T
  <2> QED
    BY <1>1, <1>2, BoundedInductive
<1> QED
  BY <1>3

\* How far the first k chunks reach.
Reach(content) == [k \in 0 .. Len(content) |-> Length(SubSeq(content, 1, k))]

\* Chunk after chunk, to the length of the content.
LEMMA ReachClimbs ==
    ASSUME NEW content \in Contents
    PROVE  LET n == Len(content)
               r == Reach(content)
           IN  /\ n \in Nat /\ r[0] = 0 /\ r[n] = Length(content)
               /\ \A k \in 0 .. n : r[k] \in Nat
               /\ \A k \in 0 .. n - 1 : /\ content[k + 1] \in DOMAIN Size
                                        /\ Size[content[k + 1]] \in Nat \ {0}
                                        /\ r[k + 1] = r[k] + Size[content[k + 1]]
               /\ \A i, k \in 0 .. n : i <= k => r[i] <= r[k]
<1> DEFINE n == Len(content)
           r == Reach(content)
<1>1. n \in Nat /\ content \in Seq(DOMAIN Size)
  BY DEF Contents
<1>2. \A k \in 0 .. n : r[k] = Length(SubSeq(content, 1, k))
  BY DEF Reach
<1>3. r[0] = 0
  <2>1. SubSeq(content, 1, 0) = <<>>
    BY <1>1, SubSeqProperties
  <2>2. r[0] = Length(SubSeq(content, 1, 0))
    BY <1>1, <1>2
  <2> QED
    BY <2>1, <2>2, LengthOfNone, Zenon
<1>4. r[n] = Length(content)
  <2>1. SubSeq(content, 1, n) = content
    BY <1>1
  <2>2. r[n] = Length(SubSeq(content, 1, n))
    BY <1>1, <1>2
  <2> QED
    BY <2>1, <2>2, Zenon
<1>5. ASSUME NEW k \in 0 .. n PROVE r[k] \in Nat
  <2>1. SubSeq(content, 1, k) \in Contents
    BY <1>1, SubSeqProperties DEF Contents
  <2> QED
    BY <1>2, <2>1, LengthType
<1>6. ASSUME NEW k \in 0 .. n - 1
      PROVE  /\ content[k + 1] \in DOMAIN Size /\ Size[content[k + 1]] \in Nat \ {0}
             /\ r[k + 1] = r[k] + Size[content[k + 1]]
  <2>1. k \in 0 .. n /\ k + 1 \in 0 .. n
    BY <1>1
  <2>2. /\ SubSeq(content, 1, k) \in Contents /\ content[k + 1] \in DOMAIN Size
        /\ SubSeq(content, 1, k + 1) = Append(SubSeq(content, 1, k), content[k + 1])
    BY <1>1, PrefixGrows DEF Contents
  <2>3. Length(SubSeq(content, 1, k + 1)) = Length(SubSeq(content, 1, k)) + Size[content[k + 1]]
    BY <2>2, LengthExtends
  <2> QED
    BY <1>2, <2>1, <2>2, <2>3, FormatAssumption
<1> HIDE DEF r, n
<1>7. \A i, k \in 0 .. n : i <= k => r[i] <= r[k]
  <2>1. ASSUME NEW k \in 0 .. n - 1 PROVE r[k] <= r[k + 1]
    <3>1. k \in 0 .. n /\ k + 1 \in 0 .. n
      BY <1>1
    <3> QED
      BY <1>5, <1>6, <3>1
  <2> QED
    BY <1>1, <1>5, <2>1, Climbing
<1> QED
  BY <1>1, <1>3, <1>4, <1>5, <1>6, <1>7 DEF r, n

\* Where the pieces of a stored content lie.
LEMMA PlainPieces ==
    ASSUME NEW content \in Contents, NEW at \in Nat
    PROVE  LET n  == Len(content)
               r  == Reach(content)
               ps == Plain(at, content)
           IN  /\ ps \in Seq({ps[k] : k \in 1 .. n}) /\ Len(ps) = n
               /\ \A k \in 1 .. n : /\ ps[k].kind = "plain" /\ ps[k].chunk = content[k]
                                    /\ ps[k].at = at + r[k - 1] /\ End(ps[k]) = at + r[k]
                                    /\ Placed(ps[k])
<1> DEFINE n  == Len(content)
           r  == Reach(content)
           ps == Plain(at, content)
           S  == {ps[k] : k \in 1 .. n}
<1>1. n \in Nat /\ DOMAIN content = 1 .. n
  BY DEF Contents
<1>2. ps \in [1 .. n -> S]
  BY <1>1 DEF Plain
<1>3. ps \in Seq(S) /\ Len(ps) = n
  <2> HIDE DEF ps, S, n
  <2> QED
    BY <1>1, <1>2, SeqOfFunction
<1>4. ASSUME NEW k \in 1 .. n
      PROVE  /\ ps[k].kind = "plain" /\ ps[k].chunk = content[k]
             /\ ps[k].at = at + r[k - 1] /\ End(ps[k]) = at + r[k]
             /\ Placed(ps[k])
  <2>1. k - 1 \in 0 .. n /\ k - 1 \in 0 .. n - 1 /\ k - 1 + 1 = k
    BY <1>1
  <2>2. r[k - 1] = Length(SubSeq(content, 1, k - 1))
    BY <2>1 DEF Reach
  <2>3. ps[k] = [kind |-> "plain", at |-> at + Length(SubSeq(content, 1, k - 1)),
                 size |-> Size[content[k]], chunk |-> content[k]]
    BY <1>1 DEF Plain
  <2>4. /\ ps[k].kind = "plain" /\ ps[k].chunk = content[k]
        /\ ps[k].at = at + r[k - 1] /\ ps[k].size = Size[content[k]]
    <3> HIDE DEF ps, r
    <3> QED
      BY <2>2, <2>3
  <2>5. r[k - 1] \in Nat /\ Size[content[k]] \in Nat \ {0} /\ r[k] = r[k - 1] + Size[content[k]]
    <3> HIDE DEF ps
    <3> QED
      BY <2>1, ReachClimbs
  <2> HIDE DEF ps, r
  <2> QED
    BY <2>4, <2>5 DEF End, Placed
<1> QED
  BY <1>3, <1>4

\* They are in line.
LEMMA PlainInLine ==
    ASSUME NEW content \in Contents, NEW at \in Nat
    PROVE  InLine(Plain(at, content), at) /\ Ends(Plain(at, content), at + Length(content))
<1> DEFINE n  == Len(content)
           r  == Reach(content)
           ps == Plain(at, content)
<1>1. /\ n \in Nat /\ r[n] = Length(content) /\ Len(ps) = n
      /\ \A k \in 0 .. n : r[k] \in Nat
      /\ \A i, k \in 0 .. n : i <= k => r[i] <= r[k]
  BY ReachClimbs, PlainPieces
<1>2. \A k \in 1 .. n : /\ ps[k].at = at + r[k - 1] /\ End(ps[k]) = at + r[k] /\ Placed(ps[k])
  BY PlainPieces
<1> HIDE DEF n, r, ps
<1>3. ASSUME NEW k \in 1 .. n PROVE Placed(ps[k]) /\ ps[k].at >= at /\ End(ps[k]) <= at + r[n]
  <2>1. k - 1 \in 0 .. n /\ k \in 0 .. n /\ n \in 0 .. n /\ k <= n
    BY <1>1
  <2>2. r[k - 1] \in Nat /\ r[k] \in Nat /\ r[n] \in Nat /\ r[k] <= r[n]
    BY <1>1, <2>1
  <2> QED
    BY <1>2, <2>2
<1>4. ASSUME NEW i \in 1 .. n, NEW k \in 1 .. n, i < k PROVE End(ps[i]) <= ps[k].at
  <2>1. k - 1 \in 0 .. n /\ i \in 0 .. n /\ i <= k - 1
    BY <1>1, <1>4
  <2>2. r[k - 1] \in Nat /\ r[i] \in Nat /\ r[i] <= r[k - 1]
    BY <1>1, <2>1
  <2> QED
    BY <1>2, <2>2
<1> QED
  BY <1>1, <1>3, <1>4 DEF InLine, Ends, ps

\* They leave nothing free between them.
LEMMA PlainCovers ==
    ASSUME NEW content \in Contents, NEW at \in Nat, NEW x \in Int,
           at <= x, x < at + Length(content)
    PROVE  \E k \in 1 .. Len(content) :
              Plain(at, content)[k].at <= x /\ x < End(Plain(at, content)[k])
<1> DEFINE n  == Len(content)
           r  == Reach(content)
           ps == Plain(at, content)
           T  == {k \in 0 .. n : at + r[k] <= x}
<1>1. n \in Nat /\ r[0] = 0 /\ r[n] = Length(content) /\ \A k \in 0 .. n : r[k] \in Nat
  BY ReachClimbs
<1>2. \A k \in 1 .. n : ps[k].at = at + r[k - 1] /\ End(ps[k]) = at + r[k]
  BY PlainPieces
<1> HIDE DEF n, r, ps
<1>3. 0 \in T
  BY <1>1
<1>4. n \notin T
  BY <1>1
<1>5. \E k \in 0 .. n - 1 : k \in T /\ k + 1 \notin T
  <2> SUFFICES ASSUME \A k \in 0 .. n - 1 : k \in T => k + 1 \in T PROVE FALSE
    OBVIOUS
  <2>1. 0 .. n \subseteq T
    <3> HIDE DEF T
    <3> QED
      BY <1>1, <1>3, BoundedInductive
  <2> QED
    BY <1>1, <1>4, <2>1
<1>6. PICK k \in 0 .. n - 1 : k \in T /\ k + 1 \notin T
  BY <1>5
<1>7. k + 1 \in 0 .. n /\ k + 1 \in 1 .. n /\ k + 1 - 1 = k /\ k \in 0 .. n
  BY <1>1
<1>8. at + r[k] <= x /\ x < at + r[k + 1]
  <2>1. r[k + 1] \in Nat
    BY <1>1, <1>7
  <2> QED
    BY <1>6, <1>7, <2>1
<1>9. ps[k + 1].at <= x /\ x < End(ps[k + 1])
  BY <1>2, <1>7, <1>8
<1> QED
  BY <1>7, <1>9 DEF ps, n

\* And nothing else lies among them, so what is read is what was stored.
LEMMA PlainComesBack ==
    ASSUME NEW d, Apart(d), NEW content \in Contents, NEW at \in Nat, Lie(d, Plain(at, content))
    PROVE  PlainAt(d, at, Length(content)) = content
<1> DEFINE n  == Len(content)
           r  == Reach(content)
           ps == Plain(at, content)
           H  == {p \in d : p.kind = "plain" /\ p.at >= at /\ End(p) <= at + Length(content)}
           First(k) == {ps[i] : i \in 1 .. k}
<1>1. /\ n \in Nat /\ r[n] = Length(content) /\ Len(ps) = n
      /\ \A k \in 0 .. n : r[k] \in Nat
      /\ \A k \in 0 .. n - 1 : r[k] < r[k + 1]
      /\ \A i, k \in 0 .. n : i <= k => r[i] <= r[k]
  <2>1. \A k \in 0 .. n - 1 : r[k] \in Nat /\ r[k + 1] = r[k] + Size[content[k + 1]]
                              /\ Size[content[k + 1]] \in Nat \ {0}
    <3>1. n \in Nat /\ \A k \in 0 .. n : r[k] \in Nat
      BY ReachClimbs
    <3> HIDE DEF r
    <3>2. \A k \in 0 .. n - 1 : k \in 0 .. n
      BY <3>1
    <3> QED
      BY <3>1, <3>2, ReachClimbs DEF r
  <2>2. \A k \in 0 .. n - 1 : r[k] < r[k + 1]
    <3> HIDE DEF r, n
    <3> QED
      BY <2>1
  <2> QED
    BY <2>2, ReachClimbs, PlainPieces
<1>2. \A k \in 1 .. n : /\ ps[k].kind = "plain" /\ ps[k].chunk = content[k]
                        /\ ps[k].at = at + r[k - 1] /\ End(ps[k]) = at + r[k]
                        /\ ps[k] \in d
  BY <1>1, PlainPieces DEF Lie
<1>3. content = [k \in 1 .. n |-> content[k]]
  BY DEF Contents
<1>4. H \subseteq {ps[k] : k \in 1 .. n}
  <2> SUFFICES ASSUME NEW p \in H PROVE \E k \in 1 .. n : p = ps[k]
    OBVIOUS
  <2>1. p \in d /\ p.at \in Nat /\ p.size \in Nat \ {0} /\ p.at >= at
        /\ p.at + p.size <= at + Length(content)
    BY DEF Apart, Placed, End
  <2>2. p.at < at + Length(content) /\ Length(content) \in Nat /\ p.at < End(p)
    BY <2>1, LengthType DEF End
  <2>3. PICK k \in 1 .. n : ps[k].at <= p.at /\ p.at < End(ps[k])
    BY <2>1, <2>2, PlainCovers
  <2>4. ps[k] \in d /\ ps[k].at \in Int /\ End(ps[k]) \in Int
    <3>1. ps[k] \in d
      BY <1>2
    <3>2. Placed(ps[k])
      <4> HIDE DEF ps
      <4> QED
        BY <3>1 DEF Apart
    <3> HIDE DEF ps
    <3> QED
      BY <3>1, <3>2 DEF Placed, End
  <2>5. p = ps[k] \/ End(p) <= ps[k].at \/ End(ps[k]) <= p.at
    <3> HIDE DEF ps
    <3> QED
      BY <2>1, <2>4 DEF Apart
  <2> HIDE DEF ps
  <2>6. End(p) \in Int
    BY <2>1 DEF End
  <2> QED
    BY <2>1, <2>2, <2>3, <2>4, <2>5, <2>6
<1> HIDE DEF r, ps, n
<1>5. H = First(n)
  <2> SUFFICES ASSUME NEW k \in 1 .. n PROVE ps[k] \in H
    BY <1>4
  <2>1. k - 1 \in 0 .. n /\ k \in 0 .. n /\ n \in 0 .. n /\ k <= n
    BY <1>1
  <2>2. r[k - 1] \in Nat /\ r[k] \in Nat /\ r[n] \in Nat /\ r[k] <= r[n]
    BY <1>1, <2>1
  <2>3. ps[k].at >= at /\ End(ps[k]) <= at + Length(content)
    BY <1>1, <1>2, <2>2
  <2> QED
    BY <1>2, <2>3
<1>6. \A i, k \in 1 .. n : ps[i].at < ps[k].at <=> i < k
  <2> SUFFICES ASSUME NEW i \in 1 .. n, NEW k \in 1 .. n PROVE ps[i].at < ps[k].at <=> i < k
    OBVIOUS
  <2>1. i - 1 \in 0 .. n /\ k - 1 \in 0 .. n /\ i - 1 \in 0 .. n - 1 /\ i - 1 + 1 = i /\ i \in 0 .. n
    BY <1>1
  <2>2. r[i - 1] \in Nat /\ r[k - 1] \in Nat /\ r[i] \in Nat /\ r[i - 1] < r[i]
    BY <1>1, <2>1
  <2>3. CASE i < k
    <3>1. i <= k - 1
      BY <2>3
    <3>2. r[i] <= r[k - 1]
      BY <1>1, <2>1, <3>1
    <3> QED
      BY <1>2, <2>2, <2>3, <3>2
  <2>4. CASE ~(i < k)
    <3>1. k - 1 <= i - 1
      BY <2>4
    <3>2. r[k - 1] <= r[i - 1]
      BY <1>1, <2>1, <3>1
    <3> QED
      BY <1>2, <2>2, <2>4, <3>2
  <2> QED
    BY <2>3, <2>4
<1>7. \A k \in 0 .. n : IsFiniteSet(First(k)) /\ Cardinality(First(k)) = k
  <2> DEFINE T == {k \in 0 .. n : IsFiniteSet(First(k)) /\ Cardinality(First(k)) = k}
  <2>1. 0 \in T
    <3>1. First(0) = {}
      OBVIOUS
    <3>2. IsFiniteSet(First(0)) /\ Cardinality(First(0)) = 0
      BY <3>1, FS_EmptySet
    <3> QED
      BY <1>1, <3>2
  <2>2. ASSUME NEW k \in 0 .. n - 1, k \in T PROVE k + 1 \in T
    <3>1. k + 1 \in 1 .. n /\ k + 1 \in 0 .. n /\ k \in Nat
      BY <1>1
    <3>2. First(k + 1) = First(k) \cup {ps[k + 1]}
      <4>1. 1 .. k + 1 = (1 .. k) \cup {k + 1}
        BY <3>1
      <4> QED
        BY <4>1, Zenon
    <3>3. ps[k + 1] \notin First(k)
      <4> SUFFICES ASSUME NEW i \in 1 .. k, ps[i] = ps[k + 1] PROVE FALSE
        OBVIOUS
      <4>1. i \in 1 .. n /\ i < k + 1
        BY <1>1
      <4>2. ps[i].at < ps[k + 1].at
        BY <1>6, <3>1, <4>1
      <4>3. ps[k + 1].at \in Int
        <5>1. Placed(ps[k + 1])
          BY <1>2, <3>1 DEF Apart
        <5> QED
          BY <5>1 DEF Placed
      <4> QED
        BY <4>2, <4>3
    <3>4. IsFiniteSet(First(k)) /\ Cardinality(First(k)) = k
      BY <2>2
    <3> HIDE DEF First
    <3> QED
      BY <3>1, <3>2, <3>3, <3>4, FS_AddElement
  <2>3. 0 .. n \subseteq T
    <3> HIDE DEF T
    <3> QED
      BY <1>1, <2>1, <2>2, BoundedInductive
  <2> QED
    BY <2>3
<1>8. ASSUME NEW k \in 1 .. n PROVE Cardinality({q \in H : q.at < ps[k].at}) = k - 1
  <2>1. k - 1 \in 0 .. n /\ \A i \in 1 .. n : i < k <=> i \in 1 .. k - 1
    BY <1>1
  <2>2. {q \in H : q.at < ps[k].at} = First(k - 1)
    <3>1. ASSUME NEW q \in H, q.at < ps[k].at PROVE q \in First(k - 1)
      <4>1. PICK i \in 1 .. n : q = ps[i]
        BY <1>5
      <4>2. i \in 1 .. k - 1
        BY <1>6, <2>1, <3>1, <4>1
      <4> QED
        BY <4>1, <4>2
    <3>2. ASSUME NEW i \in 1 .. k - 1 PROVE ps[i] \in H /\ ps[i].at < ps[k].at
      <4>1. i \in 1 .. n /\ i < k
        BY <1>1
      <4> QED
        BY <1>5, <1>6, <4>1
    <3> QED
      BY <3>1, <3>2
  <2> QED
    BY <1>7, <2>1, <2>2
<1> DEFINE nth(k) == CHOOSE p \in H : Cardinality({q \in H : q.at < p.at}) = k - 1
<1>9. ASSUME NEW k \in 1 .. n PROVE nth(k) = ps[k]
  <2> DEFINE Here(p) == Cardinality({q \in H : q.at < p.at}) = k - 1
  <2>1. ps[k] \in H /\ Here(ps[k])
    BY <1>5, <1>8
  <2>2. ASSUME NEW p \in H, Here(p) PROVE p = ps[k]
    <3>1. PICK j \in 1 .. n : p = ps[j]
      BY <1>5
    <3>2. j - 1 = k - 1
      BY <1>8, <2>2, <3>1
    <3> QED
      BY <3>1, <3>2
  <2>3. nth(k) = CHOOSE p \in H : Here(p)
    OBVIOUS
  <2> HIDE DEF Here, H, nth
  <2> QED
    BY <2>1, <2>2, <2>3
<1>10. Cardinality(H) = n
  <2>1. n \in 0 .. n
    BY <1>1
  <2>2. Cardinality(First(n)) = n
    BY <1>7, <2>1
  <2> QED
    BY <1>5, <2>2
<1>11. PlainAt(d, at, Length(content)) = [k \in 1 .. Cardinality(H) |-> nth(k).chunk]
  BY DEF PlainAt
<1> HIDE DEF nth, H
<1>12. PlainAt(d, at, Length(content)) = [k \in 1 .. n |-> content[k]]
  BY <1>2, <1>9, <1>10, <1>11
<1> QED
  BY <1>3, <1>12

-----------------------------------------------------------------------------
(* The directory and what follows it, as pieces in line.                   *)

\* Two pieces that begin at one place are one piece, and so if they end there.
LEMMA Alone ==
    ASSUME NEW d, Apart(d), NEW p \in d, NEW q \in d, p.at = q.at \/ End(p) = End(q)
    PROVE  p = q
<1>1. p.at \in Nat /\ p.size \in Nat \ {0} /\ q.at \in Nat /\ q.size \in Nat \ {0}
  BY DEF Apart, Placed
<1>2. End(p) = p.at + p.size /\ End(q) = q.at + q.size
  BY DEF End
<1>3. p = q \/ End(p) <= q.at \/ End(q) <= p.at
  BY DEF Apart
<1> QED
  BY <1>1, <1>2, <1>3

\* A central record takes at least 46 bytes.
LEMMA CentralSizeLeast ==
    ASSUME NEW r, r.name \in Names
    PROVE  CentralSize(r) \in Nat /\ CentralSize(r) >= 46
<1> DEFINE S == {r.ulen, r.csize, r.hdr}
           e == IF Extra(r) = <<>> THEN 0 ELSE 4 + 8 * Len(Extra(r))
<1>1. Len(Extra(r)) \in Nat
  <2>1. /\ Overflown(r.ulen) \in Seq(S) /\ Overflown(r.csize) \in Seq(S)
        /\ Overflown(r.hdr) \in Seq(S)
    BY OverflownType
  <2> HIDE DEF S
  <2>2. Extra(r) \in Seq(S)
    BY <2>1, ConcatProperties DEF Extra
  <2> QED
    BY <2>2
<1>2. e \in Nat
  BY <1>1
<1>3. NameLen(r.name) \in Nat
  BY NameLenType
<1>4. CentralSize(r) = 46 + NameLen(r.name) + e
  BY DEF CentralSize
<1> HIDE DEF e
<1> QED
  BY <1>2, <1>3, <1>4

\* How far the first k central records reach.
Rise(rs) == [k \in 0 .. Len(rs) |-> SumOf(SubSeq(CentralSizes(rs), 1, k))]

\* Record after record, to the end of the directory.
LEMMA RiseClimbs ==
    ASSUME NEW rs, Named(rs)
    PROVE  LET n == Len(rs)
               r == Rise(rs)
           IN  /\ n \in Nat /\ r[0] = 0 /\ \A at : DirectoryEnd(at, rs) = at + r[n]
               /\ \A k \in 0 .. n : r[k] \in Nat /\ r[k] >= 46 * k
               /\ \A k \in 0 .. n - 1 : /\ CentralSize(rs[k + 1]) \in Nat
                                        /\ CentralSize(rs[k + 1]) >= 46
                                        /\ r[k + 1] = r[k] + CentralSize(rs[k + 1])
               /\ \A i, k \in 0 .. n : i <= k => r[i] <= r[k]
<1> DEFINE n  == Len(rs)
           r  == Rise(rs)
           ss == CentralSizes(rs)
<1>1. n \in Nat /\ ss \in Seq(Nat) /\ Len(ss) = n
  BY SizesType DEF Named
<1>2. \A k \in 0 .. n : r[k] = SumOf(SubSeq(ss, 1, k))
  BY DEF Rise
<1>3. \A k \in 1 .. n : ss[k] = CentralSize(rs[k])
  BY DEF CentralSizes
<1>4. \A k \in 1 .. n : CentralSize(rs[k]) \in Nat /\ CentralSize(rs[k]) >= 46
  BY CentralSizeLeast DEF Named
<1>5. \A at : DirectoryEnd(at, rs) = at + SumOf(ss)
  BY DEF DirectoryEnd
<1> HIDE DEF ss, r, n
<1>6. r[0] = 0
  <2>1. SubSeq(ss, 1, 0) = <<>>
    BY <1>1, SubSeqProperties
  <2>2. r[0] = SumOf(SubSeq(ss, 1, 0))
    BY <1>1, <1>2
  <2> QED
    BY <2>1, <2>2, SumOfNone, Zenon
<1>7. r[n] = SumOf(ss)
  <2>1. SubSeq(ss, 1, n) = ss
    BY <1>1
  <2>2. r[n] = SumOf(SubSeq(ss, 1, n))
    BY <1>1, <1>2
  <2> QED
    BY <2>1, <2>2, Zenon
<1>8. ASSUME NEW k \in 0 .. n PROVE r[k] \in Nat
  <2>1. SubSeq(ss, 1, k) \in Seq(Nat)
    BY <1>1, SubSeqProperties
  <2> QED
    BY <1>2, <2>1, SumType
<1>9. ASSUME NEW k \in 0 .. n - 1
      PROVE  /\ CentralSize(rs[k + 1]) \in Nat /\ CentralSize(rs[k + 1]) >= 46
             /\ r[k + 1] = r[k] + CentralSize(rs[k + 1])
  <2>1. k \in 0 .. n /\ k + 1 \in 0 .. n /\ k + 1 \in 1 .. n /\ k \in Nat
    BY <1>1
  <2> DEFINE s == SubSeq(ss, 1, k)
             t == SubSeq(ss, 1, k + 1)
  <2>2. /\ s \in Seq(Nat) /\ Len(s) = k /\ \A i \in 1 .. k : s[i] = ss[i]
        /\ t \in Seq(Nat) /\ Len(t) = k + 1 /\ \A i \in 1 .. k + 1 : t[i] = ss[i]
    <3> HIDE DEF ss, n, r
    <3>1. /\ s \in Seq(Nat) /\ Len(s) = k /\ \A i \in 1 .. k : s[i] = ss[i]
      BY <1>1, <2>1, SubSeqProperties, SMTT(60)
    <3>2. t \in Seq(Nat) /\ Len(t) = k + 1 /\ \A i \in 1 .. k + 1 : t[i] = ss[i]
      BY <1>1, <2>1, SubSeqProperties, SMTT(60)
    <3> QED
      BY <3>1, <3>2
  <2> HIDE DEF s, t
  <2>3. \A i \in 1 .. Len(s) : t[i] = s[i]
    BY <2>1, <2>2
  <2>4. SumOf(t) = SumOf(s) + t[k + 1]
    BY <2>1, <2>2, <2>3, SumExtends
  <2>5. t[k + 1] = CentralSize(rs[k + 1])
    BY <1>3, <2>1, <2>2
  <2>6. r[k] = SumOf(s) /\ r[k + 1] = SumOf(t)
    BY <1>2, <2>1 DEF s, t
  <2> QED
    BY <1>4, <2>1, <2>4, <2>5, <2>6
<1>10. \A k \in 0 .. n : r[k] >= 46 * k
  <2> DEFINE T == {k \in 0 .. n : r[k] >= 46 * k}
  <2>1. 0 \in T
    BY <1>1, <1>6
  <2>2. ASSUME NEW k \in 0 .. n - 1, k \in T PROVE k + 1 \in T
    <3>1. k \in 0 .. n /\ k + 1 \in 0 .. n /\ k \in Int /\ r[k] >= 46 * k
      BY <1>1, <2>2
    <3>2. r[k] \in Nat
      BY <1>8, <3>1
    <3>3. PICK c \in Nat : c = CentralSize(rs[k + 1])
      BY <1>9
    <3>4. r[k + 1] = r[k] + c /\ c >= 46
      BY <1>9, <3>3
    <3>5. r[k + 1] >= 46 * (k + 1)
      BY <3>1, <3>2, <3>3, <3>4
    <3> QED
      BY <3>1, <3>5
  <2>3. 0 .. n \subseteq T
    <3> HIDE DEF T
    <3> QED
      BY <1>1, <2>1, <2>2, BoundedInductive
  <2> QED
    BY <2>3
<1>11. \A i, k \in 0 .. n : i <= k => r[i] <= r[k]
  <2>1. ASSUME NEW k \in 0 .. n - 1 PROVE r[k] <= r[k + 1]
    <3>1. k \in 0 .. n /\ k + 1 \in 0 .. n
      BY <1>1
    <3> QED
      BY <1>8, <1>9, <3>1
  <2> QED
    BY <1>1, <1>8, <2>1, Climbing
<1> QED
  BY <1>1, <1>5, <1>6, <1>7, <1>8, <1>9, <1>10, <1>11 DEF r, n

\* Where the central records lie.
LEMMA DirectoryPieces ==
    ASSUME NEW at \in Nat, NEW rs, Named(rs)
    PROVE  LET n   == Len(rs)
               r   == Rise(rs)
               dir == Directory(at, rs)
           IN  /\ dir \in Seq({dir[k] : k \in 1 .. n}) /\ Len(dir) = n
               /\ \A k \in 1 .. n : /\ dir[k] = Central(at + r[k - 1], rs[k])
                                    /\ dir[k].kind = "central"
                                    /\ dir[k].at = at + r[k - 1] /\ End(dir[k]) = at + r[k]
                                    /\ Placed(dir[k])
<1> DEFINE n   == Len(rs)
           r   == Rise(rs)
           dir == Directory(at, rs)
<1>1. dir \in Seq({dir[k] : k \in 1 .. n}) /\ Len(dir) = n
  BY DirectoryEnds
<1>2. n \in Nat
  BY DEF Named
<1>3. ASSUME NEW k \in 1 .. n
      PROVE  /\ dir[k] = Central(at + r[k - 1], rs[k]) /\ dir[k].kind = "central"
             /\ dir[k].at = at + r[k - 1] /\ End(dir[k]) = at + r[k] /\ Placed(dir[k])
  <2>1. k - 1 \in 0 .. n /\ k - 1 \in 0 .. n - 1 /\ k - 1 + 1 = k
    BY <1>2
  <2>2. r[k - 1] = SumOf(SubSeq(CentralSizes(rs), 1, k - 1))
    BY <2>1 DEF Rise
  <2>3. dir[k] = Central(at + SumOf(SubSeq(CentralSizes(rs), 1, k - 1)), rs[k])
    BY DEF Directory
  <2>4. dir[k] = Central(at + r[k - 1], rs[k])
    BY <2>2, <2>3, Zenon
  <2>5. r[k - 1] \in Nat /\ CentralSize(rs[k]) \in Nat /\ CentralSize(rs[k]) >= 46
        /\ r[k] = r[k - 1] + CentralSize(rs[k])
    BY <2>1, RiseClimbs
  <2> HIDE DEF dir, r
  <2>6. /\ dir[k].kind = "central" /\ dir[k].at = at + r[k - 1]
        /\ dir[k].size = CentralSize(rs[k])
    BY <2>4 DEF Central
  <2> QED
    BY <2>4, <2>5, <2>6 DEF End, Placed
<1> QED
  BY <1>1, <1>3

\* They are in line.
LEMMA DirectoryInLine ==
    ASSUME NEW at \in Nat, NEW rs, Named(rs)
    PROVE  InLine(Directory(at, rs), at) /\ Ends(Directory(at, rs), DirectoryEnd(at, rs))
<1> DEFINE n   == Len(rs)
           r   == Rise(rs)
           dir == Directory(at, rs)
<1>1. /\ n \in Nat /\ DirectoryEnd(at, rs) = at + r[n] /\ Len(dir) = n
      /\ \A k \in 0 .. n : r[k] \in Nat
      /\ \A i, k \in 0 .. n : i <= k => r[i] <= r[k]
  BY RiseClimbs, DirectoryPieces
<1>2. \A k \in 1 .. n : dir[k].at = at + r[k - 1] /\ End(dir[k]) = at + r[k] /\ Placed(dir[k])
  BY DirectoryPieces
<1> HIDE DEF n, r, dir
<1>3. ASSUME NEW k \in 1 .. n PROVE Placed(dir[k]) /\ dir[k].at >= at /\ End(dir[k]) <= at + r[n]
  <2>1. k - 1 \in 0 .. n /\ k \in 0 .. n /\ n \in 0 .. n /\ k <= n
    BY <1>1
  <2>2. r[k - 1] \in Nat /\ r[k] \in Nat /\ r[n] \in Nat /\ r[k] <= r[n]
    BY <1>1, <2>1
  <2> QED
    BY <1>2, <2>2
<1>4. ASSUME NEW i \in 1 .. n, NEW k \in 1 .. n, i < k PROVE End(dir[i]) <= dir[k].at
  <2>1. k - 1 \in 0 .. n /\ i \in 0 .. n /\ i <= k - 1
    BY <1>1, <1>4
  <2>2. r[k - 1] \in Nat /\ r[i] \in Nat /\ r[i] <= r[k - 1]
    BY <1>1, <2>1
  <2> QED
    BY <1>2, <2>2
<1> QED
  BY <1>1, <1>3, <1>4 DEF InLine, Ends, dir

\* What follows the directory begins where it ends, with no local header.
LEMMA TrailerInLine ==
    ASSUME NEW at \in Nat, NEW count, NEW from
    PROVE  LET after == Trailer(at, count, from)
           IN  /\ InLine(after, at) /\ Len(after) \in Nat \ {0}
               /\ after[1].at = at /\ after[1].kind # "local"
<1> DEFINE after == Trailer(at, count, from)
           size == at - from
           plain(where) == [kind |-> "eocd", at |-> where, size |-> 22, disk |-> 0,
                            count |-> IF count > MaxCount THEN MaxCount ELSE count,
                            dsize |-> Field32(size), doff |-> Field32(from)]
           big == [kind |-> "eocd64", at |-> at, size |-> 56, disk |-> 0, count |-> count,
                   dsize |-> size, doff |-> from]
           loc == [kind |-> "locator", at |-> at + 56, size |-> 20, target |-> at]
<1>1. after = <<plain(at)>> \/ after = <<big, loc, plain(at + 76)>>
  BY DEF Trailer
<1>2. /\ plain(at).at = at /\ Placed(plain(at)) /\ plain(at).kind # "local"
      /\ plain(at + 76).at = at + 76 /\ Placed(plain(at + 76))
      /\ big.at = at /\ Placed(big) /\ End(big) = at + 56 /\ big.kind # "local"
      /\ loc.at = at + 56 /\ Placed(loc) /\ End(loc) = at + 76
  BY DEF End, Placed
<1> HIDE DEF plain, big, loc, after
<1>3. CASE after = <<plain(at)>>
  BY <1>2, <1>3 DEF after, InLine
<1>4. CASE after = <<big, loc, plain(at + 76)>>
  <2>1. Len(after) = 3 /\ after[1] = big /\ after[2] = loc /\ after[3] = plain(at + 76)
    BY <1>4
  <2>2. \A k \in 1 .. 3 : Placed(after[k]) /\ after[k].at >= at
    BY <1>2, <2>1
  <2>3. \A i, k \in 1 .. 3 : i < k => End(after[i]) <= after[k].at
    BY <1>2, <2>1
  <2> QED
    BY <1>2, <2>1, <2>2, <2>3 DEF after, InLine
<1> QED
  BY <1>1, <1>3, <1>4

\* So no local header lies where a directory begins.
LEMMA NoLocalHere ==
    ASSUME NEW d, Apart(d), NEW from \in Nat, NEW rs, Named(rs), NEW count,
           Lie(d, Directory(from, rs)), Lie(d, Trailer(DirectoryEnd(from, rs), count, from)),
           NEW size
    PROVE  LocalHeader(from, size) \notin d
<1> DEFINE dir   == Directory(from, rs)
           after == Trailer(DirectoryEnd(from, rs), count, from)
<1> SUFFICES ASSUME LocalHeader(from, size) \in d PROVE FALSE
  OBVIOUS
<1>1. LocalHeader(from, size).at = from /\ LocalHeader(from, size).kind = "local"
  BY DEF LocalHeader
<1>2. \E p \in d : p.at = from /\ p.kind # "local"
  <2>1. CASE Len(rs) = 0
    <3>1. DirectoryEnd(from, rs) = from
      <4>1. Rise(rs)[0] = 0 /\ DirectoryEnd(from, rs) = from + Rise(rs)[Len(rs)]
        BY RiseClimbs
      <4> QED
        BY <2>1, <4>1
    <3>2. after[1].at = from /\ after[1].kind # "local" /\ Len(after) \in Nat \ {0}
      BY <3>1, TrailerInLine
    <3> HIDE DEF after
    <3> QED
      BY <3>2 DEF Lie, after
  <2>2. CASE Len(rs) # 0
    <3>1. 1 \in 1 .. Len(rs) /\ Rise(rs)[0] = 0
      BY <2>2, RiseClimbs DEF Named
    <3>2. /\ Len(dir) = Len(rs)
          /\ \A k \in 1 .. Len(rs) : dir[k].kind = "central" /\ dir[k].at = from + Rise(rs)[k - 1]
      BY DirectoryPieces
    <3> HIDE DEF dir
    <3>3. dir[1].at = from /\ dir[1] \in d /\ dir[1].kind = "central"
      BY <3>1, <3>2 DEF Lie, dir
    <3> QED
      BY <3>2, <3>3
  <2> QED
    BY <2>1, <2>2
<1> QED
  BY <1>1, <1>2, Alone

-----------------------------------------------------------------------------
(* What a central record says comes back, but for the sentinel.            *)

\* The entry a reader has of the record r.
EntryOf(r) ==
    [name |-> r.name, method |-> r.method, crc |-> r.crc, usize |-> r.ulen,
     csize |-> r.csize, lho |-> r.hdr, mode |-> r.mode,
     mtime |-> DosToUnix(UnixToDos(r.mtime))]

\* No value of the record is the sentinel itself.
NoSentinel(r) == U32 \notin {r.ulen, r.csize, r.hdr}

\* What a value adds to the number of those that moved.
One(b) == IF b THEN 1 ELSE 0

\* How many of three fields up to one of them moved.
LEMMA Ranks ==
    ASSUME NEW needs \in SUBSET (1 .. 3)
    PROVE  /\ Cardinality({j \in needs : j <= 1}) = One(1 \in needs)
           /\ Cardinality({j \in needs : j <= 2}) = One(1 \in needs) + One(2 \in needs)
           /\ Cardinality({j \in needs : j <= 3})
                = One(1 \in needs) + One(2 \in needs) + One(3 \in needs)
           /\ Cardinality(needs) = One(1 \in needs) + One(2 \in needs) + One(3 \in needs)
<1> DEFINE upto(k) == {j \in needs : j <= k}
<1>1. \A j \in needs : /\ j = 1 \/ j = 2 \/ j = 3
                       /\ (j <= 1 <=> j = 1) /\ (j <= 2 <=> j = 1 \/ j = 2) /\ j <= 3
  BY SMT
<1>2. upto(1) = {} \cup (IF 1 \in needs THEN {1} ELSE {})
  <2>1. \A j : j \in upto(1) <=> j \in needs /\ j = 1
    BY <1>1, Zenon
  <2> HIDE DEF upto
  <2> QED
    BY <2>1
<1>3. upto(2) = upto(1) \cup (IF 2 \in needs THEN {2} ELSE {})
  <2>1. \A j : /\ j \in upto(1) <=> j \in needs /\ j = 1
               /\ j \in upto(2) <=> j \in needs /\ (j = 1 \/ j = 2)
    BY <1>1, Zenon
  <2> HIDE DEF upto
  <2> QED
    BY <2>1
<1>4. upto(3) = upto(2) \cup (IF 3 \in needs THEN {3} ELSE {})
  <2>1. \A j : /\ j \in upto(2) <=> j \in needs /\ (j = 1 \/ j = 2)
               /\ j \in upto(3) <=> j \in needs /\ (j = 1 \/ j = 2 \/ j = 3)
    BY <1>1, Zenon
  <2> HIDE DEF upto
  <2> QED
    BY <2>1
<1>5. upto(3) = needs
  BY <1>1, Zenon
<1>6. 2 \notin upto(1) /\ 3 \notin upto(2)
  OBVIOUS
<1> HIDE DEF upto
<1>7. IsFiniteSet(upto(1)) /\ Cardinality(upto(1)) = One(1 \in needs)
  <2>1. IsFiniteSet({}) /\ Cardinality({}) = 0
    BY FS_EmptySet
  <2>2. CASE 1 \in needs
    <3>1. upto(1) = {} \cup {1}
      BY <1>2, <2>2
    <3>2. IsFiniteSet({} \cup {1}) /\ Cardinality({} \cup {1}) = 0 + 1
      BY <2>1, FS_AddElement
    <3> QED
      BY <2>2, <3>1, <3>2 DEF One
  <2>3. CASE 1 \notin needs
    <3>1. upto(1) = {}
      BY <1>2, <2>3
    <3> QED
      BY <2>1, <2>3, <3>1 DEF One
  <2> QED
    BY <2>2, <2>3
<1>8. IsFiniteSet(upto(2)) /\ Cardinality(upto(2)) = One(1 \in needs) + One(2 \in needs)
  <2>1. CASE 2 \in needs
    <3>1. upto(2) = upto(1) \cup {2}
      BY <1>3, <2>1
    <3>2. IsFiniteSet(upto(1) \cup {2})
          /\ Cardinality(upto(1) \cup {2}) = Cardinality(upto(1)) + 1
      BY <1>6, <1>7, FS_AddElement
    <3> QED
      BY <1>7, <2>1, <3>1, <3>2 DEF One
  <2>2. CASE 2 \notin needs
    <3>1. upto(2) = upto(1)
      BY <1>3, <2>2
    <3> QED
      BY <1>7, <2>2, <3>1 DEF One
  <2> QED
    BY <2>1, <2>2
<1>9. Cardinality(upto(3)) = One(1 \in needs) + One(2 \in needs) + One(3 \in needs)
  <2>1. CASE 3 \in needs
    <3>1. upto(3) = upto(2) \cup {3}
      BY <1>4, <2>1
    <3>2. Cardinality(upto(2) \cup {3}) = Cardinality(upto(2)) + 1
      BY <1>6, <1>8, FS_AddElement
    <3>3. PICK n \in 0 .. 2 : n = One(1 \in needs) + One(2 \in needs)
      BY DEF One
    <3> QED
      BY <1>8, <2>1, <3>1, <3>2, <3>3 DEF One
  <2>2. CASE 3 \notin needs
    <3>1. upto(3) = upto(2)
      BY <1>4, <2>2
    <3> QED
      BY <1>8, <2>2, <3>1 DEF One
  <2> QED
    BY <2>1, <2>2
<1> QED
  BY <1>5, <1>7, <1>8, <1>9 DEF upto

\* Values one behind the other.
LEMMA ValuesTogether ==
    ASSUME NEW x, NEW y, NEW z
    PROVE  /\ <<x>> \o <<y>> = <<x, y>> /\ <<x, y>> \o <<z>> = <<x, y, z>>
           /\ <<x>> \o <<y>> \o <<z>> = <<x, y, z>>
<1> DEFINE S == {x, y, z}
           s == <<x>>
           t == <<y>>
           u == <<z>>
           st == <<x, y>>
           stu == <<x, y, z>>
<1>1. /\ s \in Seq(S) /\ Len(s) = 1 /\ s[1] = x /\ t \in Seq(S) /\ Len(t) = 1 /\ t[1] = y
      /\ u \in Seq(S) /\ Len(u) = 1 /\ u[1] = z
      /\ st \in Seq(S) /\ Len(st) = 2 /\ st[1] = x /\ st[2] = y
      /\ stu \in Seq(S) /\ Len(stu) = 3 /\ stu[1] = x /\ stu[2] = y /\ stu[3] = z
  OBVIOUS
<1> HIDE DEF s, t, u, st, stu, S
<1>2. s \o t = st
  <2>1. /\ s \o t \in Seq(S) /\ Len(s \o t) = Len(s) + Len(t)
        /\ \A k \in 1 .. Len(s) + Len(t) :
              (s \o t)[k] = IF k <= Len(s) THEN s[k] ELSE t[k - Len(s)]
    BY <1>1, ConcatProperties
  <2>2. \A k \in 1 .. 2 : (s \o t)[k] = st[k]
    BY <1>1, <2>1
  <2> QED
    BY <1>1, <2>1, <2>2, SeqEqual
<1>3. st \o u = stu
  <2>1. /\ st \o u \in Seq(S) /\ Len(st \o u) = Len(st) + Len(u)
        /\ \A k \in 1 .. Len(st) + Len(u) :
              (st \o u)[k] = IF k <= Len(st) THEN st[k] ELSE u[k - Len(st)]
    BY <1>1, ConcatProperties
  <2>2. \A k \in 1 .. 3 : (st \o u)[k] = stu[k]
    BY <1>1, <2>1
  <2> QED
    BY <1>1, <2>1, <2>2, SeqEqual
<1> QED
  BY <1>2, <1>3, Zenon DEF s, t, u, st, stu

\* Where in the extra field the values are that moved there.
LEMMA ExtraIs ==
    ASSUME NEW r
    PROVE  LET a == One(r.ulen > U32)
               b == One(r.csize > U32)
               c == One(r.hdr > U32)
           IN  /\ Len(Extra(r)) = a + b + c
               /\ r.ulen > U32 => Extra(r)[1] = r.ulen
               /\ r.csize > U32 => Extra(r)[a + 1] = r.csize
               /\ r.hdr > U32 => Extra(r)[a + b + 1] = r.hdr
<1>1. CASE r.ulen > U32
  <2>1. Overflown(r.ulen) = <<r.ulen>> /\ One(r.ulen > U32) = 1
    BY <1>1 DEF Overflown, One
  <2>2. CASE r.csize > U32
    <3>1. Overflown(r.csize) = <<r.csize>> /\ One(r.csize > U32) = 1
      BY <2>2 DEF Overflown, One
    <3>2. CASE r.hdr > U32
      <4>1. Overflown(r.hdr) = <<r.hdr>> /\ One(r.hdr > U32) = 1
        BY <3>2 DEF Overflown, One
      <4>2. Extra(r) = <<r.ulen, r.csize, r.hdr>>
        BY <2>1, <3>1, <4>1, ValuesTogether, Zenon DEF Extra
      <4> QED
        BY <2>1, <3>1, <4>1, <4>2
    <3>3. CASE ~(r.hdr > U32)
      <4>1. Overflown(r.hdr) = <<>> /\ One(r.hdr > U32) = 0
        BY <3>3 DEF Overflown, One
      <4>2. Extra(r) = <<r.ulen, r.csize>>
        <5>1. Extra(r) = <<r.ulen>> \o <<r.csize>> \o <<>>
          BY <2>1, <3>1, <4>1, Zenon DEF Extra
        <5>2. <<r.ulen, r.csize>> \o <<>> = <<r.ulen, r.csize>>
          OBVIOUS
        <5> QED
          BY <5>1, <5>2, ValuesTogether, Zenon
      <4> QED
        BY <2>1, <3>1, <3>3, <4>1, <4>2
    <3> QED
      BY <3>2, <3>3
  <2>3. CASE ~(r.csize > U32)
    <3>1. Overflown(r.csize) = <<>> /\ One(r.csize > U32) = 0
      BY <2>3 DEF Overflown, One
    <3>2. CASE r.hdr > U32
      <4>1. Overflown(r.hdr) = <<r.hdr>> /\ One(r.hdr > U32) = 1
        BY <3>2 DEF Overflown, One
      <4>2. Extra(r) = <<r.ulen, r.hdr>>
        <5>1. Extra(r) = <<r.ulen>> \o <<>> \o <<r.hdr>>
          BY <2>1, <3>1, <4>1, Zenon DEF Extra
        <5>2. <<r.ulen>> \o <<>> = <<r.ulen>>
          OBVIOUS
        <5> QED
          BY <5>1, <5>2, ValuesTogether, Zenon
      <4> QED
        BY <2>1, <2>3, <3>1, <4>1, <4>2
    <3>3. CASE ~(r.hdr > U32)
      <4>1. Overflown(r.hdr) = <<>> /\ One(r.hdr > U32) = 0
        BY <3>3 DEF Overflown, One
      <4>2. Extra(r) = <<r.ulen>>
        BY <2>1, <3>1, <4>1 DEF Extra
      <4> QED
        BY <2>1, <2>3, <3>1, <3>3, <4>1, <4>2
    <3> QED
      BY <3>2, <3>3
  <2> QED
    BY <2>2, <2>3
<1>2. CASE ~(r.ulen > U32)
  <2>1. Overflown(r.ulen) = <<>> /\ One(r.ulen > U32) = 0
    BY <1>2 DEF Overflown, One
  <2>2. CASE r.csize > U32
    <3>1. Overflown(r.csize) = <<r.csize>> /\ One(r.csize > U32) = 1
      BY <2>2 DEF Overflown, One
    <3>2. CASE r.hdr > U32
      <4>1. Overflown(r.hdr) = <<r.hdr>> /\ One(r.hdr > U32) = 1
        BY <3>2 DEF Overflown, One
      <4>2. Extra(r) = <<r.csize, r.hdr>>
        <5>1. Extra(r) = <<>> \o <<r.csize>> \o <<r.hdr>>
          BY <2>1, <3>1, <4>1, Zenon DEF Extra
        <5>2. <<>> \o <<r.csize>> = <<r.csize>>
          OBVIOUS
        <5> QED
          BY <5>1, <5>2, ValuesTogether, Zenon
      <4> QED
        BY <1>2, <2>1, <3>1, <4>1, <4>2
    <3>3. CASE ~(r.hdr > U32)
      <4>1. Overflown(r.hdr) = <<>> /\ One(r.hdr > U32) = 0
        BY <3>3 DEF Overflown, One
      <4>2. Extra(r) = <<r.csize>>
        BY <2>1, <3>1, <4>1 DEF Extra
      <4> QED
        BY <1>2, <2>1, <3>1, <3>3, <4>1, <4>2
    <3> QED
      BY <3>2, <3>3
  <2>3. CASE ~(r.csize > U32)
    <3>1. Overflown(r.csize) = <<>> /\ One(r.csize > U32) = 0
      BY <2>3 DEF Overflown, One
    <3>2. CASE r.hdr > U32
      <4>1. Overflown(r.hdr) = <<r.hdr>> /\ One(r.hdr > U32) = 1
        BY <3>2 DEF Overflown, One
      <4>2. Extra(r) = <<r.hdr>>
        BY <2>1, <3>1, <4>1 DEF Extra
      <4> QED
        BY <1>2, <2>1, <2>3, <3>1, <4>1, <4>2
    <3>3. CASE ~(r.hdr > U32)
      <4>1. Overflown(r.hdr) = <<>> /\ One(r.hdr > U32) = 0
        BY <3>3 DEF Overflown, One
      <4>2. Extra(r) = <<>>
        BY <2>1, <3>1, <4>1 DEF Extra
      <4> QED
        BY <1>2, <2>1, <2>3, <3>1, <3>3, <4>1, <4>2
    <3> QED
      BY <3>2, <3>3
  <2> QED
    BY <2>2, <2>3
<1> QED
  BY <1>1, <1>2

\* The reader takes a field for one that moved exactly if it did.
LEMMA ResolvedIs ==
    ASSUME NEW r \in Records, NoSentinel(r), NEW at
    PROVE  LET v == Resolved(Central(at, r))
           IN  v # <<>> /\ v[1] = r.ulen /\ v[2] = r.csize /\ v[3] = r.hdr
<1> DEFINE p == Central(at, r)
           needs == {k \in 1 .. 3 : p.fields[k] = U32}
           nth(k) == Cardinality({j \in needs : j <= k})
           x == Extra(r)
           f == p.fields
           w == [k \in 1 .. 3 |-> IF k \in needs THEN x[nth(k)] ELSE f[k]]
           a == One(r.ulen > U32)
           b == One(r.csize > U32)
           c == One(r.hdr > U32)
<1>1. /\ r.ulen \in Nat /\ r.csize \in Nat /\ r.hdr \in Nat /\ U32 \in Nat
      /\ U32 # r.ulen /\ U32 # r.csize /\ U32 # r.hdr
  BY FormatAssumption DEF Records, NoSentinel
<1>2. p.extra = x /\ f = <<Field32(r.ulen), Field32(r.csize), Field32(r.hdr)>>
  BY DEF Central
<1>3. /\ f[1] = (IF r.ulen > U32 THEN U32 ELSE r.ulen)
      /\ f[2] = (IF r.csize > U32 THEN U32 ELSE r.csize)
      /\ f[3] = (IF r.hdr > U32 THEN U32 ELSE r.hdr)
  <2> HIDE DEF f
  <2> QED
    BY <1>2 DEF Field32
<1>4. Resolved(p) = IF Cardinality(needs) > Len(x) THEN <<>> ELSE w
  <2> HIDE DEF x, f
  <2> QED
    BY <1>2, Zenon DEF Resolved, f
<1>5. needs = {k \in 1 .. 3 : f[k] = U32}
  OBVIOUS
<1> HIDE DEF f, p, needs
<1>6. /\ needs \in SUBSET (1 .. 3) /\ (1 \in needs <=> r.ulen > U32)
      /\ (2 \in needs <=> r.csize > U32) /\ (3 \in needs <=> r.hdr > U32)
  BY <1>1, <1>3, <1>5
<1>7. nth(1) = a /\ nth(2) = a + b /\ nth(3) = a + b + c /\ Cardinality(needs) = a + b + c
  <2>1. /\ (1 \in needs) = (r.ulen > U32) /\ (2 \in needs) = (r.csize > U32)
        /\ (3 \in needs) = (r.hdr > U32)
    BY <1>1, <1>6
  <2>2. /\ nth(1) = One(1 \in needs) /\ nth(2) = One(1 \in needs) + One(2 \in needs)
        /\ nth(3) = One(1 \in needs) + One(2 \in needs) + One(3 \in needs)
        /\ Cardinality(needs) = One(1 \in needs) + One(2 \in needs) + One(3 \in needs)
    BY <1>6, Ranks
  <2>3. a = One(1 \in needs) /\ b = One(2 \in needs) /\ c = One(3 \in needs)
    BY <1>6 DEF One
  <2> HIDE DEF a, b, c, nth
  <2> QED
    BY <2>2, <2>3
<1>8. /\ Len(x) = a + b + c /\ (r.ulen > U32 => x[1] = r.ulen)
      /\ (r.csize > U32 => x[a + 1] = r.csize) /\ (r.hdr > U32 => x[a + b + 1] = r.hdr)
  BY ExtraIs
<1>9. /\ w[1] = (IF 1 \in needs THEN x[nth(1)] ELSE f[1])
      /\ w[2] = (IF 2 \in needs THEN x[nth(2)] ELSE f[2])
      /\ w[3] = (IF 3 \in needs THEN x[nth(3)] ELSE f[3])
      /\ DOMAIN w = 1 .. 3
  OBVIOUS
<1>10. /\ (r.ulen > U32 => a = 1) /\ (r.csize > U32 => b = 1) /\ (r.hdr > U32 => c = 1)
       /\ a \in Nat /\ b \in Nat /\ c \in Nat
  BY DEF One
<1> HIDE DEF w, x, nth, a, b, c
<1>11. Resolved(p) = w
  BY <1>4, <1>7, <1>8, <1>10
<1>12. w # <<>>
  <2>1. DOMAIN <<>> = {} /\ 1 \in 1 .. 3
    OBVIOUS
  <2> QED
    BY <1>9, <2>1
<1>13. w[1] = r.ulen
  BY <1>1, <1>3, <1>6, <1>7, <1>8, <1>9, <1>10
<1>14. w[2] = r.csize
  BY <1>1, <1>3, <1>6, <1>7, <1>8, <1>9, <1>10
<1>15. w[3] = r.hdr
  BY <1>1, <1>3, <1>6, <1>7, <1>8, <1>9, <1>10
<1> QED
  BY <1>11, <1>12, <1>13, <1>14, <1>15 DEF p

\* And so the entry is that of the record.
LEMMA EntryIs ==
    ASSUME NEW r \in Records, NoSentinel(r), NEW at
    PROVE  Entry(Central(at, r), Resolved(Central(at, r))) = EntryOf(r)
<1> DEFINE p == Central(at, r)
           v == Resolved(p)
<1>1. v[1] = r.ulen /\ v[2] = r.csize /\ v[3] = r.hdr
  BY ResolvedIs
<1>2. /\ p.name = r.name /\ p.method = r.method /\ p.crc = r.crc
      /\ p.unix = (r.mode # "none") /\ p.mode = r.mode /\ p.stamp = UnixToDos(r.mtime)
  BY DEF Central
<1> HIDE DEF p, v
<1>3. (IF p.unix THEN p.mode ELSE "none") = r.mode
  BY <1>2
<1>4. Entry(p, v) = EntryOf(r)
  BY <1>1, <1>2, <1>3, Zenon DEF Entry, EntryOf
<1> QED
  BY <1>4 DEF p, v

-----------------------------------------------------------------------------
(* What opening a finished archive finds.                                  *)

\* The states of a walk over n records.
Walking(d, len, dir, n, W) ==
    /\ W = [k \in 0 .. n |-> W[k]]
    /\ W[0] = [err |-> "none", at |-> dir.doff, entries |-> <<>>]
    /\ \A k \in 1 .. n : W[k] = WalkOn(d, len, dir.doff + dir.dsize, W[k - 1])

\* The walk, given its states.
LEMMA WalkIs ==
    ASSUME NEW d, NEW len, NEW dir, NEW n \in Nat, dir.count = n, NEW W,
           Walking(d, len, dir, n, W), W[n].err = "none"
    PROVE  Walk(d, len, dir) = [err |-> "none", entries |-> W[n].entries]
<1> DEFINE first == [err |-> "none", at |-> dir.doff, entries |-> <<>>]
           on(s) == WalkOn(d, len, dir.doff + dir.dsize, s)
           E(g) == g = [k \in 0 .. dir.count |-> IF k = 0 THEN first ELSE on(g[k - 1])]
           w == CHOOSE g : E(g)
<1>0. W[0] = first /\ \A k \in 1 .. n : W[k] = on(W[k - 1])
  BY DEF Walking
<1>1. E(W)
  <2>1. W = [k \in 0 .. n |-> W[k]]
    BY DEF Walking
  <2> HIDE DEF first, on
  <2>2. \A k \in 0 .. n : W[k] = IF k = 0 THEN first ELSE on(W[k - 1])
    <3>1. \A k \in 0 .. n : k = 0 \/ k \in 1 .. n
      OBVIOUS
    <3> QED
      BY <1>0, <3>1
  <2> QED
    BY <2>1, <2>2
<1>2. E(w)
  BY <1>1, Zenon
<1>3. w[0] = first /\ \A k \in 1 .. n : w[k] = on(w[k - 1])
  <2>1. w = [k \in 0 .. n |-> IF k = 0 THEN first ELSE on(w[k - 1])]
    <3> HIDE DEF w, first, on
    <3> QED
      BY <1>2
  <2> HIDE DEF w, first, on, E
  <2>2. \A k \in 0 .. n : w[k] = IF k = 0 THEN first ELSE on(w[k - 1])
    BY <2>1
  <2>3. 0 \in 0 .. n /\ \A k \in 1 .. n : k \in 0 .. n /\ k # 0
    OBVIOUS
  <2> QED
    BY <2>2, <2>3
<1>4. \A k \in 0 .. n : w[k] = W[k]
  <2> DEFINE T == {k \in 0 .. n : w[k] = W[k]}
  <2>1. 0 \in T
    BY <1>0, <1>3
  <2>2. ASSUME NEW k \in 0 .. n - 1, k \in T PROVE k + 1 \in T
    <3>1. k + 1 \in 1 .. n /\ k + 1 - 1 = k /\ k + 1 \in 0 .. n
      OBVIOUS
    <3> HIDE DEF w, on
    <3>2. w[k + 1] = on(w[k]) /\ W[k + 1] = on(W[k])
      BY <1>0, <1>3, <3>1
    <3> QED
      BY <2>2, <3>1, <3>2
  <2>3. 0 .. n \subseteq T
    <3> HIDE DEF T
    <3> QED
      BY <2>1, <2>2, BoundedInductive
  <2> QED
    BY <2>3
<1>5. w[n] = W[n]
  BY <1>4
<1>6. Walk(d, len, dir) = IF w[dir.count].err # "none" THEN Failed(w[dir.count].err)
                          ELSE [err |-> "none", entries |-> w[dir.count].entries]
  BY DEF Walk
<1> HIDE DEF w, E
<1> QED
  BY <1>5, <1>6

\* What the walk has behind the k-th record.
Walked(from, rs, k) ==
    [err |-> "none", at |-> from + Rise(rs)[k], entries |-> [j \in 1 .. k |-> EntryOf(rs[j])]]

\* One turn, of a record that lies there.
LEMMA WalkTurn ==
    ASSUME NEW d, Apart(d), NEW from \in Nat, NEW rs, Named(rs), NEW len \in Nat,
           Lie(d, Directory(from, rs)), DirectoryEnd(from, rs) <= len,
           NEW stop, stop = DirectoryEnd(from, rs),
           NEW k \in 1 .. Len(rs), rs[k] \in Records, NoSentinel(rs[k]), rs[k].hdr + 30 <= len
    PROVE  WalkOn(d, len, stop, Walked(from, rs, k - 1)) = Walked(from, rs, k)
<1> DEFINE r == Rise(rs)
           n == Len(rs)
           p == Directory(from, rs)[k]
           s == Walked(from, rs, k - 1)
           here == The(d, "central", s.at)
           v == Resolved(p)
<1>1. n \in Nat
  BY DEF Named
<1>2. k - 1 \in 0 .. n /\ k - 1 \in 0 .. n - 1 /\ k - 1 + 1 = k /\ k \in 0 .. n /\ n \in 0 .. n
  BY <1>1
<1>3. /\ r[k - 1] \in Nat /\ r[k] \in Nat /\ r[n] \in Nat /\ r[k] <= r[n]
      /\ CentralSize(rs[k]) \in Nat /\ CentralSize(rs[k]) >= 46
      /\ r[k] = r[k - 1] + CentralSize(rs[k]) /\ DirectoryEnd(from, rs) = from + r[n]
  <2>1. /\ \A i \in 0 .. n : r[i] \in Nat
        /\ \A i \in 0 .. n - 1 : /\ CentralSize(rs[i + 1]) \in Nat
                                 /\ CentralSize(rs[i + 1]) >= 46
                                 /\ r[i + 1] = r[i] + CentralSize(rs[i + 1])
        /\ \A i, j \in 0 .. n : i <= j => r[i] <= r[j]
        /\ DirectoryEnd(from, rs) = from + r[n]
    BY RiseClimbs
  <2> HIDE DEF r
  <2>2. k <= n
    BY <1>1
  <2>3. /\ CentralSize(rs[k]) \in Nat /\ CentralSize(rs[k]) >= 46
        /\ r[k] = r[k - 1] + CentralSize(rs[k])
    BY <1>2, <2>1
  <2> QED
    BY <1>2, <2>1, <2>2, <2>3
<1>4. /\ p = Central(from + r[k - 1], rs[k]) /\ p.kind = "central" /\ p.at = from + r[k - 1]
      /\ End(p) = from + r[k]
  <2> DEFINE dir == Directory(from, rs)
  <2>1. \A i \in 1 .. n : dir[i].kind = "central"
    BY DirectoryPieces, ZenonT(60)
  <2>4. \A i \in 1 .. n : dir[i].at = from + r[i - 1]
    BY DirectoryPieces, ZenonT(60)
  <2>3. \A i \in 1 .. n : End(dir[i]) = from + r[i]
    BY DirectoryPieces, ZenonT(60)
  <2>2. \A i \in 1 .. n : dir[i] = Central(from + r[i - 1], rs[i])
    BY DirectoryPieces, ZenonT(60)
  <2> HIDE DEF r, dir
  <2> QED
    BY <2>1, <2>2, <2>3, <2>4 DEF dir
<1>5. Len(Directory(from, rs)) = n
  BY DirectoryPieces
<1>6. p \in d
  BY <1>5 DEF Lie
<1>7. s.err = "none" /\ s.at = from + r[k - 1] /\ s.entries = [j \in 1 .. k - 1 |-> EntryOf(rs[j])]
  BY Zenon DEF Walked
<1>8. ~p.encrypted
  <2>1. Central(from + r[k - 1], rs[k]).encrypted = FALSE
    BY DEF Central
  <2> HIDE DEF p
  <2> QED
    BY <1>4, <2>1
<1>9. v # <<>> /\ v[1] = rs[k].ulen /\ v[2] = rs[k].csize /\ v[3] = rs[k].hdr
      /\ Entry(p, v) = EntryOf(rs[k])
  <2> DEFINE c == Central(from + r[k - 1], rs[k])
  <2>1. /\ Resolved(c) # <<>> /\ Resolved(c)[1] = rs[k].ulen /\ Resolved(c)[2] = rs[k].csize
        /\ Resolved(c)[3] = rs[k].hdr /\ Entry(c, Resolved(c)) = EntryOf(rs[k])
    BY ResolvedIs, EntryIs
  <2>2. p = c
    BY <1>4
  <2> HIDE DEF p, c
  <2> QED
    BY <2>1, <2>2
<1> HIDE DEF p, s
<1>10. here = {p}
  <2>1. p \in here
    BY <1>4, <1>6, <1>7 DEF The
  <2>2. ASSUME NEW q \in here PROVE q = p
    <3>1. q \in d /\ q.at = p.at
      BY <1>4, <1>7 DEF The
    <3> QED
      BY <1>6, <3>1, Alone
  <2> QED
    BY <2>1, <2>2
<1>11. (CHOOSE q \in here : TRUE) = p /\ here # {}
  BY <1>10
<1> HIDE DEF here, v, r
<1>12. ~(s.at + 46 > stop) /\ ~(End(p) > stop)
  <2>1. PICK i, j, l : i = r[k - 1] /\ j = r[k] /\ l = r[n]
    OBVIOUS
  <2>2. i \in Nat /\ j \in Nat /\ l \in Nat /\ j <= l /\ i + 46 <= j
    BY <1>3, <2>1
  <2>3. s.at = from + i /\ End(p) = from + j /\ stop = from + l
    BY <1>3, <1>4, <1>7, <2>1
  <2> QED
    BY <2>2, <2>3
<1>13. InBounds(v[3], 30, len) /\ ~(v[1] < 0) /\ ~(v[2] < 0)
  <2>1. rs[k].hdr \in Nat /\ rs[k].ulen \in Nat /\ rs[k].csize \in Nat
    BY DEF Records
  <2> QED
    BY <1>9, <2>1 DEF InBounds
<1>14. WalkOn(d, len, stop, s) =
          [err |-> "none", at |-> End(p), entries |-> Append(s.entries, Entry(p, v))]
  BY <1>7, <1>8, <1>9, <1>11, <1>12, <1>13 DEF WalkOn, here, v
<1>15. Append(s.entries, Entry(p, v)) = [j \in 1 .. k |-> EntryOf(rs[j])]
  <2> DEFINE es == [j \in 1 .. k - 1 |-> EntryOf(rs[j])]
             fs == [j \in 1 .. k |-> EntryOf(rs[j])]
             S  == {EntryOf(rs[j]) : j \in 1 .. k}
  <2>1. es \in [1 .. k - 1 -> S] /\ fs \in [1 .. k -> S] /\ EntryOf(rs[k]) \in S
        /\ \A j \in 1 .. k - 1 : es[j] = fs[j]
    BY <1>2
  <2>2. fs[k] = EntryOf(rs[k])
    OBVIOUS
  <2> HIDE DEF es, fs, S
  <2>3. es \in Seq(S) /\ Len(es) = k - 1 /\ fs \in Seq(S) /\ Len(fs) = k
    <3>1. k - 1 \in Nat /\ k \in Nat
      BY <1>2
    <3> QED
      BY <2>1, <3>1, SeqOfFunction
  <2>4. Append(es, EntryOf(rs[k])) = fs
    <3> DEFINE as == Append(es, EntryOf(rs[k]))
    <3>1. as \in Seq(S) /\ Len(as) = Len(es) + 1 /\ as[Len(es) + 1] = EntryOf(rs[k])
          /\ \A j \in 1 .. Len(es) : as[j] = es[j]
      BY <2>1, <2>3, AppendProperties
    <3> HIDE DEF as
    <3>2. Len(as) = Len(fs)
      BY <1>2, <2>3, <3>1
    <3>3. \A j \in 1 .. Len(as) : as[j] = fs[j]
      <4>1. \A j \in 1 .. Len(as) : j \in 1 .. k - 1 \/ j = k
        BY <1>2, <2>3, <3>1
      <4> QED
        BY <1>2, <2>1, <2>2, <2>3, <3>1, <4>1
    <3> QED
      BY <2>3, <3>1, <3>2, <3>3, SeqEqual DEF as
  <2> QED
    BY <1>7, <1>9, <2>4 DEF es, fs
<1>16. Walked(from, rs, k) = [err |-> "none", at |-> End(p), entries |-> [j \in 1 .. k |-> EntryOf(rs[j])]]
  BY <1>4 DEF Walked, r
<1> QED
  BY <1>14, <1>15, <1>16 DEF s

\* A directory that lies there and a trailer's record that says where.
LEMMA DirectoryFound ==
    ASSUME NEW d, Apart(d), NEW from \in Nat, NEW rs, Named(rs), NEW len \in Nat,
           Lie(d, Directory(from, rs)), DirectoryEnd(from, rs) <= len,
           \A k \in 1 .. Len(rs) : /\ rs[k] \in Records /\ NoSentinel(rs[k])
                                   /\ rs[k].hdr + 30 <= len,
           NEW dir, dir.disk = 0, dir.count = Len(rs), dir.doff = from,
           dir.dsize = DirectoryEnd(from, rs) - from
    PROVE  OpenAt(d, len, dir)
             = [err |-> "none", entries |-> [j \in 1 .. Len(rs) |-> EntryOf(rs[j])]]
<1> DEFINE n == Len(rs)
           r == Rise(rs)
           stop == DirectoryEnd(from, rs)
           W == [k \in 0 .. n |-> Walked(from, rs, k)]
<1>1. n \in Nat /\ n \in 0 .. n
  BY DEF Named
<1>2. r[0] = 0 /\ r[n] \in Nat /\ r[n] >= 46 * n /\ stop = from + r[n]
  <2>1. /\ r[0] = 0 /\ stop = from + r[n]
        /\ \A k \in 0 .. n : r[k] \in Nat /\ r[k] >= 46 * k
    BY RiseClimbs
  <2> HIDE DEF r, stop, n
  <2> QED
    BY <1>1, <2>1
<1>3. dir.doff + dir.dsize = stop
  <2>1. dir.dsize = stop - from /\ dir.doff = from
    OBVIOUS
  <2> HIDE DEF r, stop
  <2>2. stop \in Nat
    BY <1>2
  <2> QED
    BY <2>1, <2>2
<1>4. \A k \in 1 .. n : WalkOn(d, len, stop, Walked(from, rs, k - 1)) = Walked(from, rs, k)
  BY WalkTurn
<1>5. Walking(d, len, dir, n, W)
  <2>1. W = [k \in 0 .. n |-> W[k]]
    OBVIOUS
  <2>2. W[0] = [err |-> "none", at |-> dir.doff, entries |-> <<>>]
    <3>1. W[0] = Walked(from, rs, 0)
      BY <1>1
    <3>2. [j \in 1 .. 0 |-> EntryOf(rs[j])] = <<>>
      OBVIOUS
    <3>3. from + r[0] = from
      BY <1>2
    <3> QED
      BY <3>1, <3>2, <3>3 DEF Walked
  <2>3. ASSUME NEW k \in 1 .. n
        PROVE  W[k] = WalkOn(d, len, dir.doff + dir.dsize, W[k - 1])
    <3>1. k \in 0 .. n /\ k - 1 \in 0 .. n
      BY <1>1
    <3>2. W[k] = Walked(from, rs, k) /\ W[k - 1] = Walked(from, rs, k - 1)
      BY <3>1
    <3> HIDE DEF W, stop
    <3> QED
      BY <1>3, <1>4, <3>2
  <2> HIDE DEF W
  <2> QED
    BY <2>1, <2>2, <2>3 DEF Walking
<1>6. W[n] = Walked(from, rs, n)
  BY <1>1
<1>7. W[n].err = "none" /\ W[n].entries = [j \in 1 .. n |-> EntryOf(rs[j])]
  <2>1. /\ Walked(from, rs, n).err = "none"
        /\ Walked(from, rs, n).entries = [j \in 1 .. n |-> EntryOf(rs[j])]
    BY Zenon DEF Walked
  <2> HIDE DEF W
  <2> QED
    BY <1>6, <2>1, Zenon
<1> HIDE DEF W
<1>8. Walk(d, len, dir) = [err |-> "none", entries |-> [j \in 1 .. n |-> EntryOf(rs[j])]]
  <2>1. Walk(d, len, dir) = [err |-> "none", entries |-> W[n].entries]
    <3>1. dir.count = n
      OBVIOUS
    <3> HIDE DEF n
    <3> QED
      BY <1>1, <1>5, <1>7, <3>1, WalkIs
  <2> QED
    BY <1>7, <2>1, Zenon
<1> HIDE DEF r, stop, n
<1>9. dir.dsize = r[n] /\ dir.dsize \in Nat
  BY <1>2 DEF stop
<1>10. ~(dir.doff < 0) /\ ~(dir.dsize < 0) /\ InBounds(dir.doff, dir.dsize, len)
  BY <1>2, <1>9 DEF InBounds, stop
<1>11. ~(dir.count < 0) /\ ~(dir.count > dir.dsize \div 46)
  <2>1. PICK q \in Nat, c \in Nat : q = r[n] /\ c = n
    BY <1>1, <1>2
  <2>2. q >= 46 * c
    BY <1>2, <2>1
  <2>3. c <= q \div 46
    BY <2>2
  <2> QED
    BY <1>9, <2>1, <2>3 DEF n
<1> QED
  BY <1>8, <1>10, <1>11 DEF OpenAt, n

\* The trailer at the end is the one that a finish wrote, and it leads to the
\* directory: no locator is in front of it unless there is one of this archive.
LEMMA OpenFinds ==
    ASSUME NEW d, Apart(d), NEW from \in Nat, NEW rs, Named(rs),
           NEW len, len = End(Trailer(DirectoryEnd(from, rs), Len(rs), from)
                                [Len(Trailer(DirectoryEnd(from, rs), Len(rs), from))]),
           Lie(d, Directory(from, rs)), Lie(d, Trailer(DirectoryEnd(from, rs), Len(rs), from)),
           \A k \in 1 .. Len(rs) : /\ rs[k] \in Records /\ NoSentinel(rs[k])
                                   /\ rs[k].hdr + 30 <= from,
           rs = <<>> => from = 0
    PROVE  Open(d, len)
             = [err |-> "none", entries |-> [j \in 1 .. Len(rs) |-> EntryOf(rs[j])]]
<1> DEFINE at    == DirectoryEnd(from, rs)
           count == Len(rs)
           after == Trailer(at, count, from)
           size  == at - from
           plain(where) == [kind |-> "eocd", at |-> where, size |-> 22, disk |-> 0,
                            count |-> IF count > MaxCount THEN MaxCount ELSE count,
                            dsize |-> Field32(size), doff |-> Field32(from)]
           big == [kind |-> "eocd64", at |-> at, size |-> 56, disk |-> 0, count |-> count,
                   dsize |-> size, doff |-> from]
           loc == [kind |-> "locator", at |-> at + 56, size |-> 20, target |-> at]
           need64 == count > MaxCount \/ size > U32 \/ from > U32
           found == [err |-> "none", entries |-> [j \in 1 .. Len(rs) |-> EntryOf(rs[j])]]
<1>1. at \in Nat /\ from <= at /\ count \in Nat
  <2>1. /\ Len(rs) \in Nat /\ at = from + Rise(rs)[Len(rs)]
        /\ \A k \in 0 .. Len(rs) : Rise(rs)[k] \in Nat
    BY RiseClimbs
  <2>2. Len(rs) \in 0 .. Len(rs)
    BY <2>1
  <2>3. Rise(rs)[Len(rs)] \in Nat
    BY <2>1, <2>2
  <2> HIDE DEF at
  <2> QED
    BY <2>1, <2>3
<1>2. len \in Nat /\ at <= len
  BY <1>1, TrailerEnds
<1>3. \A k \in 1 .. Len(rs) : rs[k].hdr + 30 <= len
  <2> SUFFICES ASSUME NEW k \in 1 .. Len(rs) PROVE rs[k].hdr + 30 <= len
    OBVIOUS
  <2>1. rs[k].hdr \in Nat /\ rs[k].hdr + 30 <= from
    BY DEF Records
  <2> HIDE DEF at
  <2> QED
    BY <1>1, <1>2, <2>1
<1>4. \A dir : /\ dir.disk = 0 /\ dir.count = Len(rs)
               /\ dir.doff = from /\ dir.dsize = size
               => OpenAt(d, len, dir) = found
  BY <1>2, <1>3, DirectoryFound, SMTT(60)
<1>5. after = IF ~need64 THEN <<plain(at)>> ELSE <<big, loc, plain(at + 76)>>
  BY DEF Trailer
<1>6. len = End(after[Len(after)]) /\ Lie(d, after)
  OBVIOUS
<1> DEFINE ends == {p \in d : p.kind = "eocd" /\ End(p) = len}
           eocd == CHOOSE p \in ends : TRUE
           locs == The(d, "locator", eocd.at - 20)
           l    == CHOOSE p \in locs : TRUE
           z64  == The(d, "eocd64", l.target)
           z    == CHOOSE p \in z64 : TRUE
<1>7. Open(d, len) = IF ends = {} THEN Failed("CORRUPT_DATA")
                     ELSE IF eocd.disk # 0 THEN Failed("UNSUPPORTED_FORMAT")
                     ELSE IF locs = {} THEN OpenAt(d, len, eocd)
                     ELSE IF z64 = {} THEN Failed("CORRUPT_DATA")
                     ELSE OpenAt(d, len, z)
  BY DEF Open
<1>8. ASSUME NEW e \in d, e.kind = "eocd", End(e) = len PROVE eocd = e /\ ends # {}
  <2>1. ends = {e}
    <3> SUFFICES ASSUME NEW q \in ends PROVE q = e
      BY <1>8
    <3> QED
      BY <1>8, Alone
  <2> QED
    BY <2>1
<1> HIDE DEF found, eocd, ends, at, after
<1>9. CASE ~need64
  <2>1. after = <<plain(at)>>
    BY <1>5, <1>9
  <2> DEFINE e == plain(at)
  <2>2. e.kind = "eocd" /\ e.disk = 0 /\ e.at = at /\ End(e) = at + 22
        /\ e.count = count /\ e.dsize = size /\ e.doff = from
    BY <1>9 DEF End, Field32
  <2> HIDE DEF e, plain
  <2>3. Len(after) = 1 /\ after[1] = e
    BY <2>1 DEF e
  <2>4. e \in d /\ End(e) = len
    BY <1>6, <2>3 DEF Lie
  <2>5. eocd = e /\ ends # {}
    BY <1>8, <2>2, <2>4
  <2>6. locs = {}
    <3> SUFFICES ASSUME NEW p \in locs PROVE FALSE
      OBVIOUS
    <3>1. p \in d /\ p.kind = "locator" /\ p.at = at - 20
      BY <2>2, <2>5 DEF The
    <3>2. p.at \in Nat /\ p.size \in Nat \ {0} /\ End(p) = p.at + p.size
      BY <3>1 DEF Apart, Placed, End
    <3>3. CASE Len(rs) = 0
      <4>1. at = from
        <5>1. Rise(rs)[0] = 0 /\ DirectoryEnd(from, rs) = from + Rise(rs)[Len(rs)]
          BY RiseClimbs
        <5> QED
          BY <3>3, <5>1 DEF at
      <4> QED
        BY <3>1, <3>2, <3>3, <4>1
    <3>4. CASE Len(rs) # 0
      <4> DEFINE n   == Len(rs)
                 r   == Rise(rs)
                 dir == Directory(from, rs)
                 c   == dir[n]
      <4>1. n \in 1 .. n /\ n - 1 \in 0 .. n - 1 /\ n - 1 + 1 = n /\ n - 1 \in 0 .. n
        BY <1>1, <3>4
      <4>2. Len(dir) = n /\ c.kind = "central" /\ c.at = from + r[n - 1] /\ End(c) = from + r[n]
        <5>1. Len(dir) = n /\ \A k \in 1 .. n : dir[k].kind = "central" /\ dir[k].at = from + r[k - 1]
          BY DirectoryPieces
        <5>2. \A k \in 1 .. n : End(dir[k]) = from + r[k]
          BY DirectoryPieces
        <5> HIDE DEF dir, r, n
        <5> QED
          BY <4>1, <5>1, <5>2
      <4>3. r[n - 1] \in Nat /\ r[n] >= r[n - 1] + 46 /\ r[n] \in Nat /\ at = from + r[n]
        <5>1. /\ \A k \in 0 .. n : r[k] \in Nat
              /\ \A k \in 0 .. n - 1 : /\ CentralSize(rs[k + 1]) \in Nat
                                       /\ CentralSize(rs[k + 1]) >= 46
                                       /\ r[k + 1] = r[k] + CentralSize(rs[k + 1])
              /\ at = from + r[n]
          BY RiseClimbs DEF at
        <5>2. n \in 0 .. n
          BY <1>1
        <5> HIDE DEF r, n
        <5>3. PICK s \in Nat : s >= 46 /\ r[n] = r[n - 1] + s
          BY <4>1, <5>1
        <5>4. r[n - 1] \in Nat /\ r[n] \in Nat /\ at = from + r[n]
          BY <4>1, <5>1, <5>2
        <5> QED
          BY <5>3, <5>4
      <4>4. c \in d
        BY <4>1, <4>2 DEF Lie
      <4> HIDE DEF dir, r, n, c
      <4>5. p = c \/ End(p) <= c.at \/ End(c) <= p.at
        BY <3>1, <4>4 DEF Apart
      <4>6. p # c
        BY <3>1, <4>2
      <4>7. PICK x \in Nat, y \in Nat : x = r[n - 1] /\ y = r[n]
        BY <4>3
      <4>8. c.at = from + x /\ End(c) = from + y /\ y >= x + 46 /\ p.at = from + y - 20
        BY <3>1, <4>2, <4>3, <4>7
      <4> QED
        BY <3>2, <4>5, <4>6, <4>8
    <3> QED
      BY <3>3, <3>4
  <2>7. Open(d, len) = OpenAt(d, len, e)
    <3> HIDE DEF locs, z64, z
    <3> QED
      BY <1>7, <2>2, <2>5, <2>6
  <2> QED
    BY <1>4, <2>2, <2>7 DEF found
<1>10. CASE need64
  <2>1. after = <<big, loc, plain(at + 76)>>
    BY <1>5, <1>10
  <2> DEFINE e == plain(at + 76)
  <2>2. /\ e.kind = "eocd" /\ e.disk = 0 /\ e.at = at + 76
        /\ big.kind = "eocd64" /\ big.at = at /\ big.disk = 0 /\ big.count = count
        /\ big.doff = from /\ big.dsize = size
        /\ loc.kind = "locator" /\ loc.at = at + 56 /\ loc.target = at
    OBVIOUS
  <2> HIDE DEF e, plain, big, loc
  <2>3. Len(after) = 3 /\ after[1] = big /\ after[2] = loc /\ after[3] = e
    BY <2>1 DEF e
  <2>4. e \in d /\ End(e) = len /\ big \in d /\ loc \in d
    BY <1>6, <2>3 DEF Lie
  <2>5. eocd = e /\ ends # {}
    BY <1>8, <2>2, <2>4
  <2>6. locs = {loc}
    <3>1. eocd.at - 20 = at + 56
      BY <1>1, <2>2, <2>5
    <3>2. locs = {p \in d : p.kind = "locator" /\ p.at = at + 56}
      BY <3>1 DEF The
    <3>3. loc \in locs
      BY <2>2, <2>4, <3>2
    <3>4. ASSUME NEW q \in locs PROVE q = loc
      BY <2>2, <2>4, <3>2, Alone
    <3> HIDE DEF locs
    <3> QED
      BY <3>3, <3>4
  <2>7. l = loc /\ locs # {}
    BY <2>6
  <2>8. z64 = {big}
    <3>1. z64 = {p \in d : p.kind = "eocd64" /\ p.at = at}
      BY <2>2, <2>7 DEF The
    <3>2. big \in z64
      BY <2>2, <2>4, <3>1
    <3>3. ASSUME NEW q \in z64 PROVE q = big
      <4>1. q \in d /\ q.at = big.at
        BY <2>2, <3>1
      <4> QED
        BY <2>4, <4>1, Alone
    <3> HIDE DEF z64
    <3> QED
      BY <3>2, <3>3
  <2>9. z = big /\ z64 # {}
    BY <2>8
  <2>10. Open(d, len) = OpenAt(d, len, big)
    <3> HIDE DEF locs, z64, z
    <3> QED
      BY <1>7, <2>2, <2>5, <2>7, <2>9
  <2> QED
    BY <1>4, <2>2, <2>10 DEF found
<1> QED
  BY <1>9, <1>10

-----------------------------------------------------------------------------
(* A member as it lies in the buffer, and what is extracted of it.         *)

\* The pieces of the content of r.
Payload(r, at) ==
    IF r.method = "STORE" THEN Plain(at, r.crc)
    ELSE <<Packed(at, r.csize, r.method, r.crc)>>

\* What a record says of the member itself.
Sound(r) ==
    /\ r \in Records /\ PathSafe(r.name) /\ r.ulen = Length(r.crc)
    /\ r.method = "STORE" => r.csize = r.ulen

\* The member of a record lies in d, and ends by upto.
Stored(d, r, upto) ==
    \E p \in d : /\ p = LocalHeader(r.hdr, p.size) /\ p.size >= 30
                 /\ End(p) + r.csize <= upto /\ Lie(d, Payload(r, End(p)))

\* The payload is as long as the record says.
LEMMA PayloadEnds ==
    ASSUME NEW r, Sound(r), NEW at \in Nat
    PROVE  Ends(Payload(r, at), at + r.csize)
<1>1. r.crc \in Contents /\ r.csize \in Nat
  BY DEF Sound, Records
<1>2. CASE r.method = "STORE"
  <2>1. Payload(r, at) = Plain(at, r.crc) /\ r.csize = Length(r.crc)
    BY <1>2 DEF Payload, Sound
  <2>2. Ends(Plain(at, r.crc), at + Length(r.crc))
    BY <1>1, PlainInLine
  <2> QED
    BY <2>1, <2>2
<1>3. CASE r.method # "STORE"
  <2> DEFINE p == Packed(at, r.csize, r.method, r.crc)
  <2>1. Payload(r, at) = <<p>>
    BY <1>3 DEF Payload
  <2>2. End(p) = at + r.csize
    BY DEF End, Packed
  <2> HIDE DEF p
  <2>3. at + r.csize \in Int
    BY <1>1
  <2>4. Ends(<<p>>, at + r.csize)
    BY <2>2, <2>3, OneEnds
  <2> QED
    BY <2>1, <2>4
<1> QED
  BY <1>2, <1>3

\* The header of the member, and where its payload is.
LEMMA StoredKnown ==
    ASSUME NEW d, Apart(d), NEW r, Sound(r), NEW upto, Stored(d, r, upto)
    PROVE  \E p \in d : /\ p.kind = "local" /\ p.at = r.hdr /\ p.size \in Nat /\ p.size >= 30
                        /\ End(p) \in Nat /\ End(p) = r.hdr + p.size
                        /\ End(p) + r.csize <= upto /\ Lie(d, Payload(r, End(p)))
                        /\ r.hdr \in Nat /\ r.csize \in Nat /\ p = LocalHeader(r.hdr, p.size)
<1>1. PICK p \in d : /\ p = LocalHeader(r.hdr, p.size) /\ p.size >= 30
                     /\ End(p) + r.csize <= upto /\ Lie(d, Payload(r, End(p)))
  BY DEF Stored
<1>2. LocalHeader(r.hdr, p.size).kind = "local" /\ LocalHeader(r.hdr, p.size).at = r.hdr
  BY DEF LocalHeader
<1>3. p.kind = "local" /\ p.at = r.hdr
  BY <1>1, <1>2
<1>4. p.size \in Nat /\ p.at \in Nat
  BY DEF Apart, Placed
<1>5. End(p) = r.hdr + p.size /\ End(p) \in Nat /\ r.hdr \in Nat /\ r.csize \in Nat
  BY <1>3, <1>4 DEF End, Sound, Records
<1> QED
  BY <1>1, <1>3, <1>4, <1>5

\* It stays there while nothing is written in front of lo, where it ended.
LEMMA StoredStays ==
    ASSUME NEW d, Apart(d), NEW e, NEW lo \in Int, Stays(d, e, lo),
           NEW r, Sound(r), Stored(d, r, lo), NEW upto, Stored(d, r, upto)
    PROVE  Stored(e, r, upto)
<1>1. PICK p \in d : /\ p.at = r.hdr /\ End(p) \in Nat /\ End(p) + r.csize <= lo
                     /\ r.csize \in Nat
  BY StoredKnown
<1>2. PICK q \in d : /\ q = LocalHeader(r.hdr, q.size) /\ q.size >= 30 /\ q.at = r.hdr
                     /\ End(q) + r.csize <= upto /\ Lie(d, Payload(r, End(q)))
  BY StoredKnown
<1>3. p = q
  BY <1>1, <1>2, Alone
<1>4. q \in e
  BY <1>1, <1>3 DEF Stays
<1>5. Lie(e, Payload(r, End(q)))
  <2> DEFINE ps == Payload(r, End(q))
  <2>1. Ends(ps, End(q) + r.csize)
    BY <1>1, <1>3, PayloadEnds
  <2>2. Lie(d, ps)
    BY <1>2
  <2> HIDE DEF ps
  <2> SUFFICES ASSUME NEW k \in 1 .. Len(ps) PROVE ps[k] \in e
    BY DEF Lie, ps
  <2>3. ps[k] \in d /\ End(ps[k]) <= End(q) + r.csize
    BY <2>1, <2>2 DEF Lie, Ends
  <2>4. End(ps[k]) \in Int
    BY <2>3 DEF Apart, Placed, End
  <2>5. End(ps[k]) <= lo
    BY <1>1, <1>3, <2>3, <2>4
  <2> QED
    BY <2>3, <2>5 DEF Stays
<1> QED
  BY <1>2, <1>4, <1>5 DEF Stored

\* A safe name is only refused for a link.
LEMMA OnlyLinksRefuse ==
    ASSUME NEW entries, NEW i, PathSafe(entries[i].name), Escapes(entries, i)
    PROVE  \E k \in DOMAIN entries : entries[k].mode = "link"
<1>1. Ledger(entries, i) # {}
  BY DEF Escapes, Through
<1> QED
  BY <1>1 DEF Ledger

\* Either the content of r is extracted as the i-th member, or it lies behind a
\* link, or its codec does not put out as much.
Gives(d, len, entries, i, r) ==
    LET x == Extract(d, len, entries, i, Length(r.crc), 0, LeanMethods \cup OtherCodecs)
    IN  \/ x.err = "none" /\ x.content = r.crc
        \/ x.err = "UNSAFE_PATH" /\ \E k \in DOMAIN entries : entries[k].mode = "link"
        \/ x.err = "OUTPUT_LIMIT" /\ Length(r.crc) > MaxOutput /\ r.method \notin Unlimited

\* What was stored is extracted, unless a link or the limit is in the way.
LEMMA ExtractGives ==
    ASSUME NEW d, Apart(d), NEW len \in Nat, NEW r, Sound(r), Stored(d, r, len),
           NEW entries, NEW i, entries[i] = EntryOf(r)
    PROVE  Gives(d, len, entries, i, r)
<1> DEFINE e     == entries[i]
           room  == Length(r.crc)
           local == The(d, "local", e.lho)
           data  == e.lho + (CHOOSE p \in local : TRUE).size
           pre   == Prepare(d, len, entries, i, room, 0)
           packed == {p \in The(d, "packed", pre.data) : p.method = e.method /\ p.size = e.csize}
           got   == IF e.method = "STORE" THEN PlainAt(d, pre.data, e.usize)
                    ELSE (CHOOSE p \in packed : TRUE).content
           methods == LeanMethods \cup OtherCodecs
           over  == Overrun(e, Length(got), room, 0)
           x     == Extract(d, len, entries, i, room, 0, methods)
<1> SUFFICES \/ x.err = "none" /\ x.content = r.crc
             \/ x.err = "UNSAFE_PATH" /\ \E k \in DOMAIN entries : entries[k].mode = "link"
             \/ x.err = "OUTPUT_LIMIT" /\ room > MaxOutput /\ r.method \notin Unlimited
  BY DEF Gives
<1>1. /\ r \in Records /\ PathSafe(r.name) /\ r.ulen = Length(r.crc)
      /\ (r.method = "STORE" => r.csize = r.ulen) /\ r.crc \in Contents
      /\ r.method \in methods /\ r.ulen \in Nat /\ r.csize \in Nat /\ r.hdr \in Nat
  BY DEF Sound, Records, Methods, LeanMethods
<1>2. /\ e.name = r.name /\ e.method = r.method /\ e.crc = r.crc /\ e.usize = r.ulen
      /\ e.csize = r.csize /\ e.lho = r.hdr
  BY DEF EntryOf
<1>3. PICK p \in d : /\ p.kind = "local" /\ p.at = r.hdr /\ p.size \in Nat /\ p.size >= 30
                     /\ End(p) \in Nat /\ End(p) = r.hdr + p.size
                     /\ End(p) + r.csize <= len /\ Lie(d, Payload(r, End(p)))
  BY StoredKnown
<1> HIDE DEF e
<1>4. local = {p}
  <2>1. local = {q \in d : q.kind = "local" /\ q.at = r.hdr}
    BY <1>2 DEF The
  <2>2. p \in local
    BY <1>3, <2>1
  <2>3. ASSUME NEW q \in local PROVE q = p
    <3>1. q \in d /\ q.at = p.at
      BY <1>3, <2>1
    <3> QED
      BY <3>1, Alone
  <2> HIDE DEF local
  <2> QED
    BY <2>2, <2>3
<1>5. local # {} /\ data = End(p)
  <2>1. (CHOOSE q \in local : TRUE) = p
    BY <1>4
  <2> QED
    BY <1>2, <1>3, <1>4, <2>1
<1>6. CASE Escapes(entries, i)
  <2>1. pre.err = "UNSAFE_PATH"
    BY <1>6 DEF Prepare
  <2> HIDE DEF pre
  <2>2. x.err = "UNSAFE_PATH"
    BY <2>1 DEF Extract, pre
  <2>3. \E k \in DOMAIN entries : entries[k].mode = "link"
    <3>1. PathSafe(entries[i].name)
      BY <1>1, <1>2 DEF e
    <3> QED
      BY <1>6, <3>1, OnlyLinksRefuse
  <2> QED
    BY <2>2, <2>3
<1>7. CASE ~Escapes(entries, i)
  <2>1. InBounds(e.lho, 30, len) /\ InBounds(data, e.csize, len) /\ ~(e.usize > room)
    <3> HIDE DEF data
    <3> QED
      BY <1>1, <1>2, <1>3, <1>5 DEF InBounds
  <2>2. ~TooDense(e, 0)
    BY DEF TooDense
  <2>3. pre = [err |-> "none", data |-> data]
    <3> HIDE DEF local, room
    <3>1. pre = LET er == IF Escapes(entries, i) THEN "UNSAFE_PATH"
                          ELSE IF ~InBounds(e.lho, 30, len) \/ local = {} THEN "CORRUPT_DATA"
                          ELSE IF ~InBounds(data, e.csize, len) THEN "CORRUPT_DATA"
                          ELSE IF e.usize > room THEN "BUFFER_TOO_SMALL"
                          ELSE IF TooDense(e, 0) THEN "RATIO_LIMIT"
                          ELSE "none"
                IN  [err |-> er, data |-> IF er = "none" THEN data ELSE 0]
      BY DEF Prepare, e, local
    <3> HIDE DEF data, pre
    <3> QED
      BY <1>5, <1>7, <2>1, <2>2, <3>1
  <2>4. pre.err = "none" /\ pre.data = End(p)
    <3> HIDE DEF pre, data
    <3> QED
      BY <1>5, <2>3
  <2> HIDE DEF pre, local, data
  <2>5. x = LET er == IF pre.err # "none" THEN pre.err
                      ELSE IF e.method \notin methods THEN "UNSUPPORTED_FORMAT"
                      ELSE IF e.method = "STORE" /\ e.csize # e.usize THEN "CORRUPT_DATA"
                      ELSE IF e.method # "STORE" /\ packed = {} THEN "CORRUPT_DATA"
                      ELSE IF e.method # "STORE" /\ over # "none" THEN over
                      ELSE IF e.method # "STORE" /\ Length(got) # e.usize THEN "CORRUPT_DATA"
                      ELSE IF got # e.crc THEN "CHECKSUM_MISMATCH"
                      ELSE "none"
            IN  [err |-> er, content |-> IF er = "none" THEN got ELSE <<>>]
    BY DEF Extract, e, pre
  <2>6. got = r.crc /\ (e.method # "STORE" => packed # {})
    <3>1. CASE r.method = "STORE"
      <4>1. Lie(d, Plain(End(p), r.crc))
        BY <1>3, <3>1 DEF Payload
      <4>2. PlainAt(d, End(p), Length(r.crc)) = r.crc
        BY <1>1, <1>3, <4>1, PlainComesBack
      <4>3. got = PlainAt(d, pre.data, e.usize)
        BY <1>2, <3>1
      <4> HIDE DEF got
      <4> QED
        BY <1>1, <1>2, <2>4, <3>1, <4>2, <4>3
    <3>2. CASE r.method # "STORE"
      <4> DEFINE c == Packed(End(p), r.csize, r.method, r.crc)
      <4>1. Payload(r, End(p)) = <<c>>
        BY <3>2 DEF Payload
      <4>2. c.kind = "packed" /\ c.at = End(p) /\ c.size = r.csize /\ c.method = r.method
            /\ c.content = r.crc
        BY DEF Packed
      <4> HIDE DEF c
      <4>3. Len(<<c>>) = 1 /\ <<c>>[1] = c
        OBVIOUS
      <4>4. c \in d
        BY <1>3, <4>1, <4>3 DEF Lie
      <4>5. packed = {c}
        <5>1. packed = {q \in d : /\ q.kind = "packed" /\ q.at = End(p)
                                  /\ q.method = r.method /\ q.size = r.csize}
          BY <1>2, <2>4 DEF The
        <5>2. c \in packed
          BY <4>2, <4>4, <5>1
        <5>3. ASSUME NEW q \in packed PROVE q = c
          <6>1. q \in d /\ q.at = c.at
            BY <4>2, <5>1
          <6> QED
            BY <4>4, <6>1, Alone
        <5> HIDE DEF packed
        <5> QED
          BY <5>2, <5>3
      <4>6. got = (CHOOSE q \in packed : TRUE).content
        BY <1>2, <3>2
      <4> HIDE DEF got, packed
      <4>7. (CHOOSE q \in packed : TRUE) = c /\ packed # {}
        BY <4>5
      <4> QED
        BY <4>2, <4>6, <4>7
    <3> QED
      BY <3>1, <3>2
  <2>7. room \in Nat /\ MaxOutput \in Nat /\ room = r.ulen
    BY <1>1, FormatAssumption
  <2>8. over = IF room > MaxOutput /\ r.method \notin Unlimited THEN "OUTPUT_LIMIT" ELSE "none"
    <3>1. OutputLimit(e.csize, 0) = MaxOutput
      BY DEF OutputLimit
    <3>2. over = LET limit == OutputLimit(e.csize, 0)
                 IN  IF e.method \in Unlimited THEN IF room > room THEN "INVALID_INPUT" ELSE "none"
                     ELSE IF room > room /\ room <= limit THEN "BUFFER_TOO_SMALL"
                     ELSE IF room <= limit THEN "none"
                     ELSE IF limit = MaxOutput THEN "OUTPUT_LIMIT" ELSE "RATIO_LIMIT"
      <4>1. over = Overrun(e, room, room, 0)
        BY <2>6
      <4> HIDE DEF over, got
      <4> QED
        BY <4>1 DEF Overrun
    <3> HIDE DEF over, room
    <3> QED
      BY <1>2, <2>7, <3>1, <3>2
  <2> HIDE DEF got, packed, over, room
  <2>9. CASE r.method # "STORE" /\ over # "none"
    <3>1. x.err = over
      <4> HIDE DEF x, methods
      <4> QED
        BY <1>1, <1>2, <2>4, <2>5, <2>6, <2>9
    <3>2. x.err = "OUTPUT_LIMIT" /\ room > MaxOutput /\ r.method \notin Unlimited
      BY <2>8, <2>9, <3>1
    <3> QED
      BY <3>2
  <2>10. CASE ~(r.method # "STORE" /\ over # "none")
    <3>1. x = [err |-> "none", content |-> r.crc]
      <4> HIDE DEF x, methods
      <4> QED
        BY <1>1, <1>2, <2>4, <2>5, <2>6, <2>7, <2>10
    <3> QED
      BY <3>1
  <2> QED
    BY <2>9, <2>10
<1> QED
  BY <1>6, <1>7

-----------------------------------------------------------------------------
(* The inductive invariant of the layout: what was taken lies in front of   *)
(* pos, and what is written later lies behind it.                           *)

\* A record says what the call for the member said.
Lists(r, a) ==
    r.name = a.name /\ r.crc = a.content /\ r.mode = a.mode /\ r.mtime = a.mtime

\* Every member that was taken is there.
Kept ==
    \A k \in 1 .. Len(recs) :
        Lists(recs[k], accepted[k]) /\ Sound(recs[k]) /\ Stored(dst, recs[k], pos)

\* The part of the open member that cannot be written again is there.
OpenLies ==
    /\ LocalHeader(pos, member.body - pos) \in dst /\ PathSafe(member.name)
    /\ member.method = "STORE" => Lie(dst, Plain(member.body, member.content))

\* While a member is open nothing is finished.
OpenClaim == open => ~(total > 0) /\ (err = "none" => OpenLies)

\* What the last finish wrote, if nothing was written since.
Closed ==
    LET after == Trailer(DirectoryEnd(pos, recs), Len(recs), pos)
    IN  /\ total = End(after[Len(after)])
        /\ Lie(dst, Directory(pos, recs)) /\ Lie(dst, after)

\* What a finish returned is the end of what it wrote.
Shut == total > 0 => Closed

\* The reader's entries are those of the first n members, which are there.
Seen(n) ==
    /\ reader.entries = [k \in 1 .. n |-> EntryOf(recs[k])]
    /\ reader.given = [k \in 1 .. n |-> accepted[k]]
    /\ \A k \in 1 .. n : Stored(dst, recs[k], reader.len)

\* A reader that opened the archive knows members that were taken.
ReaderSees ==
    \/ reader.err \in {"closed", "OOM"} \/ AtSentinel
    \/ /\ reader.err = "none" /\ reader.len \in Nat
       /\ \E n \in 0 .. Len(recs) : Seen(n)

\* The first member begins where the buffer does.
FromTheStart == recs = <<>> => pos = 0

\* The inductive invariant, of a buffer that nobody else wrote to.
Laid == Apart(dst) /\ Kept /\ FromTheStart /\ OpenClaim /\ Shut /\ ReaderSees

LayInv == tampered \/ Laid

\* A member that ends by upto ends by more.
LEMMA StoredWithin ==
    ASSUME NEW d, Apart(d), NEW r, Sound(r), NEW upto \in Int, Stored(d, r, upto),
           NEW more \in Int, upto <= more
    PROVE  Stored(d, r, more)
<1>1. PICK p \in d : /\ p = LocalHeader(r.hdr, p.size) /\ p.size >= 30
                     /\ End(p) \in Nat /\ r.csize \in Nat
                     /\ End(p) + r.csize <= upto /\ Lie(d, Payload(r, End(p)))
  BY StoredKnown
<1>2. End(p) + r.csize <= more
  BY <1>1
<1> QED
  BY <1>1, <1>2 DEF Stored

\* The members that were taken stay where they are, for the writer and for the
\* reader, if what is written lies behind them and one at most is taken.
LEMMA MembersStay ==
    ASSUME Books, Books', Apart(dst), Apart(dst'), Stays(dst, dst', pos), Kept, ReaderSees,
           pos <= pos', reader' = reader,
           \A k \in 1 .. Len(recs) : recs'[k] = recs[k] /\ accepted'[k] = accepted[k],
           \/ Len(recs') = Len(recs)
           \/ /\ Len(recs') = Len(recs) + 1
              /\ Lists(recs'[Len(recs')], accepted'[Len(recs')]) /\ Sound(recs'[Len(recs')])
              /\ Stored(dst', recs'[Len(recs')], pos')
    PROVE  Kept' /\ ReaderSees'
<1>1. pos \in Int /\ pos' \in Int /\ recs \in Seq(Records) /\ recs' \in Seq(Records)
  BY DEF Books, BooksType
<1>2. DOMAIN recs = 1 .. Len(recs) /\ DOMAIN recs' = 1 .. Len(recs')
  BY <1>1
<1>3. /\ Len(recs) \in Int /\ Len(recs') \in Int
      /\ Len(recs') = Len(recs) \/ Len(recs') = Len(recs) + 1
  BY <1>1
<1>4. ASSUME NEW k \in 1 .. Len(recs), NEW upto, Stored(dst, recs[k], upto)
      PROVE  Stored(dst', recs[k], upto)
  BY <1>1, <1>4, StoredStays DEF Kept
<1>5. ASSUME NEW k \in 1 .. Len(recs')
      PROVE  Lists(recs'[k], accepted'[k]) /\ Sound(recs'[k]) /\ Stored(dst', recs'[k], pos')
  <2>1. CASE k \in 1 .. Len(recs)
    <3>1. Lists(recs[k], accepted[k]) /\ Sound(recs[k]) /\ Stored(dst, recs[k], pos)
      BY <2>1 DEF Kept
    <3>2. Stored(dst', recs[k], pos)
      BY <1>4, <2>1, <3>1
    <3>3. Stored(dst', recs[k], pos')
      BY <1>1, <3>1, <3>2, StoredWithin
    <3>4. recs'[k] = recs[k] /\ accepted'[k] = accepted[k]
      BY <2>1
    <3> QED
      BY <3>1, <3>3, <3>4
  <2>2. CASE k \notin 1 .. Len(recs)
    <3>1. k = Len(recs') /\ Len(recs') = Len(recs) + 1
      BY <1>3, <2>2
    <3> QED
      BY <3>1
  <2> QED
    BY <2>1, <2>2
<1>6. Kept'
  BY <1>5 DEF Kept
<1>7. ReaderSees'
  <2>1. CASE reader.err \in {"closed", "OOM"}
    BY <2>1, Zenon DEF ReaderSees
  <2>2. CASE AtSentinel
    <3>1. PICK k \in 1 .. Len(recs) : U32 \in {recs[k].ulen, recs[k].csize, recs[k].hdr}
      BY <1>2, <2>2, Zenon DEF AtSentinel
    <3>2. k \in 1 .. Len(recs') /\ recs'[k] = recs[k]
      BY <1>3
    <3> QED
      BY <1>2, <3>1, <3>2, ZenonT(60) DEF ReaderSees, AtSentinel
  <2>3. CASE reader.err = "none" /\ reader.len \in Nat /\ \E n \in 0 .. Len(recs) : Seen(n)
    <3>1. PICK n \in 0 .. Len(recs) : Seen(n)
      BY <2>3
    <3>2. \A k \in 1 .. n : k \in 1 .. Len(recs)
      BY <1>3
    <3>3. n \in 0 .. Len(recs')
      BY <1>3
    <3>4. [k \in 1 .. n |-> EntryOf(recs'[k])] = [k \in 1 .. n |-> EntryOf(recs[k])]
          /\ [k \in 1 .. n |-> accepted'[k]] = [k \in 1 .. n |-> accepted[k]]
      BY <3>2
    <3>5. \A k \in 1 .. n : Stored(dst', recs'[k], reader.len)
      BY <1>4, <3>1, <3>2 DEF Seen
    <3>6. Seen(n)'
      BY <3>1, <3>4, <3>5 DEF Seen
    <3> QED
      BY <2>3, <3>3, <3>6 DEF ReaderSees
  <2> QED
    BY <2>1, <2>2, <2>3 DEF ReaderSees
<1> QED
  BY <1>6, <1>7

\* So when none is taken,
LEMMA NoneTaken ==
    ASSUME Books, Books', Laid, Apart(dst'), Stays(dst, dst', pos),
           UNCHANGED <<pos, recs, accepted, reader>>
    PROVE  Kept' /\ ReaderSees' /\ FromTheStart'
<1>1. pos \in Int
  BY DEF Books, BooksType
<1>2. Kept' /\ ReaderSees'
  BY <1>1, MembersStay DEF Laid
<1> QED
  BY <1>2 DEF Laid, FromTheStart

\* and when one is taken or there is no memory for its record.
LEMMA OneTaken ==
    ASSUME Books, Books', Laid, err = "none", Apart(dst'), Stays(dst, dst', pos),
           reader' = reader, NEW r, Record(r), NEW m, NEW content, NEW size,
           Accept(m, content, size),
           r.name = m.name, r.crc = content, r.mode = m.mode, r.mtime = m.mtime, Sound(r),
           NEW end \in Nat, pos <= end, Stored(dst', r, end),
           pos' = IF err' = "none" THEN end ELSE pos
    PROVE  Kept' /\ ReaderSees' /\ FromTheStart'
<1> DEFINE x == [name |-> m.name, content |-> content, mode |-> m.mode, mtime |-> m.mtime,
                 nlen |-> size.nlen, ulen |-> size.ulen, expands |-> size.expands]
<1>1. \/ recs' = Append(recs, r) /\ err' = err
      \/ recs' = recs /\ err' = "OOM"
  BY DEF Record, Return, Stick
<1>2. CASE recs' = Append(recs, r) /\ err' = err
  <2>1. accepted' = Append(accepted, x) /\ pos' = end
    BY <1>2 DEF Accept
  <2>2. Lists(r, x)
    BY DEF Lists
  <2> HIDE DEF x
  <2>3. recs \in Seq(Records) /\ accepted \in Seq(Taken) /\ Len(accepted) = Len(recs)
        /\ recs' \in Seq(Records) /\ accepted' \in Seq(Taken) /\ Len(accepted') = Len(recs')
    BY DEF Books, BooksType, Matching
  <2>4. /\ Len(recs') = Len(recs) + 1 /\ recs'[Len(recs')] = r /\ recs' # <<>>
        /\ \A k \in 1 .. Len(recs) : recs'[k] = recs[k]
    BY <1>2, <2>3
  <2>5. /\ accepted'[Len(recs')] = x /\ \A k \in 1 .. Len(recs) : accepted'[k] = accepted[k]
    BY <2>1, <2>3, <2>4
  <2>6. Kept' /\ ReaderSees'
    BY <2>1, <2>2, <2>4, <2>5, MembersStay DEF Laid
  <2> QED
    BY <2>4, <2>6 DEF FromTheStart
<1>3. CASE recs' = recs /\ err' = "OOM"
  <2>1. accepted' = accepted /\ pos' = pos
    BY <1>3 DEF Accept
  <2> QED
    BY <1>3, <2>1, NoneTaken
<1> QED
  BY <1>1, <1>2, <1>3

\* A local header where the directory was makes an end of it.
LEMMA NoLongerShut ==
    ASSUME Books, Laid, Touched, NEW size, LocalHeader(pos, size) \in dst'
    PROVE  ~(total' > 0)
<1>1. CASE dst' = dst /\ total > 0
  <2>1. Named(recs) /\ pos \in Nat
    BY DirectoryBound DEF Books, BooksType
  <2>2. Apart(dst) /\ Closed
    BY <1>1 DEF Laid, Shut
  <2>3. LocalHeader(pos, size) \notin dst
    BY <2>1, <2>2, NoLocalHere DEF Closed
  <2> QED
    BY <1>1, <2>3
<1> QED
  BY <1>1 DEF Touched

\* With nothing entered, an archive that was left alone is as it was.
LEMMA StaysShut ==
    ASSUME Laid, Touched, UNCHANGED <<pos, recs>>
    PROVE  Shut'
<1>1. CASE dst' = dst
  <2>1. total' = total
    BY <1>1 DEF Touched
  <2> QED
    BY <1>1, <2>1 DEF Laid, Shut, Closed
<1>2. CASE dst' # dst
  BY <1>2 DEF Touched, Shut
<1> QED
  BY <1>1, <1>2

\* What leaves the buffer and the records alone.
LEMMA OthersLie ==
    ASSUME LayInv, UNCHANGED <<dst, pos, recs, accepted, total, reader, tampered>>,
           ~open' \/ UNCHANGED <<open, member, err>>
    PROVE  LayInv'
<1>1. CASE tampered
  BY <1>1 DEF LayInv
<1>2. CASE ~tampered
  <2>1. Laid
    BY <1>2 DEF LayInv
  <2>2. Apart(dst') /\ Kept' /\ FromTheStart' /\ Shut' /\ ReaderSees'
    BY <2>1 DEF Laid, Kept, FromTheStart, Shut, Closed, ReaderSees, Seen, AtSentinel
  <2>3. OpenClaim'
    BY <2>1 DEF Laid, OpenClaim, OpenLies
  <2> QED
    BY <2>2, <2>3 DEF LayInv, Laid
<1> QED
  BY <1>1, <1>2

\* A writer begins with an empty buffer, and nobody reads it.
LEMMA LaidAtFirst == Init => LayInv
<1> SUFFICES ASSUME Init PROVE Laid
  BY DEF LayInv
<1>1. dst = {} /\ pos = 0 /\ recs = <<>> /\ ~open /\ total = 0 /\ reader.err = "closed"
  BY DEF Init, NoReader
<1> QED
  BY <1>1 DEF Laid, Apart, Kept, FromTheStart, OpenClaim, Shut, ReaderSees

-----------------------------------------------------------------------------
(* What each action does to the layout.                                    *)

\* The payload of a member that was packed or is stored.
LEMMA PayloadInLine ==
    ASSUME NEW r, Sound(r), NEW at \in Nat, r.method = "STORE" \/ r.csize # 0
    PROVE  \E S : /\ Payload(r, at) \in Seq(S) /\ InLine(Payload(r, at), at)
<1>1. r.crc \in Contents /\ r.csize \in Nat
  BY DEF Sound, Records
<1>2. CASE r.method = "STORE"
  <2>1. Payload(r, at) = Plain(at, r.crc)
    BY <1>2 DEF Payload
  <2>2. InLine(Plain(at, r.crc), at)
    BY <1>1, PlainInLine
  <2>3. \E S : Plain(at, r.crc) \in Seq(S)
    BY <1>1, PlainPieces
  <2> QED
    BY <2>1, <2>2, <2>3
<1>3. CASE r.method # "STORE"
  <2> DEFINE p == Packed(at, r.csize, r.method, r.crc)
  <2>1. Payload(r, at) = <<p>>
    BY <1>3 DEF Payload
  <2>2. Placed(p) /\ p.at >= at
    BY <1>1, <1>3 DEF Placed, Packed
  <2> HIDE DEF p
  <2>3. <<p>> \in Seq({p}) /\ InLine(<<p>>, at)
    BY <2>2, OneInLine
  <2> QED
    BY <2>1, <2>3
<1> QED
  BY <1>2, <1>3

\* A member that is added lies behind the others, header and payload.
LEMMA AddedLies ==
    ASSUME NEW d, Apart(d), NEW at \in Nat, NEW body \in Nat, at + 30 <= body, NEW upto,
           NEW r, Sound(r), r.hdr = at, r.method = "STORE" \/ r.csize # 0
    PROVE  LET e == PutAll(Wipe(d, body, upto), <<LocalHeader(at, body - at)>> \o Payload(r, body))
           IN  /\ Apart(e) /\ Stays(d, e, at) /\ Stored(e, r, body + r.csize)
               /\ LocalHeader(at, body - at) \in e
<1> DEFINE w == Wipe(d, body, upto)
           p == LocalHeader(at, body - at)
           ps == Payload(r, body)
           e == PutAll(w, <<p>> \o ps)
<1>1. at \in Int /\ body \in Int /\ at <= body /\ body - at \in Nat \ {0} /\ r.csize \in Nat
  BY DEF Sound, Records
<1>2. Apart(w) /\ Stays(d, w, at)
  BY <1>1, WipeApart
<1>3. p.at = at /\ p.size = body - at /\ End(p) = body /\ Placed(p)
  BY <1>1 DEF LocalHeader, End, Placed
<1>4. PICK S : ps \in Seq(S) /\ InLine(ps, body)
  BY PayloadInLine
<1> HIDE DEF p, ps, w
<1>5. <<p>> \in Seq({p}) /\ InLine(<<p>>, at) /\ Ends(<<p>>, body)
  <2>1. p.at >= at /\ End(p) <= body
    BY <1>1, <1>3
  <2> QED
    BY <1>3, <2>1, OneInLine, OneEnds
<1>6. /\ <<p>> \o ps \in Seq({p} \cup S) /\ InLine(<<p>> \o ps, at)
      /\ \A x : Lie(x, <<p>> \o ps) => Lie(x, <<p>>) /\ Lie(x, ps)
  BY <1>1, <1>4, <1>5, LinesTogether
<1>7. Apart(e) /\ Stays(w, e, at) /\ Lie(e, <<p>> \o ps)
  BY <1>1, <1>2, <1>6, PutAllApart
<1> HIDE DEF e
<1>8. Lie(e, <<p>>) /\ Lie(e, ps)
  BY <1>6, <1>7
<1>9. p \in e
  <2>1. Len(<<p>>) = 1 /\ <<p>>[1] = p
    OBVIOUS
  <2> QED
    BY <1>8, <2>1 DEF Lie
<1>10. Stays(d, e, at)
  BY <1>2, <1>7 DEF Stays
<1>11. p = LocalHeader(r.hdr, p.size) /\ p.size >= 30 /\ End(p) + r.csize <= body + r.csize
  <2>1. p.size >= 30 /\ End(p) + r.csize <= body + r.csize
    BY <1>1, <1>3
  <2>2. p = LocalHeader(at, p.size)
    BY <1>3 DEF p
  <2> QED
    BY <2>1, <2>2
<1>12. Lie(e, Payload(r, End(p)))
  BY <1>3, <1>8 DEF ps
<1>13. Stored(e, r, body + r.csize)
  BY <1>9, <1>11, <1>12 DEF Stored
<1> QED
  BY <1>7, <1>9, <1>10, <1>13 DEF e, w, p, ps

\* The record of a member that was let in is sound.
LEMMA RecordSound ==
    ASSUME NEW m, m.name \in Names, m.mode \in Modes, m.mtime \in Times, PathSafe(m.name),
           NEW method \in Methods, NEW content \in Contents, NEW csize \in Nat,
           NEW hdr \in Nat, method = "STORE" => csize = Length(content)
    PROVE  LET r == RecordOf(m, method, content, csize, hdr)
           IN  /\ Sound(r) /\ r.name = m.name /\ r.crc = content /\ r.mode = m.mode
               /\ r.mtime = m.mtime /\ r.hdr = hdr /\ r.method = method /\ r.csize = csize
<1>1. RecordOf(m, method, content, csize, hdr) \in Records
  BY RecordType
<1> QED
  BY <1>1 DEF RecordOf, Sound

\* So does zip_add keep the layout.
LEMMA AddLies ==
    ASSUME RoomInv, RoomInv', LayInv, NEW m \in Members, NEW method \in Methods, Add(m, method)
    PROVE  LayInv'
<1>1. ~tampered /\ Refusal(m.name) = "none" /\ Touched
  BY Zenon DEF Add, Adding, Calling
<1>2. Laid /\ Books /\ Books'
  BY <1>1 DEF LayInv, RoomInv
<1>3. err = "none" /\ ~open
  BY <1>1, FreeForAll
<1>4. PathSafe(m.name)
  BY <1>1, Zenon DEF Refusal
<1>5. reader' = reader /\ open' = open
  BY DEF Add, consumer, stream
<1>6. OpenClaim'
  BY <1>3, <1>5 DEF OpenClaim
<1>7. Apart(dst) /\ pos \in Nat /\ pos \in Int /\ cap \in Nat
  BY <1>2 DEF Laid, Books, BooksType
<1> SUFFICES Apart(dst') /\ Kept' /\ ReaderSees' /\ FromTheStart' /\ Shut'
  BY <1>6 DEF LayInv, Laid
<1>8. CASE UNCHANGED <<dst, pos, recs, accepted>>
  <2>1. Apart(dst') /\ Stays(dst, dst', pos)
    BY <1>7, <1>8 DEF Stays
  <2> QED
    BY <1>1, <1>2, <1>5, <1>8, <2>1, NoneTaken, StaysShut
<1>9. ASSUME NEW tried \in Methods, Added(m, tried)
      PROVE  Apart(dst') /\ Kept' /\ ReaderSees' /\ FromTheStart' /\ Shut'
  <2> DEFINE c      == m.content
             body   == pos + LocalSize(m.name, Length(c))
             room   == cap - body
             packed == IF Tried(tried, c) THEN PackedSize[c] ELSE 0
             packs  == Tried(tried, c) /\ Shrinks(packed, c, room)
             csize  == IF packs THEN packed ELSE Length(c)
             upto   == IF packed <= room THEN body + packed ELSE cap
             local  == LocalHeader(pos, body - pos)
             used   == IF packs THEN tried ELSE "STORE"
             load   == IF packs THEN <<Packed(body, csize, tried, c)>> ELSE Plain(body, c)
             size   == Measure(m, tried, c, FALSE)
             r      == RecordOf(m, used, c, csize, pos)
  <2>1. \/ UNCHANGED <<dst, pos, recs, accepted>>
        \/ dst' = Wipe(dst, body, upto) /\ UNCHANGED <<pos, recs, accepted>>
        \/ /\ Record(r) /\ dst' = PutAll(Wipe(dst, body, upto), <<local>> \o load)
           /\ pos' = (IF err' = "none" THEN body + csize ELSE pos)
           /\ Accept(m, c, size)
    BY <1>9 DEF Added
  <2>2. /\ m.name \in Names /\ c \in Contents /\ c \in DOMAIN PackedSize
        /\ NameLen(m.name) \in Nat /\ Length(c) \in Nat
        /\ m.mode \in Modes /\ m.mtime \in Times
    BY MemberType
  <2>3. body \in Nat /\ body \in Int /\ pos + 30 <= body
    BY <1>7, <2>2 DEF LocalSize
  <2>4. PackedSize[c] \in Nat \ {0}
    BY <2>2, ZipAssumption
  <2>5. packed \in Nat /\ (packs => packed # 0) /\ (packs => tried # "STORE")
    BY <2>4 DEF Tried
  <2>6. csize \in Nat /\ (packs => csize # 0) /\ (~packs => csize = Length(c))
    <3> HIDE DEF c, packed
    <3> QED
      BY <2>2, <2>5
  <2>7. used \in Methods /\ (used = "STORE" => csize = Length(c))
        /\ (used = "STORE" \/ csize # 0)
    <3> HIDE DEF packed, csize, packs
    <3> QED
      BY <2>5, <2>6 DEF Methods
  <2>8. /\ Sound(r) /\ r.name = m.name /\ r.crc = c /\ r.mode = m.mode
        /\ r.mtime = m.mtime /\ r.hdr = pos /\ r.method = used /\ r.csize = csize
    <3> HIDE DEF c, used, csize
    <3> QED
      BY <1>4, <1>7, <2>2, <2>6, <2>7, RecordSound
  <2>9. load = Payload(r, body)
    <3> HIDE DEF c, csize, r, packs
    <3> QED
      BY <2>5, <2>8 DEF Payload
  <2> HIDE DEF c, body, packed, packs, csize, upto, local, used, load, size, r
  <2>10. CASE UNCHANGED <<dst, pos, recs, accepted>>
    BY <1>8, <2>10
  <2>11. CASE dst' = Wipe(dst, body, upto) /\ UNCHANGED <<pos, recs, accepted>>
    <3>1. pos <= body
      BY <1>7, <2>3
    <3>2. Apart(dst') /\ Stays(dst, dst', pos)
      BY <1>7, <2>3, <2>11, <3>1, WipeApart
    <3> QED
      BY <1>1, <1>2, <1>5, <2>11, <3>2, NoneTaken, StaysShut
  <2>12. CASE /\ Record(r) /\ dst' = PutAll(Wipe(dst, body, upto), <<local>> \o load)
              /\ pos' = (IF err' = "none" THEN body + csize ELSE pos)
              /\ Accept(m, c, size)
    <3>1. dst' = PutAll(Wipe(dst, body, upto), <<LocalHeader(pos, body - pos)>> \o Payload(r, body))
      BY <2>9, <2>12 DEF local
    <3>2. /\ Apart(dst') /\ Stays(dst, dst', pos) /\ Stored(dst', r, body + csize)
          /\ LocalHeader(pos, body - pos) \in dst'
      BY <1>7, <2>3, <2>7, <2>8, <3>1, AddedLies
    <3>3. body + csize \in Nat /\ pos <= body + csize
      BY <1>7, <2>3, <2>6
    <3>4. Kept' /\ ReaderSees' /\ FromTheStart'
      BY <1>2, <1>3, <1>5, <2>8, <2>12, <3>2, <3>3, OneTaken
    <3>5. Shut'
      BY <1>1, <1>2, <3>2, NoLongerShut DEF Shut
    <3> QED
      BY <3>2, <3>4, <3>5
  <2> QED
    BY <2>1, <2>10, <2>11, <2>12
<1> QED
  BY <1>8, <1>9 DEF Add, Methods

\* A streamed member begins with its header, behind the others.
LEMMA BeginLies ==
    ASSUME RoomInv, RoomInv', LayInv, NEW m \in Members, NEW method \in {"STORE", "DEFLATE"},
           Begin(m, method)
    PROVE  LayInv'
<1>1. ~tampered /\ Refusal(m.name) = "none" /\ Touched
  BY Zenon DEF Begin, Adding, Calling
<1>2. Laid /\ Books /\ Books'
  BY <1>1 DEF LayInv, RoomInv
<1>3. err = "none" /\ ~open
  BY <1>1, FreeForAll
<1>4. PathSafe(m.name)
  BY <1>1, Zenon DEF Refusal
<1>5. UNCHANGED <<pos, recs, accepted, reader>>
  BY DEF Begin, consumer
<1>6. Apart(dst) /\ pos \in Nat /\ pos \in Int
  BY <1>2 DEF Laid, Books, BooksType
<1>7. NameLen(m.name) \in Nat
  BY MemberType
<1> DEFINE body   == pos + 30 + NameLen(m.name)
           local  == LocalHeader(pos, body - pos)
           opened == [name |-> m.name, content |-> <<>>, mode |-> m.mode, mtime |-> m.mtime,
                      hdr |-> pos, body |-> body, method |-> method, out |-> 0]
<1>8. \/ UNCHANGED <<dst, stream>>
      \/ dst' = Put(dst, local) /\ UNCHANGED stream
      \/ dst' = Put(dst, local) /\ open' = TRUE /\ member' = opened
  BY DEF Begin
<1>9. Placed(local) /\ pos <= local.at
  BY <1>6, <1>7 DEF Placed, LocalHeader
<1>10. Shut'
  BY <1>1, <1>2, <1>5, StaysShut
<1>11. opened.name = m.name /\ opened.content = <<>> /\ opened.body = body
  OBVIOUS
<1>12. Lie(dst', Plain(body, <<>>))
  BY DEF Lie, Plain
<1> HIDE DEF local, opened
<1>13. Apart(dst') /\ Stays(dst, dst', pos)
  <2>1. CASE dst' = dst
    BY <1>6, <2>1 DEF Stays
  <2>2. CASE dst' = Put(dst, local)
    BY <1>6, <1>9, <2>2, PutApart
  <2> QED
    BY <1>8, <2>1, <2>2
<1>14. Kept' /\ ReaderSees' /\ FromTheStart'
  BY <1>2, <1>5, <1>13, NoneTaken
<1>15. OpenClaim'
  <2>1. CASE UNCHANGED stream
    BY <1>3, <2>1 DEF stream, OpenClaim
  <2>2. CASE dst' = Put(dst, local) /\ open' = TRUE /\ member' = opened
    <3>1. local \in dst'
      BY <1>6, <1>9, <2>2, PutApart
    <3>2. ~(total' > 0)
      BY <1>1, <1>2, <3>1, NoLongerShut DEF local
    <3>3. OpenLies'
      BY <1>4, <1>5, <1>11, <1>12, <2>2, <3>1 DEF OpenLies, local
    <3> QED
      BY <3>2, <3>3 DEF OpenClaim
  <2> QED
    BY <1>8, <2>1, <2>2
<1> QED
  BY <1>10, <1>13, <1>14, <1>15 DEF LayInv, Laid

\* A chunk more of a stored content.
LEMMA PlainExtends ==
    ASSUME NEW content \in Contents, NEW chunk \in DOMAIN Size, NEW at \in Nat, NEW d,
           Lie(d, Plain(at, content)), Lie(d, Plain(at + Length(content), <<chunk>>))
    PROVE  Lie(d, Plain(at, Append(content, chunk)))
<1> DEFINE c == Append(content, chunk)
           n == Len(content)
           next == Plain(at + Length(content), <<chunk>>)
           piece == [kind |-> "plain", at |-> at + Length(content), size |-> Size[chunk],
                     chunk |-> chunk]
<1>1. n \in Nat /\ Len(c) = n + 1 /\ c[n + 1] = chunk /\ DOMAIN c = 1 .. n + 1
      /\ DOMAIN content = 1 .. n /\ \A k \in 1 .. n : c[k] = content[k]
  BY DEF Contents
<1>2. \A k \in 1 .. n + 1 : SubSeq(c, 1, k - 1) = SubSeq(content, 1, k - 1)
  BY DEF Contents
<1>3. SubSeq(content, 1, n) = content
  BY DEF Contents
<1>4. piece \in d
  <2>1. Len(next) = 1
    BY DEF Plain
  <2>2. next[1] = [kind |-> "plain",
                   at |-> at + Length(content) + Length(SubSeq(<<chunk>>, 1, 0)),
                   size |-> Size[chunk], chunk |-> chunk]
    BY DEF Plain
  <2>3. SubSeq(<<chunk>>, 1, 0) = <<>>
    OBVIOUS
  <2>4. at + Length(content) + 0 = at + Length(content)
    BY LengthType
  <2>5. next[1] = piece
    BY <2>2, <2>3, <2>4, LengthOfNone
  <2>6. next[1] \in d
    BY <2>1 DEF Lie
  <2> QED
    BY <2>5, <2>6
<1>5. Len(Plain(at, content)) = n /\ Len(Plain(at, c)) = n + 1
  BY <1>1 DEF Plain
<1> SUFFICES ASSUME NEW k \in 1 .. n + 1 PROVE Plain(at, c)[k] \in d
  BY <1>5 DEF Lie
<1>6. Plain(at, c)[k] = [kind |-> "plain", at |-> at + Length(SubSeq(content, 1, k - 1)),
                         size |-> Size[c[k]], chunk |-> c[k]]
  BY <1>1, <1>2 DEF Plain
<1>7. CASE k = n + 1
  <2>1. k - 1 = n /\ c[k] = chunk
    BY <1>1, <1>7
  <2> HIDE DEF c
  <2> QED
    BY <1>3, <1>4, <1>6, <2>1
<1>8. CASE k \in 1 .. n
  <2>1. Plain(at, content)[k] = [kind |-> "plain", at |-> at + Length(SubSeq(content, 1, k - 1)),
                                 size |-> Size[content[k]], chunk |-> content[k]]
    BY <1>1, <1>8 DEF Plain
  <2>2. Plain(at, content)[k] \in d
    BY <1>5, <1>8 DEF Lie
  <2> HIDE DEF c
  <2> QED
    BY <1>1, <1>6, <1>8, <2>1, <2>2
<1>9. k = n + 1 \/ k \in 1 .. n
  BY <1>1
<1> QED
  BY <1>7, <1>8, <1>9

\* A stored content stays while nothing is written in front of its end.
LEMMA PlainStays ==
    ASSUME NEW content \in Contents, NEW at \in Nat, NEW d, NEW e,
           Stays(d, e, at + Length(content)), Lie(d, Plain(at, content))
    PROVE  Lie(e, Plain(at, content))
<1>1. Ends(Plain(at, content), at + Length(content))
  BY PlainInLine
<1> QED
  BY <1>1 DEF Stays, Lie, Ends

\* What lies in front of lo lies in front of any earlier offset.
LEMMA StaysBelow ==
    ASSUME NEW d, Apart(d), NEW e, NEW lo \in Int, NEW at \in Int, at <= lo, Stays(d, e, lo)
    PROVE  Stays(d, e, at)
<1> SUFFICES ASSUME NEW p \in d, End(p) <= at PROVE p \in e
  BY DEF Stays
<1>1. End(p) \in Int
  BY DEF Apart, Placed, End
<1>2. End(p) <= lo
  BY <1>1
<1> QED
  BY <1>2 DEF Stays

\* What is streamed lies behind the header.
LEMMA WriteLies ==
    ASSUME RoomInv, RoomInv', LayInv, NEW chunk \in DOMAIN Size, EncWrite(chunk)
    PROVE  LayInv'
<1> DEFINE content == Append(member.content, chunk)
<1>1. ~tampered /\ open /\ err = "none" /\ content \in DOMAIN PackedSize
      /\ UNCHANGED <<pos, recs, accepted, total, reader>>
  BY DEF EncWrite, Calling, consumer
<1>2. Laid /\ Books /\ Books'
  BY <1>1 DEF LayInv, RoomInv
<1>3. /\ pos \in Nat /\ pos \in Int /\ member.body \in Nat /\ member.body \in Int
      /\ member \in Streamed /\ member.content \in Contents
      /\ Length(member.content) \in Nat /\ pos <= member.body
  <2>1. /\ pos \in Nat /\ member.body \in Nat /\ member.content \in Contents
        /\ OpenFits /\ Length(member.content) \in Nat
        /\ NameLen(member.name) \in Nat /\ member.body = pos + 30 + NameLen(member.name)
    BY <1>1, OpenKnown
  <2> QED
    BY <2>1 DEF OpenFits
<1>4. Apart(dst) /\ OpenLies /\ ~(total > 0) /\ ~(total' > 0)
  BY <1>1, <1>2 DEF Laid, OpenClaim
<1>5. Shut'
  BY <1>4 DEF Shut
<1>6. ASSUME Stays(dst, dst', member.body) PROVE LocalHeader(pos, member.body - pos) \in dst'
  <2>1. PICK h \in dst : h = LocalHeader(pos, member.body - pos)
    BY <1>4 DEF OpenLies
  <2>2. End(h) = member.body
    BY <1>3, <2>1 DEF End, LocalHeader
  <2>3. h \in dst'
    BY <1>3, <1>6, <2>2 DEF Stays
  <2> QED
    BY <2>1, <2>3
<1>7. ASSUME Apart(dst'), Stays(dst, dst', member.body), OpenClaim'
      PROVE  LayInv'
  <2>1. Stays(dst, dst', pos)
    BY <1>3, <1>4, <1>7, StaysBelow
  <2>2. Kept' /\ ReaderSees' /\ FromTheStart'
    BY <1>1, <1>2, <1>7, <2>1, NoneTaken
  <2> QED
    BY <1>5, <1>7, <2>2 DEF LayInv, Laid
<1>8. CASE member.method = "DEFLATE"
  <2>1. WritePacked(content)
    BY <1>8 DEF EncWrite
  <2> HIDE DEF content
  <2>2. \/ (\E upto : dst' = Wipe(dst, member.body, upto)) /\ open' = FALSE
        \/ /\ \E upto : dst' = Wipe(dst, member.body, upto)
           /\ \E out : member' = [member EXCEPT !.content = content, !.out = out]
    BY <2>1 DEF WritePacked, AbandonMember
  <2>3. PICK upto : dst' = Wipe(dst, member.body, upto)
    BY <2>2
  <2>4. Apart(dst') /\ Stays(dst, dst', member.body)
    BY <1>3, <1>4, <2>3, WipeApart
  <2>5. CASE open' = FALSE
    BY <1>7, <2>4, <2>5 DEF OpenClaim
  <2>6. CASE \E out : member' = [member EXCEPT !.content = content, !.out = out]
    <3>1. member'.body = member.body /\ member'.name = member.name
          /\ member'.method = member.method
      BY <1>3, <2>6 DEF Streamed
    <3>2. LocalHeader(pos, member.body - pos) \in dst'
      BY <1>6, <2>4
    <3>3. OpenLies'
      BY <1>1, <1>4, <1>8, <3>1, <3>2 DEF OpenLies
    <3> QED
      BY <1>4, <1>7, <2>4, <3>3 DEF OpenClaim
  <2> QED
    BY <2>2, <2>5, <2>6
<1>9. CASE member.method # "DEFLATE"
  <2> DEFINE at == member.body + Length(member.content)
             ps == Plain(at, <<chunk>>)
  <2>1. WritePlain(chunk, content)
    BY <1>9 DEF EncWrite
  <2>2. /\ member' = [member EXCEPT !.content = content]
        /\ \/ err' = "BUFFER_TOO_SMALL" /\ dst' = dst
           \/ dst' = PutAll(dst, ps)
    BY <2>1 DEF WritePlain, OutOfRoom, Stick
  <2>3. member'.body = member.body /\ member'.name = member.name
        /\ member'.method = member.method /\ member'.content = content
    <3> HIDE DEF content
    <3> QED
      BY <1>3, <2>2 DEF Streamed
  <2>4. CASE err' = "BUFFER_TOO_SMALL" /\ dst' = dst
    <3>1. Apart(dst') /\ Stays(dst, dst', member.body)
      BY <1>4, <2>4 DEF Stays
    <3> QED
      BY <1>4, <1>7, <2>4, <3>1 DEF OpenClaim
  <2>5. CASE dst' = PutAll(dst, ps)
    <3>1. at \in Nat /\ at \in Int /\ member.body <= at
      BY <1>3
    <3>2. <<chunk>> \in Contents
      BY DEF Contents
    <3>3. InLine(ps, at) /\ \E S : ps \in Seq(S)
      <4> HIDE DEF at
      <4> QED
        BY <3>1, <3>2, PlainInLine, PlainPieces
    <3> HIDE DEF ps
    <3>4. Apart(dst') /\ Stays(dst, dst', at) /\ Lie(dst', ps)
      <4> HIDE DEF at
      <4> QED
        BY <1>4, <2>5, <3>1, <3>3, PutAllApart
    <3>5. Stays(dst, dst', member.body)
      <4> HIDE DEF at
      <4> QED
        BY <1>3, <1>4, <3>1, <3>4, StaysBelow
    <3>6. LocalHeader(pos, member.body - pos) \in dst'
      BY <1>6, <3>5
    <3>7. member.method = "STORE" => Lie(dst', Plain(member.body, content))
      <4> SUFFICES ASSUME member.method = "STORE"
                   PROVE  Lie(dst', Plain(member.body, content))
        OBVIOUS
      <4>1. Lie(dst, Plain(member.body, member.content))
        BY <1>4 DEF OpenLies
      <4>2. Lie(dst', Plain(member.body, member.content))
        BY <1>3, <3>4, <4>1, PlainStays
      <4> QED
        BY <1>3, <3>4, <4>2, PlainExtends DEF ps
    <3>8. OpenLies'
      BY <1>1, <1>4, <2>3, <3>6, <3>7 DEF OpenLies
    <3> QED
      BY <1>4, <1>7, <3>4, <3>5, <3>8 DEF OpenClaim
  <2> QED
    BY <2>2, <2>4, <2>5
<1> QED
  BY <1>8, <1>9

\* A streamed member that ends lies there as its record says.
LEMMA EndLies ==
    ASSUME RoomInv, RoomInv', LayInv, EncEnd
    PROVE  LayInv'
<1> DEFINE content == member.content
           csize   == IF member.method = "STORE" THEN Length(content) ELSE PackedSize[content]
           at      == member.body + csize
           packed  == IF member.method = "DEFLATE"
                        THEN <<Packed(member.body, csize, "DEFLATE", content)>> ELSE <<>>
           size    == Measure(member, member.method, content, TRUE)
           r       == RecordOf(member, member.method, content, csize, member.hdr)
           tail    == Descriptor(at)
<1>1. ~tampered /\ open /\ err = "none" /\ UNCHANGED <<member, total, reader>>
  BY DEF EncEnd, Calling, consumer
<1>2. Laid /\ Books /\ Books'
  BY <1>1 DEF LayInv, RoomInv
<1>3. /\ member.name \in Names /\ content \in Contents /\ member.mode \in Modes
      /\ content \in DOMAIN PackedSize /\ member.mtime \in Times /\ member.hdr = pos
      /\ member.method \in {"STORE", "DEFLATE"} /\ pos \in Nat /\ pos \in Int
      /\ member.body \in Nat /\ member.body \in Int /\ pos + 30 <= member.body
      /\ Length(content) \in Nat
  <2>1. /\ member.name \in Names /\ content \in Contents /\ member.mode \in Modes
        /\ content \in DOMAIN PackedSize /\ member.mtime \in Times /\ member.hdr = pos
        /\ member.method \in {"STORE", "DEFLATE"} /\ pos \in Nat /\ Length(content) \in Nat
        /\ member.body \in Nat /\ member.body = pos + 30 + NameLen(member.name)
        /\ NameLen(member.name) \in Nat
    BY <1>1, OpenKnown
  <2> HIDE DEF content
  <2> QED
    BY <2>1
<1>4. csize \in Nat /\ (member.method = "STORE" => csize = Length(content))
      /\ (member.method = "DEFLATE" => csize \in Nat \ {0})
  BY <1>3, ZipAssumption
<1>5. \/ (\E upto : dst' = Wipe(dst, member.body, upto)) /\ err' = "BUFFER_TOO_SMALL"
         /\ UNCHANGED <<pos, recs, accepted>>
      \/ dst' = PutAll(dst, packed) /\ err' = "BUFFER_TOO_SMALL"
         /\ UNCHANGED <<pos, recs, accepted>>
      \/ /\ dst' = PutAll(dst, packed \o <<tail>>)
         /\ Record(r) /\ pos' = (IF err' = "none" THEN at + 16 ELSE pos)
         /\ open' = (err' # "none") /\ Accept(member, content, size)
  BY DEF EncEnd, EndMember, OutOfRoom, Stick
<1>6. Apart(dst) /\ OpenLies /\ ~(total > 0) /\ ~(total' > 0)
  BY <1>1, <1>2 DEF Laid, OpenClaim
<1>7. Shut'
  BY <1>6 DEF Shut
<1>8. err' # "none" \/ ~open' => OpenClaim'
  BY <1>6 DEF OpenClaim
<1>9. at \in Nat /\ at \in Int /\ member.body <= at /\ at + 16 \in Nat /\ pos <= at + 16
      /\ at = member.body + csize
  <2> HIDE DEF csize
  <2> QED
    BY <1>3, <1>4
<1>10. /\ Sound(r) /\ r.name = member.name /\ r.crc = content /\ r.mode = member.mode
       /\ r.mtime = member.mtime /\ r.hdr = pos /\ r.method = member.method /\ r.csize = csize
  <2>1. member.method \in Methods /\ PathSafe(member.name)
    BY <1>3, <1>6 DEF Methods, OpenLies
  <2> HIDE DEF content, csize
  <2> QED
    BY <1>3, <1>4, <2>1, RecordSound
<1>11. (\E S : packed \in Seq(S)) /\ InLine(packed, member.body) /\ Ends(packed, at)
  <2>1. CASE member.method = "DEFLATE"
    <3> DEFINE p == Packed(member.body, csize, "DEFLATE", content)
    <3>1. packed = <<p>>
      BY <2>1
    <3>2. Placed(p) /\ p.at >= member.body /\ End(p) <= at
      <4> HIDE DEF csize, content
      <4> QED
        BY <1>3, <1>4, <1>9, <2>1 DEF Placed, Packed, End
    <3> HIDE DEF p, packed, at
    <3>3. <<p>> \in Seq({p}) /\ InLine(<<p>>, member.body) /\ Ends(<<p>>, at)
      BY <3>2, OneInLine, OneEnds
    <3> QED
      BY <3>1, <3>3
  <2>2. CASE member.method # "DEFLATE"
    <3>1. packed = <<>>
      BY <2>2
    <3> HIDE DEF packed, at
    <3> QED
      BY <3>1, NoneInLine, NoneEnds
  <2> QED
    BY <2>1, <2>2
<1>12. member.method = "DEFLATE" => Payload(r, member.body) = packed
  <2> HIDE DEF csize, content, r
  <2> QED
    BY <1>10 DEF Payload
<1>13. member.method = "STORE" => packed = <<>> /\ Payload(r, member.body) = Plain(member.body, content)
  <2> HIDE DEF csize, content, r
  <2> QED
    BY <1>10 DEF Payload
<1>14. Placed(tail) /\ tail.at = at
  <2> HIDE DEF at
  <2> QED
    BY <1>9 DEF Placed, Descriptor
<1> HIDE DEF content, csize, at, packed, size, r, tail
<1>15. ASSUME Apart(dst'), Stays(dst, dst', member.body), err' = "BUFFER_TOO_SMALL",
              UNCHANGED <<pos, recs, accepted>>
       PROVE  LayInv'
  <2>1. pos <= member.body
    BY <1>3
  <2>2. Stays(dst, dst', pos)
    BY <1>3, <1>6, <1>15, <2>1, StaysBelow
  <2>3. Kept' /\ ReaderSees' /\ FromTheStart'
    BY <1>1, <1>2, <1>15, <2>2, NoneTaken
  <2> QED
    BY <1>7, <1>8, <1>15, <2>3 DEF LayInv, Laid
<1>16. CASE (\E upto : dst' = Wipe(dst, member.body, upto)) /\ err' = "BUFFER_TOO_SMALL"
            /\ UNCHANGED <<pos, recs, accepted>>
  <2>1. Apart(dst') /\ Stays(dst, dst', member.body)
    BY <1>3, <1>6, <1>16, WipeApart
  <2> QED
    BY <1>15, <1>16, <2>1
<1>17. CASE dst' = PutAll(dst, packed) /\ err' = "BUFFER_TOO_SMALL"
            /\ UNCHANGED <<pos, recs, accepted>>
  <2>1. Apart(dst') /\ Stays(dst, dst', member.body)
    BY <1>3, <1>6, <1>11, <1>17, PutAllApart
  <2> QED
    BY <1>15, <1>17, <2>1
<1>18. CASE /\ dst' = PutAll(dst, packed \o <<tail>>)
            /\ Record(r) /\ pos' = (IF err' = "none" THEN at + 16 ELSE pos)
            /\ open' = (err' # "none") /\ Accept(member, content, size)
  <2>1. <<tail>> \in Seq({tail}) /\ InLine(<<tail>>, at)
    BY <1>9, <1>14, OneInLine
  <2>2. PICK S : packed \in Seq(S)
    BY <1>11
  <2>3. /\ packed \o <<tail>> \in Seq(S \cup {tail}) /\ InLine(packed \o <<tail>>, member.body)
        /\ \A d : Lie(d, packed \o <<tail>>) => Lie(d, packed) /\ Lie(d, <<tail>>)
    BY <1>3, <1>9, <1>11, <2>1, <2>2, LinesTogether
  <2>4. Apart(dst') /\ Stays(dst, dst', member.body) /\ Lie(dst', packed)
    BY <1>3, <1>6, <1>18, <2>3, PutAllApart
  <2>5. pos <= member.body
    BY <1>3
  <2>6. Stays(dst, dst', pos)
    BY <1>3, <1>6, <2>4, <2>5, StaysBelow
  <2>7. Lie(dst', Payload(r, member.body))
    <3>1. CASE member.method = "DEFLATE"
      BY <1>12, <2>4, <3>1
    <3>2. CASE member.method = "STORE"
      <4>1. packed \o <<tail>> = <<tail>>
        BY <1>13, <2>1, <3>2
      <4>2. Stays(dst, dst', at)
        BY <1>6, <1>9, <1>18, <2>1, <4>1, PutAllApart
      <4>3. Lie(dst, Plain(member.body, content)) /\ at = member.body + Length(content)
        BY <1>4, <1>6, <1>9, <3>2 DEF OpenLies, content
      <4>4. Lie(dst', Plain(member.body, content))
        BY <1>3, <4>2, <4>3, PlainStays
      <4> QED
        BY <1>13, <3>2, <4>4
    <3> QED
      BY <1>3, <3>1, <3>2
  <2>8. PICK h \in dst : h = LocalHeader(pos, member.body - pos)
    BY <1>6 DEF OpenLies
  <2>9. End(h) = member.body /\ h.size = member.body - pos
    BY <1>3, <2>8 DEF End, LocalHeader
  <2>10. h \in dst'
    BY <1>3, <2>4, <2>9 DEF Stays
  <2>11. h = LocalHeader(r.hdr, h.size) /\ h.size >= 30
    BY <1>3, <1>10, <2>8, <2>9
  <2>12. End(h) + r.csize <= at + 16
    BY <1>9, <1>10, <2>9
  <2>13. Stored(dst', r, at + 16)
    BY <2>7, <2>9, <2>10, <2>11, <2>12 DEF Stored
  <2>14. Kept' /\ ReaderSees' /\ FromTheStart'
    BY <1>1, <1>2, <1>9, <1>10, <1>18, <2>4, <2>6, <2>13, OneTaken
  <2> QED
    BY <1>7, <1>8, <1>18, <2>4, <2>14 DEF LayInv, Laid
<1> QED
  BY <1>5, <1>16, <1>17, <1>18

\* The first pieces of a line are in line.
LEMMA FirstInLine ==
    ASSUME NEW S, NEW ps \in Seq(S), NEW lo, InLine(ps, lo)
    PROVE  FirstThatFit(ps) \in Seq(S) /\ InLine(FirstThatFit(ps), lo)
<1> DEFINE T == {n \in 0 .. Len(ps) : \A k \in 1 .. n : End(ps[k]) <= cap}
<1>1. Len(ps) \in Nat /\ T \subseteq Int /\ 0 \in T
  OBVIOUS
<1>2. IsUpperBound(Len(ps), T)
  BY <1>1 DEF IsUpperBound
<1>3. Max(T) \in T
  <2> HIDE DEF T
  <2> QED
    BY <1>1, <1>2, GreatestElement
<1>4. FirstThatFit(ps) = SubSeq(ps, 1, Max(T))
  BY DEF FirstThatFit
<1>5. PICK n \in 0 .. Len(ps) : n = Max(T)
  BY <1>3
<1>6. SubSeq(ps, 1, n) \in Seq(S) /\ Len(SubSeq(ps, 1, n)) = n
      /\ \A k \in 1 .. n : SubSeq(ps, 1, n)[k] = ps[k]
  BY <1>1, SubSeqProperties
<1>7. \A k \in 1 .. n : k \in 1 .. Len(ps)
  BY <1>1
<1> QED
  BY <1>4, <1>5, <1>6, <1>7 DEF InLine

\* A finish writes the directory behind the members, in whole or in part.
LEMMA FinishLies ==
    ASSUME RoomInv, RoomInv', LayInv, Finish
    PROVE  LayInv'
<1> DEFINE dir   == Directory(pos, recs)
           from  == DirectoryEnd(pos, recs)
           after == Trailer(from, Len(recs), pos)
           last  == End(after[Len(after)])
<1>1. ~tampered /\ UNCHANGED <<pos, recs, accepted, reader, tampered>>
  BY DEF Finish, Calling, history, consumer
<1>2. Laid /\ Books /\ Books'
  BY <1>1 DEF LayInv, RoomInv
<1>3. CASE open
  <2>1. ~open' /\ UNCHANGED <<dst, total>>
    BY <1>3 DEF Finish, DropOpen, AbandonMember
  <2> QED
    BY <1>1, <2>1, OthersLie
<1>4. CASE ~open
  <2>1. \/ total' = last /\ dst' = PutAll(dst, dir \o after)
        \/ total' = 0 /\ dst' = PutAll(dst, FirstThatFit(dir))
    BY <1>4 DEF Finish
  <2>2. open' = open
    BY <1>4 DEF Finish, stream
  <2>3. OpenClaim'
    BY <1>4, <2>2 DEF OpenClaim
  <2>4. Named(recs) /\ pos \in Nat /\ pos \in Int /\ Apart(dst)
    BY <1>2, DirectoryBound DEF Books, BooksType, Laid
  <2>5. \E S : dir \in Seq(S)
    BY <2>4, DirectoryPieces
  <2>6. InLine(dir, pos) /\ Ends(dir, from)
    BY <2>4, DirectoryInLine
  <2>7. from \in Nat /\ from \in Int /\ pos <= from
    BY <2>4, SizesType, SumType DEF DirectoryEnd
  <2>8. InLine(after, from) /\ \E S : after \in Seq(S)
    <3> HIDE DEF from
    <3> QED
      BY <2>7, TrailerInLine, TrailerEnds
  <2>9. PICK S : dir \in Seq(S)
    BY <2>5
  <2>10. PICK T : after \in Seq(T)
    BY <2>8
  <2>11. FirstThatFit(dir) \in Seq(S) /\ InLine(FirstThatFit(dir), pos)
    <3> HIDE DEF dir
    <3> QED
      BY <2>6, <2>9, FirstInLine
  <2>12. Apart(dst') /\ Stays(dst, dst', pos) /\ Shut'
    <3>1. CASE total' = last /\ dst' = PutAll(dst, dir \o after)
      <4> HIDE DEF dir, from, after, last
      <4>1. /\ dir \o after \in Seq(S \cup T) /\ InLine(dir \o after, pos)
            /\ \A d : Lie(d, dir \o after) => Lie(d, dir) /\ Lie(d, after)
        BY <2>4, <2>6, <2>7, <2>8, <2>9, <2>10, LinesTogether
      <4>2. /\ Apart(dst') /\ Stays(dst, dst', pos) /\ Lie(dst', dir \o after)
        BY <2>4, <3>1, <4>1, PutAllApart
      <4>3. Lie(dst', dir) /\ Lie(dst', after)
        BY <4>1, <4>2
      <4>4. Closed'
        BY <1>1, <3>1, <4>3 DEF Closed, dir, from, after, last
      <4> QED
        BY <4>2, <4>4 DEF Shut
    <3>2. CASE total' = 0 /\ dst' = PutAll(dst, FirstThatFit(dir))
      <4> HIDE DEF dir
      <4>1. Apart(dst') /\ Stays(dst, dst', pos)
        BY <2>4, <2>11, <3>2, PutAllApart
      <4> QED
        BY <3>2, <4>1 DEF Shut
    <3> QED
      BY <2>1, <3>1, <3>2
  <2>13. Kept' /\ ReaderSees' /\ FromTheStart'
    BY <1>1, <1>2, <2>12, NoneTaken
  <2> QED
    BY <2>3, <2>12, <2>13 DEF LayInv, Laid
<1> QED
  BY <1>3, <1>4

\* What a finish closed, zip_open finds in whole.
LEMMA ClosedIsFound ==
    ASSUME Books, Laid, Closed, ~AtSentinel
    PROVE  /\ total \in Nat /\ \A k \in 1 .. Len(recs) : Stored(dst, recs[k], total)
           /\ Open(dst, total) =
                [err |-> "none", entries |-> [k \in 1 .. Len(recs) |-> EntryOf(recs[k])]]
<1> DEFINE from  == DirectoryEnd(pos, recs)
           after == Trailer(from, Len(recs), pos)
<1>1. recs \in Seq(Records) /\ pos \in Nat /\ Named(recs) /\ Apart(dst)
  BY DirectoryBound DEF Books, BooksType, Laid
<1>2. DOMAIN recs = 1 .. Len(recs) /\ \A k \in 1 .. Len(recs) : recs[k] \in Records
  BY <1>1
<1>3. from \in Nat /\ pos <= from
  BY <1>1, SizesType, SumType DEF DirectoryEnd
<1>4. total = End(after[Len(after)]) /\ Lie(dst, Directory(pos, recs)) /\ Lie(dst, after)
  BY DEF Closed
<1>5. total \in Nat /\ from <= total
  <2> HIDE DEF from
  <2>1. LET a == Trailer(from, Len(recs), pos)
        IN  from <= End(a[Len(a)]) /\ End(a[Len(a)]) \in Nat
    BY <1>3, TrailerEnds
  <2> QED
    BY <1>4, <2>1
<1>6. ASSUME NEW k \in 1 .. Len(recs)
      PROVE  NoSentinel(recs[k]) /\ recs[k].hdr + 30 <= pos /\ Stored(dst, recs[k], total)
  <2>1. Sound(recs[k]) /\ Stored(dst, recs[k], pos)
    BY DEF Laid, Kept
  <2>2. PICK p \in dst : /\ p.size \in Nat /\ p.size >= 30 /\ End(p) = recs[k].hdr + p.size
                         /\ End(p) + recs[k].csize <= pos /\ recs[k].hdr \in Nat
                         /\ recs[k].csize \in Nat
    BY <1>1, <2>1, StoredKnown
  <2>3. recs[k].hdr + 30 <= pos
    BY <1>1, <2>2
  <2>4. Stored(dst, recs[k], total)
    <3>1. pos \in Int /\ total \in Int /\ pos <= total
      BY <1>1, <1>3, <1>5
    <3> QED
      BY <1>1, <2>1, <3>1, StoredWithin
  <2>5. NoSentinel(recs[k])
    BY <1>2 DEF AtSentinel, NoSentinel
  <2> QED
    BY <2>3, <2>4, <2>5
<1>7. recs = <<>> => pos = 0
  BY DEF Laid, FromTheStart
<1>8. Open(dst, total) =
        [err |-> "none", entries |-> [k \in 1 .. Len(recs) |-> EntryOf(recs[k])]]
  BY <1>1, <1>2, <1>4, <1>6, <1>7, OpenFinds
<1> QED
  BY <1>5, <1>6, <1>8

\* So a consumer that opens it knows the members that were taken.
LEMMA OpenReads ==
    ASSUME RoomInv, LayInv, OpenArchive
    PROVE  LayInv'
<1>1. UNCHANGED <<dst, pos, recs, accepted, total, open, member, err, tampered>> /\ total > 0
  BY DEF OpenArchive, writer, history, stream
<1>2. CASE tampered
  BY <1>1, <1>2 DEF LayInv
<1>3. CASE ~tampered
  <2>1. Laid /\ Books
    BY <1>3 DEF LayInv, RoomInv
  <2>2. Apart(dst') /\ Kept' /\ FromTheStart' /\ OpenClaim' /\ Shut'
    BY <1>1, <2>1 DEF Laid, Kept, FromTheStart, OpenClaim, OpenLies, Shut, Closed
  <2>3. PICK index \in {Open(dst, total), Failed("OOM")} :
           reader' = [err |-> index.err, entries |-> index.entries, len |-> total,
                      given |-> accepted]
    BY DEF OpenArchive
  <2>4. ReaderSees'
    <3>1. CASE index = Failed("OOM")
      <4>1. reader'.err = "OOM"
        BY <2>3, <3>1 DEF Failed
      <4> QED
        BY <4>1 DEF ReaderSees
    <3>2. CASE AtSentinel
      BY <1>1, <3>2 DEF ReaderSees, AtSentinel
    <3>3. CASE index = Open(dst, total) /\ ~AtSentinel
      <4> DEFINE all == [k \in 1 .. Len(recs) |-> EntryOf(recs[k])]
      <4>1. /\ total \in Nat /\ \A k \in 1 .. Len(recs) : Stored(dst, recs[k], total)
            /\ index = [err |-> "none", entries |-> all]
        BY <1>1, <2>1, <3>3, ClosedIsFound DEF Laid, Shut
      <4>2. /\ reader'.err = "none" /\ reader'.entries = all
            /\ reader'.len = total /\ reader'.given = accepted
        <5> HIDE DEF all
        <5> QED
          BY <2>3, <4>1
      <4>3. accepted = [k \in 1 .. Len(recs) |-> accepted[k]] /\ Len(recs) \in Nat
        BY <2>1 DEF Books, BooksType, Matching
      <4>4. Len(recs) \in 0 .. Len(recs)
        BY <4>3
      <4>5. Seen(Len(recs))'
        BY <1>1, <4>1, <4>2, <4>3 DEF Seen
      <4> QED
        BY <1>1, <4>1, <4>2, <4>4, <4>5 DEF ReaderSees
    <3> QED
      BY <3>1, <3>2, <3>3
  <2> QED
    BY <2>2, <2>4 DEF LayInv, Laid
<1> QED
  BY <1>2, <1>3

\* So every step keeps the layout.
LEMMA LayStep == RoomInv /\ LayInv /\ [Next]_vars => LayInv'
<1> SUFFICES ASSUME RoomInv, LayInv, [Next]_vars
             PROVE  LayInv'
  OBVIOUS
<1>1. RoomInv'
  BY RoomStep
<1>2. CASE \E m \in Members, method \in {"STORE", "DEFLATE"} \cup OtherCodecs : Add(m, method)
  BY <1>1, <1>2, AddLies DEF Methods
<1>3. CASE \E m \in Members, method \in {"STORE", "DEFLATE"} : Begin(m, method)
  BY <1>1, <1>3, BeginLies
<1>4. CASE \E chunk \in DOMAIN Size : EncWrite(chunk)
  BY <1>1, <1>4, WriteLies
<1>5. CASE EncEnd
  BY <1>1, <1>5, EndLies
<1>6. CASE EncEndFailed
  <2>1. UNCHANGED <<dst, pos, recs, accepted, total, reader, tampered>> /\ ~open'
    BY <1>6 DEF EncEndFailed, AbandonMember, history, consumer
  <2> QED
    BY <2>1, OthersLie
<1>7. CASE Finish
  BY <1>1, <1>7, FinishLies
<1>8. CASE \/ \E m \in Members : Refuse(m)
           \/ EncNothingOpen \/ FinishFailed \/ UNCHANGED vars
  <2>1. UNCHANGED vars
    BY <1>8 DEF Refuse, EncNothingOpen, FinishFailed
  <2> QED
    BY <2>1, OthersLie DEF vars, writer, history, consumer, stream
<1>9. CASE Tamper
  BY <1>9 DEF Tamper, LayInv
<1>10. CASE OpenArchive
  BY <1>10, OpenReads
<1>11. CASE \E i \in DOMAIN reader.entries, ask \in Asks : Unpack(i, ask)
  <2>1. UNCHANGED <<writer, history, tampered, reader>>
    BY <1>11 DEF Unpack
  <2> QED
    BY <2>1, OthersLie DEF writer, history, stream
<1> QED
  BY <1>2, <1>3, <1>4, <1>5, <1>6, <1>7, <1>8, <1>9, <1>10, <1>11 DEF Next

\* What the invariant says of a reader is what it was to find.
LEMMA LaidReadsBack == RoomInv /\ LayInv => ReadsBack
<1> SUFFICES ASSUME RoomInv, LayInv, reader.err \notin {"closed", "OOM"}, ~tampered, ~AtSentinel
             PROVE  /\ reader.err = "none" /\ Len(reader.entries) = Len(reader.given)
                    /\ \A i \in DOMAIN reader.given :
                          LET g == reader.given[i]
                              e == reader.entries[i]
                              x == Extract(dst, reader.len, reader.entries, i,
                                           Length(g.content), 0, LeanMethods \cup OtherCodecs)
                          IN  /\ e.name = g.name /\ e.mode = g.mode
                              /\ e.mtime = KeptTime(g.mtime) \/ Day(g.mtime) >= StampDays
                              /\ \/ x.err = "none" /\ x.content = g.content
                                 \/ /\ x.err = "UNSAFE_PATH"
                                    /\ \E k \in DOMAIN reader.given :
                                          reader.given[k].mode = "link"
                                 \/ /\ x.err = "OUTPUT_LIMIT"
                                    /\ Length(g.content) > MaxOutput /\ e.method \notin Unlimited
  BY Zenon DEF ReadsBack
<1>1. Laid
  BY DEF LayInv
<1>2. Apart(dst) /\ Kept /\ reader.err = "none" /\ reader.len \in Nat
      /\ \E n \in 0 .. Len(recs) : Seen(n)
  BY <1>1 DEF Laid, ReaderSees
<1>3. PICK n \in 0 .. Len(recs) : Seen(n)
  BY <1>2
<1>4. recs \in Seq(Records) /\ Len(recs) \in Nat
  BY DEF RoomInv, Books, BooksType
<1>5. n \in Nat /\ \A k \in 1 .. n : k \in 1 .. Len(recs)
  BY <1>4
<1>6. /\ reader.entries = [k \in 1 .. n |-> EntryOf(recs[k])]
      /\ reader.given = [k \in 1 .. n |-> accepted[k]]
      /\ \A k \in 1 .. n : Stored(dst, recs[k], reader.len)
  BY <1>3 DEF Seen
<1>7. Len(reader.entries) = n /\ Len(reader.given) = n
      /\ DOMAIN reader.entries = 1 .. n /\ DOMAIN reader.given = 1 .. n
  BY <1>5, <1>6
<1>8. ASSUME NEW k \in 1 .. n
      PROVE  /\ reader.entries[k] = EntryOf(recs[k]) /\ reader.given[k] = accepted[k]
             /\ Lists(recs[k], accepted[k]) /\ Sound(recs[k])
             /\ Stored(dst, recs[k], reader.len)
  BY <1>2, <1>5, <1>6 DEF Kept
<1>9. ASSUME NEW i \in 1 .. n
      PROVE  LET g == reader.given[i]
                 e == reader.entries[i]
                 x == Extract(dst, reader.len, reader.entries, i,
                              Length(g.content), 0, LeanMethods \cup OtherCodecs)
             IN  /\ e.name = g.name /\ e.mode = g.mode
                 /\ e.mtime = KeptTime(g.mtime) \/ Day(g.mtime) >= StampDays
                 /\ \/ x.err = "none" /\ x.content = g.content
                    \/ /\ x.err = "UNSAFE_PATH"
                       /\ \E k \in DOMAIN reader.given : reader.given[k].mode = "link"
                    \/ /\ x.err = "OUTPUT_LIMIT"
                       /\ Length(g.content) > MaxOutput /\ e.method \notin Unlimited
  <2> DEFINE g == reader.given[i]
             e == reader.entries[i]
             x == Extract(dst, reader.len, reader.entries, i,
                          Length(g.content), 0, LeanMethods \cup OtherCodecs)
  <2>1. PICK r : r = recs[i]
    OBVIOUS
  <2>2. /\ e = EntryOf(r) /\ Sound(r) /\ Stored(dst, r, reader.len)
        /\ r.name = g.name /\ r.crc = g.content /\ r.mode = g.mode /\ r.mtime = g.mtime
    BY <1>8, <2>1 DEF Lists
  <2>3. e.name = g.name /\ e.mode = g.mode /\ e.mtime = DosToUnix(UnixToDos(g.mtime))
    <3> HIDE DEF e, g
    <3> QED
      BY <2>2 DEF EntryOf
  <2>4. e.mtime = KeptTime(g.mtime) \/ Day(g.mtime) >= StampDays
    <3> HIDE DEF e, g
    <3>1. g.mtime \in Int
      <4>1. r.mtime \in Times
        BY <2>2 DEF Sound, Records
      <4> QED
        BY <2>2, <4>1, ZipAssumption DEF Times
    <3>2. Day(g.mtime) < StampDays => DosToUnix(UnixToDos(g.mtime)) = KeptTime(g.mtime)
      BY <3>1, StampsKeep
    <3>3. Day(g.mtime) < StampDays \/ Day(g.mtime) >= StampDays
      BY <3>1, SMT DEF Day, StampDays
    <3> QED
      BY <2>3, <3>2, <3>3, Zenon
  <2>5. \/ x.err = "none" /\ x.content = g.content
        \/ x.err = "UNSAFE_PATH" /\ \E k \in DOMAIN reader.entries : reader.entries[k].mode = "link"
        \/ x.err = "OUTPUT_LIMIT" /\ Length(g.content) > MaxOutput /\ e.method \notin Unlimited
    <3>1. PICK d, len, entries : d = dst /\ len = reader.len /\ entries = reader.entries
      OBVIOUS
    <3>2. Apart(d) /\ len \in Nat /\ Sound(r) /\ Stored(d, r, len) /\ entries[i] = EntryOf(r)
      BY <1>2, <2>2, <3>1
    <3>3. Gives(d, len, entries, i, r)
      BY <3>2, ExtractGives
    <3>4. r.crc = g.content /\ e.method = r.method
      <4>1. EntryOf(r).method = r.method
        BY DEF EntryOf
      <4> QED
        BY <2>2, <4>1
    <3> HIDE DEF g
    <3> QED
      BY <3>1, <3>3, <3>4 DEF Gives
  <2>6. ASSUME NEW k \in DOMAIN reader.entries, reader.entries[k].mode = "link"
        PROVE  k \in DOMAIN reader.given /\ reader.given[k].mode = "link"
    <3>1. k \in 1 .. n
      BY <1>7
    <3>2. reader.entries[k] = EntryOf(recs[k]) /\ reader.given[k] = accepted[k]
          /\ recs[k].mode = accepted[k].mode
      BY <1>8, <3>1 DEF Lists
    <3>3. EntryOf(recs[k]).mode = recs[k].mode
      BY DEF EntryOf
    <3> QED
      BY <1>7, <2>6, <3>1, <3>2, <3>3
  <2> QED
    BY <2>3, <2>4, <2>5, <2>6
<1> QED
  BY <1>2, <1>7, <1>9

\* Whatever calls failed or were refused in between, and whatever is added to
\* the buffer behind a finished archive, zip_open finds the members whose call
\* returned 0, with name, mode and time, and each one's content is extracted
\* unless the name leads over a link of the archive.
THEOREM WhatIsWrittenIsRead == Spec => []ReadsBack
<1>1. RoomInv /\ LayInv /\ [Next]_vars => (RoomInv /\ LayInv)'
  BY RoomStep, LayStep
<1>2. Init => RoomInv /\ LayInv
  BY RoomAtFirst, LaidAtFirst
<1> QED
  BY <1>1, <1>2, LaidReadsBack, PTL DEF Spec
=============================================================================
