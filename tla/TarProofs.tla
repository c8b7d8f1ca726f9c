------------------------------ MODULE TarProofs ------------------------------
(***************************************************************************)
(* The cursor of Tar never returns an entry that goes through a link it    *)
(* returned before: for any archive, any allocations that fail, any number *)
(* of calls behind errors or the end, and any hash.  And the entries that  *)
(* it returns are those of the archive, each with its own names and sizes, *)
(* as long as no PAX value was lost for want of memory.                    *)
(***************************************************************************)
EXTENDS Tar, Lemmas, TLAPS

-----------------------------------------------------------------------------
(* The reading that Meaning makes, stage by stage: walk[n] is what it has  *)
(* after n blocks.  The archive does not change, and so neither do they.   *)

Walk ==
    LET start == [next |-> 0, heads |-> <<>>, entries |-> <<>>, done |-> FALSE]
        walk[n \in Nat] ==
            IF n = 0 THEN start ELSE CHOOSE x \in {Onward(w) : w \in {walk[n - 1]}} : TRUE
    IN  walk

LEMMA WalkFrozen ==
    ASSUME archive' = archive PROVE Walk' = Walk /\ Meaning' = Meaning
<1>1. Walk' = Walk
  BY SMTT(60) DEF BlockAt, UnitAt, Run, Walk, Onward, Entered, Takes, EntryOf, Said, Named,
                  Counting, Records, LongName, Stopped, Past, Sound
<1>2. Meaning' = Meaning
  BY SMTT(60) DEF BlockAt, UnitAt, Run, Meaning, Onward, Entered, Takes, EntryOf, Said, Named,
                  Counting, Records, LongName, Stopped, Past, Sound
<1> QED
  BY <1>1, <1>2

-----------------------------------------------------------------------------
(* The inductive invariant: the ledger knows every link that was returned. *)
(* That is what an entry is tested against, while the property is about    *)
(* the entries themselves.                                                 *)

LedgerKnows ==
    \A i \in DOMAIN emitted :
        emitted[i].kind = "link" => Key[Canonical(emitted[i].path)] \in ledger.keys

EmittedSeq == \E S : emitted \in Seq(S)

LinkInv == EmittedSeq /\ LedgerKnows /\ NothingThroughALink

LEMMA InitHolds == Init => LinkInv
BY DEF Init, LinkInv, EmittedSeq, LedgerKnows, NothingThroughALink

\* A step that returns no entry leaves the ledger alone.
LEMMA NothingReturned ==
    ASSUME LinkInv, emitted' = emitted, ledger' = ledger
    PROVE  LinkInv'
BY DEF LinkInv, EmittedSeq, LedgerKnows, NothingThroughALink

\* An entry that crosses no link of the ledger is behind no link that was
\* returned, whatever the hash.
LEMMA Clear ==
    ASSUME LinkInv, NEW kind, NEW path, ~Crosses(ledger.keys, kind, path),
           NEW i \in DOMAIN emitted, emitted[i].kind = "link"
    PROVE  /\ Canonical(emitted[i].path) \notin Above(path)
           /\ kind # "link" => Canonical(path) # Canonical(emitted[i].path)
BY DEF LinkInv, LedgerKnows, Crosses

\* One entry more.
LEMMA OneMore ==
    ASSUME LinkInv, NEW e, ~Crosses(ledger.keys, e.kind, e.path),
           emitted' = Append(emitted, e),
           ledger.keys \subseteq ledger'.keys,
           e.kind = "link" => Key[Canonical(e.path)] \in ledger'.keys
    PROVE  LinkInv'
<1> DEFINE n == Len(emitted)
<1>1. PICK S : emitted \in Seq(S)
  BY DEF LinkInv, EmittedSeq
<1>2. emitted \in Seq(S \cup {e}) /\ e \in S \cup {e}
  BY <1>1
<1>3. /\ n \in Nat /\ DOMAIN emitted = 1 .. n
      /\ emitted' \in Seq(S \cup {e}) /\ DOMAIN emitted' = 1 .. n + 1
      /\ \A i \in 1 .. n : emitted'[i] = emitted[i]
      /\ emitted'[n + 1] = e
  BY <1>2
<1> HIDE DEF n
<1>4. LedgerKnows'
  <2> SUFFICES ASSUME NEW i \in 1 .. n + 1, emitted'[i].kind = "link"
               PROVE  Key[Canonical(emitted'[i].path)] \in ledger'.keys
    BY <1>3 DEF LedgerKnows
  <2>1. CASE i = n + 1
    BY <1>3, <2>1
  <2>2. CASE i \in 1 .. n
    BY <1>3, <2>2 DEF LinkInv, LedgerKnows
  <2> QED
    BY <1>3, <2>1, <2>2
<1>5. NothingThroughALink'
  <2> SUFFICES ASSUME NEW i \in 1 .. n + 1, NEW j \in 1 .. n + 1, i < j,
                      emitted'[i].kind = "link"
               PROVE  /\ Canonical(emitted'[i].path) \notin Above(emitted'[j].path)
                      /\ emitted'[j].kind # "link" =>
                            Canonical(emitted'[j].path) # Canonical(emitted'[i].path)
    BY <1>3 DEF NothingThroughALink
  <2>1. i \in 1 .. n /\ emitted'[i] = emitted[i]
    BY <1>3
  <2>2. CASE j = n + 1
    BY <1>3, <2>1, <2>2, Clear
  <2>3. CASE j \in 1 .. n
    BY <1>3, <2>1, <2>3 DEF LinkInv, NothingThroughALink
  <2> QED
    BY <1>3, <2>2, <2>3
<1> QED
  BY <1>3, <1>4, <1>5 DEF LinkInv, EmittedSeq

-----------------------------------------------------------------------------
(* The two actions that return an entry.                                   *)

LEMMA PlainKeeps == LinkInv /\ EmitPlain => LinkInv'
<1> SUFFICES ASSUME LinkInv, EmitPlain PROVE LinkInv'
  OBVIOUS
<1>1. PICK e : e.kind = Kind /\ e.path = Path /\ emitted' = Append(emitted, e)
  <2> DEFINE size == IF Kind = "file" THEN Size ELSE 0
             new  == [kind |-> Kind, path |-> Path, size |-> size, link |-> <<"">>,
                      data |-> IF Kind = "file" THEN at + Block ELSE 0]
  <2>1. emitted' = Append(emitted, new)
    BY DEF EmitPlain, Emit
  <2>2. new.kind = Kind /\ new.path = Path
    OBVIOUS
  <2> HIDE DEF new
  <2> QED
    BY <2>1, <2>2
<1>2. Kind # "link" /\ ~Crosses(ledger.keys, Kind, Path) /\ ledger' = ledger
  BY DEF EmitPlain, Accepted, PathRefusal
<1> QED
  BY <1>1, <1>2, OneMore

LEMMA LinkKeeps == LinkInv /\ EmitLink => LinkInv'
<1> SUFFICES ASSUME LinkInv, EmitLink PROVE LinkInv'
  OBVIOUS
<1>1. PICK e : e.kind = "link" /\ e.path = Path /\ emitted' = Append(emitted, e)
  BY DEF EmitLink, Emit
<1>2. Kind = "link" /\ ~Crosses(ledger.keys, Kind, Path)
  BY DEF EmitLink, LinkAhead, Accepted, PathRefusal
<1>3. ledger'.keys = ledger.keys \cup {Key[Canonical(Path)]}
  BY DEF EmitLink, Remembered
<1> QED
  BY <1>1, <1>2, <1>3, OneMore

-----------------------------------------------------------------------------
(* The theorem.                                                            *)

LEMMA StepKeeps == LinkInv /\ [Next]_vars => LinkInv'
<1> SUFFICES ASSUME LinkInv, [Next]_vars PROVE LinkInv'
  OBVIOUS
<1>1. CASE Open \/ Decode \/ Call \/ RunOut \/ SkipZeros
  BY <1>1, NothingReturned DEF Open, Decode, Cursor, Call, RunOut, SkipZeros, history
<1>2. CASE BadHeader \/ TooShort \/ RefusePath \/ NoPath \/ RefuseEntry \/ NoLedger
  BY <1>2, NothingReturned DEF BadHeader, TooShort, RefusePath, NoPath, RefuseEntry, NoLedger, Fail
<1>3. CASE Extended \/ LongNamed \/ NoLink
  BY <1>3, NothingReturned DEF Extended, LongNamed, NoLink, Fail, history
<1>4. CASE EmitPlain
  BY <1>4, PlainKeeps
<1>5. CASE EmitLink
  BY <1>5, LinkKeeps
<1>6. CASE UNCHANGED vars
  BY <1>6, NothingReturned DEF vars, history
<1> QED
  BY <1>1, <1>2, <1>3, <1>4, <1>5, <1>6 DEF Next

\* NothingThroughALink, of every behaviour.
THEOREM NeverThroughALink == Spec => []NothingThroughALink
<1>1. LinkInv => NothingThroughALink
  BY DEF LinkInv
<1> QED
  BY InitHolds, StepKeeps, <1>1, PTL DEF Spec


-----------------------------------------------------------------------------
(* Blocks and the units in them.                                           *)

LEMMA Constants ==
    /\ Block \in Nat \ {0} /\ MinCap \in Nat \ {0} /\ Ceiling \in Nat \ {0}
    /\ \A x \in Archives :
          /\ x.blocks \in Seq(DOMAIN Content) /\ Len(x.blocks) \in Nat
          /\ x.len \in Nat /\ x.len <= Block * Len(x.blocks)
          /\ x.packed \in Nat /\ x.hint \in Nat
    /\ \A b \in DOMAIN Content :
          /\ Content[b].size \in Int
          /\ Content[b].units \in Seq(Range(Content[b].units))
          /\ \A u \in Range(Content[b].units) : u.size \in Nat
<1>1. {Block, MinCap, Ceiling, LedgerInit} \subseteq Nat \ {0}
  BY TarAssumption
<1>2. ASSUME NEW x \in Archives
      PROVE  /\ x.blocks \in Seq(DOMAIN Content) /\ Len(x.blocks) \in Nat
             /\ x.len \in Nat /\ x.len <= Block * Len(x.blocks)
             /\ x.packed \in Nat /\ x.hint \in Nat
  <2>1. /\ x.blocks \in Seq(DOMAIN Content) /\ x.len \in 0 .. Block * Len(x.blocks)
        /\ {x.packed, x.hint} \subseteq Nat
    BY TarAssumption
  <2>2. PICK m : m = Block * Len(x.blocks)
    OBVIOUS
  <2>3. x.len \in 0 .. m /\ Len(x.blocks) \in Nat
    BY <2>1, <2>2
  <2>4. m \in Int
    BY <1>1, <2>2, <2>3
  <2> QED
    BY <2>1, <2>2, <2>3, <2>4
<1> QED
  BY <1>1, <1>2, TarAssumption

\* The block in which unit u is.
LEMMA BlockNumber ==
    ASSUME NEW d \in Nat \ {0}, NEW u \in Nat, NEW m \in Nat, u < d * m
    PROVE  u \div d + 1 \in 1 .. m
<1>1. PICK q : q = u \div d
  OBVIOUS
<1>2. q \in Nat /\ q * d <= u
  BY <1>1, Division
<1>3. ASSUME q >= m PROVE FALSE
  <2>1. PICK k \in Nat : q = m + k
    BY <1>2, <1>3
  <2>2. q * d = m * d + k * d
    BY <2>1
  <2>3. k * d \in Nat /\ m * d = d * m /\ m * d \in Nat
    OBVIOUS
  <2> QED
    BY <1>2, <2>2, <2>3
<1> QED
  BY <1>1, <1>2, <1>3

\* A block of the archive is one of those it may be made of.
LEMMA BlockIs ==
    ASSUME archive \in Archives, NEW u \in Nat, u < archive.len
    PROVE  \E b \in DOMAIN Content : BlockAt(u) = Content[b]
<1>1. /\ Block \in Nat \ {0} /\ archive.blocks \in Seq(DOMAIN Content) /\ Len(archive.blocks) \in Nat
      /\ archive.len \in Nat /\ archive.len <= Block * Len(archive.blocks)
  BY Constants
<1>2. PICK m \in Nat : m = Len(archive.blocks)
  BY <1>1
<1>3. u < Block * m
  <2>1. PICK k \in Nat : k = Block * m
    BY <1>1
  <2> QED
    BY <1>1, <1>2, <2>1
<1>4. u \div Block + 1 \in 1 .. m
  BY <1>1, <1>3, BlockNumber
<1>5. archive.blocks[u \div Block + 1] \in DOMAIN Content
  BY <1>1, <1>2, <1>4
<1> QED
  BY <1>5 DEF BlockAt

LEMMA HeaderSize ==
    ASSUME archive \in Archives, NEW p \in Nat, p + Block <= archive.len
    PROVE  BlockAt(p).size \in Int
<1>1. p < archive.len
  BY Constants
<1>2. PICK b \in DOMAIN Content : BlockAt(p) = Content[b]
  BY <1>1, BlockIs
<1> QED
  BY <1>2, Constants

AllUnits == {UnitAt(u) : u \in 0 .. archive.len - 1}

LEMMA UnitSize ==
    ASSUME archive \in Archives, NEW x \in AllUnits
    PROVE  x.size \in Nat
<1>1. PICK u \in Nat : u < archive.len /\ x = UnitAt(u)
  BY Constants DEF AllUnits
<1>2. PICK b \in DOMAIN Content : BlockAt(u) = Content[b]
  BY <1>1, BlockIs
<1>3. PICK units : units = Content[b].units
  OBVIOUS
<1>4. units \in Seq(Range(units)) /\ \A v \in Range(units) : v.size \in Nat
  BY <1>3, Constants
<1>5. x = IF (u % Block) < Len(units) THEN units[(u % Block) + 1] ELSE Nul
  BY <1>1, <1>2, <1>3 DEF UnitAt
<1>6. u % Block \in Nat
  BY Constants
<1>7. CASE (u % Block) < Len(units)
  <2>1. (u % Block) + 1 \in 1 .. Len(units)
    BY <1>4, <1>6, <1>7
  <2>2. units[(u % Block) + 1] \in Range(units)
    BY <1>4, <2>1
  <2> QED
    BY <1>4, <1>5, <1>7, <2>2
<1>8. CASE ~((u % Block) < Len(units))
  BY <1>5, <1>8 DEF Nul
<1> QED
  BY <1>7, <1>8

LEMMA RunIs ==
    ASSUME NEW p \in Nat, NEW size \in Nat, NEW keys
    PROVE  Run(p, size, keys) \in 0 .. size
<1> DEFINE T == {n \in 0 .. size : n < size => UnitAt(p + n).key \notin keys}
<1>1. T \subseteq Nat /\ size \in T
  OBVIOUS
<1>2. PICK m \in T : \A k \in T : m <= k
  <2> HIDE DEF T
  <2> QED
    BY <1>1, LeastElement
<1>3. m \in 0 .. size /\ (m < size => UnitAt(p + m).key \notin keys)
  OBVIOUS
<1>4. \A i \in 0 .. m - 1 : UnitAt(p + i).key \in keys
  <2> SUFFICES ASSUME NEW i \in 0 .. m - 1 PROVE UnitAt(p + i).key \in keys
    OBVIOUS
  <2>1. i \notin T
    BY <1>1, <1>2, <1>3
  <2> QED
    BY <1>3, <2>1
<1> HIDE DEF T
<1>5. \E n \in 0 .. size : /\ \A i \in 0 .. n - 1 : UnitAt(p + i).key \in keys
                           /\ n < size => UnitAt(p + n).key \notin keys
  BY <1>3, <1>4
<1> QED
  BY <1>5 DEF Run

LEMMA RecordsType ==
    ASSUME archive \in Archives, NEW p \in Nat, NEW size \in Nat, p + size <= archive.len
    PROVE  Records(p, size) \in Seq(AllUnits)
<1>1. PICK n \in 0 .. size : n = Run(p, size, {"path", "linkpath", "size", "other"})
  BY RunIs
<1>2. Records(p, size) = [i \in 1 .. n |-> UnitAt(p + i - 1)]
  BY <1>1 DEF Records
<1>3. \A i \in 1 .. n : UnitAt(p + i - 1) \in AllUnits
  <2> SUFFICES ASSUME NEW i \in 1 .. n PROVE UnitAt(p + i - 1) \in AllUnits
    OBVIOUS
  <2>1. p + i - 1 \in 0 .. archive.len - 1
    BY Constants
  <2> QED
    BY <2>1 DEF AllUnits
<1>4. PICK f : f = [i \in 1 .. n |-> UnitAt(p + i - 1)]
  OBVIOUS
<1>5. n \in Nat
  OBVIOUS
<1>6. f \in [1 .. n -> AllUnits]
  BY <1>3, <1>4, Zenon
<1>7. f \in Seq(AllUnits)
  BY <1>5, <1>6, SeqOfFunction
<1> QED
  BY <1>2, <1>4, <1>7

-----------------------------------------------------------------------------
(* The latest record with a key.                                           *)

Speaks(records, key) == \E i \in DOMAIN records : records[i].key = key

LEMMA LatestJoin ==
    ASSUME NEW U, NEW r \in Seq(U), NEW s \in Seq(U), NEW key
    PROVE  LatestOf(r \o s, key) = IF Speaks(s, key) THEN LatestOf(s, key) ELSE LatestOf(r, key)
<1> DEFINE m == Len(r)
           n == Len(s)
           z == r \o s
<1>1. /\ m \in Nat /\ n \in Nat /\ Len(z) = m + n /\ DOMAIN z = 1 .. m + n
      /\ DOMAIN r = 1 .. m /\ DOMAIN s = 1 .. n
      /\ \A i \in 1 .. m : z[i] = r[i]
      /\ \A i \in 1 .. n : z[m + i] = s[i]
  <2>1. z \in Seq(U) /\ Len(z) = m + n
    BY ConcatProperties
  <2> QED
    BY <2>1, ConcatProperties
<1> HIDE DEF m, n, z
<1> DEFINE I(x) == {i \in DOMAIN x : x[i].key = key /\ \A j \in i + 1 .. Len(x) : x[j].key # key}
<1>2. \A x : LatestOf(x, key) = {x[i] : i \in I(x)}
  BY DEF LatestOf
<1>3. CASE Speaks(s, key)
  <2>1. PICK k \in 1 .. n : s[k].key = key
    BY <1>1, <1>3 DEF Speaks
  <2>2. z[m + k].key = key /\ m + k \in 1 .. m + n
    BY <1>1, <2>1
  <2>3. \A i \in I(z) : i > m
    BY <1>1, <2>1, <2>2
  <2>4. \A i \in I(z) : i - m \in I(s) /\ s[i - m] = z[i]
    <3> SUFFICES ASSUME NEW i \in I(z) PROVE i - m \in I(s) /\ s[i - m] = z[i]
      OBVIOUS
    <3>1. i \in 1 .. m + n /\ i > m /\ z[i].key = key /\ \A j \in i + 1 .. m + n : z[j].key # key
      BY <1>1, <2>3
    <3>2. PICK h \in 1 .. n : i = m + h
      <4>1. m \in Nat /\ n \in Nat /\ i \in 1 .. m + n /\ i > m
        BY <1>1, <3>1
      <4>2. i - m \in 1 .. n /\ i = m + (i - m)
        BY <4>1
      <4> QED
        BY <4>2
    <3>3. i - m = h /\ s[h] = z[i]
      BY <1>1, <3>2
    <3>4. ASSUME NEW j \in h + 1 .. n PROVE s[j].key # key
      <4>1. m + j \in i + 1 .. m + n /\ z[m + j] = s[j]
        BY <1>1, <3>2
      <4> QED
        BY <3>1, <4>1
    <3> QED
      BY <1>1, <3>1, <3>3, <3>4 DEF n
  <2>5. \A h \in I(s) : m + h \in I(z) /\ s[h] = z[m + h]
    <3> SUFFICES ASSUME NEW h \in I(s) PROVE m + h \in I(z) /\ s[h] = z[m + h]
      OBVIOUS
    <3>1. h \in 1 .. n /\ s[h].key = key /\ \A j \in h + 1 .. n : s[j].key # key
      BY <1>1 DEF n
    <3>2. m + h \in 1 .. m + n /\ z[m + h] = s[h]
      BY <1>1, <3>1
    <3>3. ASSUME NEW j \in m + h + 1 .. m + n PROVE z[j].key # key
      <4>1. PICK g \in h + 1 .. n : j = m + g
        BY <1>1, <3>1
      <4>2. z[j] = s[g]
        BY <1>1, <3>1, <4>1
      <4> QED
        BY <3>1, <4>2
    <3> QED
      BY <1>1, <3>1, <3>2, <3>3
  <2> HIDE DEF I
  <2>6. {z[i] : i \in I(z)} = {s[i] : i \in I(s)}
    BY <2>4, <2>5
  <2> QED
    BY <1>2, <1>3, <2>6 DEF z
<1>4. CASE ~Speaks(s, key)
  <2>1. \A h \in 1 .. n : s[h].key # key
    BY <1>1, <1>4 DEF Speaks
  <2>2. \A j \in m + 1 .. m + n : z[j].key # key
    <3> SUFFICES ASSUME NEW j \in m + 1 .. m + n PROVE z[j].key # key
      OBVIOUS
    <3>1. PICK g \in 1 .. n : j = m + g
      BY <1>1
    <3> QED
      BY <1>1, <2>1, <3>1
  <2>3. \A i \in I(z) : i \in I(r) /\ z[i] = r[i]
    <3> SUFFICES ASSUME NEW i \in I(z) PROVE i \in I(r) /\ z[i] = r[i]
      OBVIOUS
    <3>1. i \in 1 .. m + n /\ z[i].key = key /\ \A j \in i + 1 .. m + n : z[j].key # key
      BY <1>1
    <3>2. i \in 1 .. m
      BY <1>1, <2>2, <3>1
    <3>3. \A j \in i + 1 .. m : r[j].key # key
      BY <1>1, <3>1, <3>2
    <3> QED
      BY <1>1, <3>1, <3>2, <3>3 DEF m
  <2>4. \A i \in I(r) : i \in I(z) /\ z[i] = r[i]
    <3> SUFFICES ASSUME NEW i \in I(r) PROVE i \in I(z) /\ z[i] = r[i]
      OBVIOUS
    <3>1. i \in 1 .. m /\ r[i].key = key /\ \A j \in i + 1 .. m : r[j].key # key
      BY <1>1 DEF m
    <3>2. ASSUME NEW j \in i + 1 .. m + n PROVE z[j].key # key
      <4>1. j \in i + 1 .. m \/ j \in m + 1 .. m + n
        BY <1>1, <3>1
      <4> QED
        BY <1>1, <2>2, <3>1, <4>1
    <3> QED
      BY <1>1, <3>1, <3>2
  <2> HIDE DEF I
  <2>5. {z[i] : i \in I(z)} = {r[i] : i \in I(r)}
    BY <2>3, <2>4
  <2> QED
    BY <1>2, <1>4, <2>5 DEF z
<1> QED
  BY <1>3, <1>4

\* It is the one that the parse of an extended header takes.
LEMMA LatestIs ==
    ASSUME NEW U, NEW r \in Seq(U), NEW key, Speaks(r, key)
    PROVE  LET Of == {i \in DOMAIN r : r[i].key = key}
               k  == CHOOSE i \in Of : \A j \in Of : j <= i
           IN  k \in Of /\ LatestOf(r, key) = {r[k]}
<1> DEFINE Of == {i \in DOMAIN r : r[i].key = key}
           n  == Len(r)
           k  == CHOOSE i \in Of : \A j \in Of : j <= i
<1>1. n \in Nat /\ DOMAIN r = 1 .. n
  OBVIOUS
<1>2. \E i \in Of : \A j \in Of : j <= i
  <2> DEFINE T == {n - i : i \in Of}
  <2>1. T \subseteq Nat /\ T # {}
    BY <1>1 DEF Speaks
  <2> HIDE DEF T
  <2>2. PICK m \in T : \A j \in T : m <= j
    BY <2>1, LeastElement
  <2>3. PICK i \in Of : m = n - i
    BY DEF T
  <2>4. \A j \in Of : n - j \in T
    BY DEF T
  <2> QED
    BY <1>1, <2>2, <2>3, <2>4
<1>3. k \in Of /\ \A j \in Of : j <= k
  <2> HIDE DEF Of
  <2> QED
    BY <1>2
<1> HIDE DEF k
<1> DEFINE I == {i \in DOMAIN r : r[i].key = key /\ \A j \in i + 1 .. Len(r) : r[j].key # key}
<1>4. I = {k}
  <2>1. k \in I
    BY <1>1, <1>3
  <2>2. ASSUME NEW i \in I PROVE i = k
    BY <1>1, <1>3, <2>2
  <2> QED
    BY <2>1, <2>2
<1>5. LatestOf(r, key) = {r[i] : i \in I}
  BY DEF LatestOf
<1> HIDE DEF I
<1>6. LatestOf(r, key) = {r[k]}
  BY <1>4, <1>5
<1> QED
  BY <1>3, <1>6 DEF k

LEMMA LatestFrom ==
    ASSUME NEW U, NEW r \in Seq(U), NEW key
    PROVE  LatestOf(r, key) \subseteq U
  BY DEF LatestOf

-----------------------------------------------------------------------------
(* What was found in a sequence of headers.                                *)

\* Headers that are there, and if they carry records or a name, those too.
Heads == {p \in Nat : /\ p + Block <= archive.len
                      /\ BlockAt(p).typ \in Extensions =>
                           BlockAt(p).size \in Nat /\ p + Block + BlockAt(p).size <= archive.len}

\* The headers of a type that count for what follows hs.
Lasting(hs, typ, own) ==
    {i \in 1 .. Len(hs) :
        /\ BlockAt(hs[i]).typ = typ
        /\ own => \A j \in i .. Len(hs) : BlockAt(hs[j]).typ \in Extensions}

RecordsOf(hs, S) ==
    [i \in DOMAIN hs |-> IF i \in S THEN Records(hs[i] + Block, BlockAt(hs[i]).size) ELSE <<>>]

Carried(hs, typ, own) == FlattenSeq(RecordsOf(hs, Lasting(hs, typ, own)))

Heard(hs, typ, key, own) == LatestOf(Carried(hs, typ, own), key)

HeardName(hs, typ) ==
    {LongName(hs[i] + Block, BlockAt(hs[i]).size) :
        i \in {i \in Lasting(hs, typ, TRUE) : \A j \in Lasting(hs, typ, TRUE) : j <= i}}

LEMMA RecordsOfType ==
    ASSUME archive \in Archives, NEW hs \in Seq(Heads), NEW typ \in Extensions, NEW own
    PROVE  LET parts == RecordsOf(hs, Lasting(hs, typ, own))
           IN  parts \in Seq(Seq(AllUnits)) /\ Len(parts) = Len(hs)
<1> DEFINE S == Lasting(hs, typ, own)
           n == Len(hs)
<1>1. n \in Nat /\ DOMAIN hs = 1 .. n /\ \A i \in 1 .. n : hs[i] \in Heads
  OBVIOUS
<1>2. \A i \in S : i \in 1 .. n /\ BlockAt(hs[i]).typ \in Extensions
  BY DEF Lasting
<1> HIDE DEF S, n
<1>3. ASSUME NEW i \in S PROVE Records(hs[i] + Block, BlockAt(hs[i]).size) \in Seq(AllUnits)
  <2>1. hs[i] \in Heads /\ BlockAt(hs[i]).typ \in Extensions
    BY <1>1, <1>2
  <2>2. PICK p, z \in Nat : p = hs[i] + Block /\ z = BlockAt(hs[i]).size /\ p + z <= archive.len
    BY <2>1, Constants DEF Heads
  <2> QED
    BY <2>2, RecordsType
<1>4. PICK f : f = RecordsOf(hs, S)
  OBVIOUS
<1>5. f = [i \in 1 .. n |-> IF i \in S THEN Records(hs[i] + Block, BlockAt(hs[i]).size) ELSE <<>>]
  BY <1>1, <1>4 DEF RecordsOf
<1>6. <<>> \in Seq(AllUnits)
  OBVIOUS
<1>7. f \in [1 .. n -> Seq(AllUnits)]
  BY <1>3, <1>5, <1>6, Zenon
<1>8. f \in Seq(Seq(AllUnits)) /\ Len(f) = n
  BY <1>1, <1>7, SeqOfFunction
<1> QED
  BY <1>4, <1>8 DEF S, n

LEMMA HeadsMore ==
    ASSUME NEW hs \in Seq(Heads), NEW p \in Heads
    PROVE  LET n == Len(hs)
               z == Append(hs, p)
           IN  /\ n \in Nat /\ z \in Seq(Heads) /\ Len(z) = n + 1 /\ z[n + 1] = p
               /\ DOMAIN hs = 1 .. n /\ DOMAIN z = 1 .. n + 1
               /\ \A i \in 1 .. n : z[i] = hs[i] /\ hs[i] \in Heads
  OBVIOUS

\* An array of records, and one more.
LEMMA PartsMore ==
    ASSUME NEW hs \in Seq(Heads), NEW p \in Heads, NEW S \in SUBSET (1 .. Len(hs)), NEW B
    PROVE  LET n == Len(hs)
               more == IF B THEN Records(p + Block, BlockAt(p).size) ELSE <<>>
               T == IF B THEN S \cup {n + 1} ELSE S
           IN  RecordsOf(hs, S) \in Seq(Seq(AllUnits)) /\ more \in Seq(AllUnits) =>
                 RecordsOf(Append(hs, p), T) = Append(RecordsOf(hs, S), more)
<1> DEFINE n == Len(hs)
           z == Append(hs, p)
           f == RecordsOf(hs, S)
           more == IF B THEN Records(p + Block, BlockAt(p).size) ELSE <<>>
           T == IF B THEN S \cup {n + 1} ELSE S
           g == RecordsOf(z, T)
<1>1. /\ n \in Nat /\ z \in Seq(Heads) /\ Len(z) = n + 1 /\ z[n + 1] = p
      /\ DOMAIN hs = 1 .. n /\ DOMAIN z = 1 .. n + 1
      /\ \A i \in 1 .. n : z[i] = hs[i]
  BY HeadsMore
<1>2. /\ \A i \in 1 .. n : i \in T <=> i \in S
      /\ n + 1 \in T <=> B
  BY <1>1
<1> HIDE DEF n, z, T
<1>3. /\ f = [i \in 1 .. n |-> IF i \in S THEN Records(hs[i] + Block, BlockAt(hs[i]).size) ELSE <<>>]
      /\ g = [i \in 1 .. n + 1 |-> IF i \in T THEN Records(z[i] + Block, BlockAt(z[i]).size) ELSE <<>>]
  BY <1>1 DEF RecordsOf
<1> HIDE DEF f, g
<1>4. ASSUME f \in Seq(Seq(AllUnits)), more \in Seq(AllUnits)
      PROVE  g = Append(f, more)
  <2>1. DOMAIN f = 1 .. n /\ Len(f) = n
    BY <1>1, <1>3, <1>4
  <2>2. PICK h : h = Append(f, more)
    OBVIOUS
  <2>3. /\ h \in Seq(Seq(AllUnits)) /\ Len(h) = n + 1 /\ h[n + 1] = more
        /\ \A i \in 1 .. n : h[i] = f[i]
    BY <1>1, <1>4, <2>1, <2>2
  <2>4. ASSUME NEW i \in 1 .. n PROVE g[i] = h[i]
    <3>1. i \in 1 .. n + 1 /\ z[i] = hs[i] /\ (i \in T <=> i \in S)
      BY <1>1, <1>2
    <3>2. g[i] = f[i]
      BY <1>3, <3>1
    <3> QED
      BY <2>3, <3>2
  <2>5. g[n + 1] = h[n + 1]
    <3>1. n + 1 \in 1 .. n + 1
      BY <1>1
    <3>2. g[n + 1] = IF n + 1 \in T THEN Records(z[n + 1] + Block, BlockAt(z[n + 1]).size) ELSE <<>>
      BY <1>3, <3>1
    <3> QED
      BY <1>1, <1>2, <2>3, <3>2
  <2>6. \A i \in 1 .. n + 1 : g[i] = h[i] /\ h[i] \in Seq(AllUnits)
    <3> SUFFICES ASSUME NEW i \in 1 .. n + 1 PROVE g[i] = h[i] /\ h[i] \in Seq(AllUnits)
      OBVIOUS
    <3>1. i \in 1 .. n \/ i = n + 1
      BY <1>1
    <3> QED
      BY <2>3, <2>4, <2>5, <3>1
  <2>7. g \in [1 .. n + 1 -> Seq(AllUnits)]
    <3>1. g = [i \in 1 .. n + 1 |-> g[i]]
      BY <1>3
    <3> QED
      BY <2>6, <3>1
  <2>8. g \in Seq(Seq(AllUnits)) /\ Len(g) = n + 1
    <3>1. n + 1 \in Nat
      BY <1>1
    <3> QED
      BY <2>7, <3>1, SeqOfFunction
  <2>9. g = h
    BY <2>3, <2>6, <2>8, SeqEqual
  <2> QED
    BY <2>2, <2>9
<1> QED
  BY <1>4 DEF f, g, z, T, n

\* What the records carry when there is one header more.
LEMMA CarriedMore ==
    ASSUME archive \in Archives, NEW hs \in Seq(Heads), NEW p \in Heads, NEW typ \in Extensions,
           NEW own \in BOOLEAN, own => BlockAt(p).typ \in Extensions
    PROVE  LET more == IF BlockAt(p).typ = typ THEN Records(p + Block, BlockAt(p).size) ELSE <<>>
           IN  /\ Carried(Append(hs, p), typ, own) = Carried(hs, typ, own) \o more
               /\ Carried(hs, typ, own) \in Seq(AllUnits) /\ more \in Seq(AllUnits)
<1> DEFINE n == Len(hs)
           z == Append(hs, p)
           S == Lasting(hs, typ, own)
           same == BlockAt(p).typ = typ
           more == IF same THEN Records(p + Block, BlockAt(p).size) ELSE <<>>
           T == IF same THEN S \cup {n + 1} ELSE S
<1>1. /\ n \in Nat /\ z \in Seq(Heads) /\ Len(z) = n + 1 /\ z[n + 1] = p
      /\ DOMAIN hs = 1 .. n /\ DOMAIN z = 1 .. n + 1
      /\ \A i \in 1 .. n : z[i] = hs[i]
  BY HeadsMore
<1>2. Lasting(z, typ, own) = T
  <2>1. Lasting(z, typ, own) =
          {i \in 1 .. n + 1 : /\ BlockAt(z[i]).typ = typ
                              /\ own => \A j \in i .. n + 1 : BlockAt(z[j]).typ \in Extensions}
    BY <1>1 DEF Lasting
  <2>2. S = {i \in 1 .. n : /\ BlockAt(hs[i]).typ = typ
                            /\ own => \A j \in i .. n : BlockAt(hs[j]).typ \in Extensions}
    BY DEF Lasting
  <2> HIDE DEF S, n, z
  <2>3. ASSUME NEW i \in 1 .. n PROVE i \in Lasting(z, typ, own) <=> i \in S
    <3>1. i \in 1 .. n + 1 /\ z[i] = hs[i]
      BY <1>1
    <3>2. (\A j \in i .. n + 1 : BlockAt(z[j]).typ \in Extensions)
            <=> (\A j \in i .. n : BlockAt(hs[j]).typ \in Extensions) /\ BlockAt(p).typ \in Extensions
      <4>1. n + 1 \in i .. n + 1 /\ \A j \in i .. n : j \in i .. n + 1 /\ z[j] = hs[j]
        BY <1>1
      <4>2. \A j \in i .. n + 1 : j \in i .. n \/ j = n + 1
        BY <1>1
      <4> QED
        BY <1>1, <4>1, <4>2
    <3> QED
      BY <2>1, <2>2, <3>1, <3>2
  <2>4. n + 1 \in Lasting(z, typ, own) <=> same
    <3>1. n + 1 \in 1 .. n + 1 /\ \A j \in n + 1 .. n + 1 : z[j] = p
      BY <1>1
    <3> QED
      BY <1>1, <2>1, <3>1
  <2>5. \A i \in T : i \in 1 .. n \/ (i = n + 1 /\ same)
    BY <2>2
  <2>6. \A i \in Lasting(z, typ, own) : i \in 1 .. n \/ i = n + 1
    BY <1>1, <2>1
  <2>7. \A i \in 1 .. n : i \in T <=> i \in S
    BY <1>1
  <2>8. n + 1 \in T <=> same
    BY <1>1, <2>2
  <2> HIDE DEF T, same
  <2>9. ASSUME NEW i \in Lasting(z, typ, own) PROVE i \in T
    BY <2>3, <2>4, <2>6, <2>7, <2>8
  <2>10. ASSUME NEW i \in T PROVE i \in Lasting(z, typ, own)
    BY <2>3, <2>4, <2>5, <2>7
  <2> QED
    BY <2>9, <2>10
<1>3. RecordsOf(hs, S) \in Seq(Seq(AllUnits))
  BY RecordsOfType
<1>4. more \in Seq(AllUnits)
  <2>1. CASE same
    <3>1. PICK q, m \in Nat : q = p + Block /\ m = BlockAt(p).size /\ q + m <= archive.len
      <4>1. BlockAt(p).typ \in Extensions /\ p \in Nat
        BY <2>1 DEF Heads
      <4>2. BlockAt(p).size \in Nat /\ p + Block + BlockAt(p).size <= archive.len
        BY <4>1 DEF Heads
      <4>3. PICK q \in Nat : q = p + Block
        BY <4>1, Constants
      <4>4. PICK m \in Nat : m = BlockAt(p).size
        BY <4>2
      <4>5. q + m <= archive.len
        BY <4>2, <4>3, <4>4
      <4> QED
        BY <4>3, <4>4, <4>5
    <3>2. Records(q, m) \in Seq(AllUnits)
      BY <3>1, RecordsType
    <3> QED
      BY <2>1, <3>1, <3>2
  <2>2. CASE ~same
    BY <2>2
  <2> QED
    BY <2>1, <2>2
<1>5. S \in SUBSET (1 .. Len(hs))
  BY DEF Lasting
<1>6. RecordsOf(z, T) = Append(RecordsOf(hs, S), more)
  <2> HIDE DEF S
  <2> QED
    BY <1>3, <1>4, <1>5, PartsMore
<1> HIDE DEF more
<1>7. FlattenSeq(Append(RecordsOf(hs, S), more)) = FlattenSeq(RecordsOf(hs, S)) \o more
  BY <1>3, <1>4, FlattenMore
<1>8. FlattenSeq(RecordsOf(hs, S)) \in Seq(AllUnits)
  BY <1>3, FlattenParts
<1> QED
  BY <1>2, <1>4, <1>6, <1>7, <1>8 DEF Carried, more

LEMMA HeardMore ==
    ASSUME archive \in Archives, NEW hs \in Seq(Heads), NEW p \in Heads, NEW typ \in Extensions,
           NEW own \in BOOLEAN, own => BlockAt(p).typ \in Extensions, NEW key
    PROVE  LET records == Records(p + Block, BlockAt(p).size)
           IN  Heard(Append(hs, p), typ, key, own) =
                 IF BlockAt(p).typ = typ /\ Speaks(records, key) THEN LatestOf(records, key)
                 ELSE Heard(hs, typ, key, own)
<1> DEFINE records == Records(p + Block, BlockAt(p).size)
           same == BlockAt(p).typ = typ
           more == IF same THEN records ELSE <<>>
<1>1. /\ Carried(Append(hs, p), typ, own) = Carried(hs, typ, own) \o more
      /\ Carried(hs, typ, own) \in Seq(AllUnits) /\ more \in Seq(AllUnits)
  BY CarriedMore
<1>2. \A h : Heard(h, typ, key, own) = LatestOf(Carried(h, typ, own), key)
  BY DEF Heard
<1>3. ~Speaks(<<>>, key)
  BY DEF Speaks
<1> HIDE DEF records, same
<1>4. LatestOf(Carried(hs, typ, own) \o more, key) =
        IF Speaks(more, key) THEN LatestOf(more, key) ELSE LatestOf(Carried(hs, typ, own), key)
  BY <1>1, LatestJoin
<1>5. CASE same
  BY <1>1, <1>2, <1>4, <1>5 DEF records, same
<1>6. CASE ~same
  BY <1>1, <1>2, <1>3, <1>4, <1>6 DEF same
<1> QED
  BY <1>5, <1>6

\* What an entry's own header, the last, does not add to.
LEMMA SaidIs ==
    ASSUME archive \in Archives, NEW hs \in Seq(Heads), NEW p \in Heads, NEW typ \in Extensions,
           NEW own \in BOOLEAN, NEW key
    PROVE  /\ Counting(Append(hs, p), typ, own) = Lasting(hs, typ, own)
           /\ Said(Append(hs, p), typ, key, own) = Heard(hs, typ, key, own)
<1> DEFINE n == Len(hs)
           z == Append(hs, p)
           S == Lasting(hs, typ, own)
<1>1. /\ n \in Nat /\ z \in Seq(Heads) /\ Len(z) = n + 1 /\ z[n + 1] = p
      /\ DOMAIN hs = 1 .. n /\ DOMAIN z = 1 .. n + 1
      /\ \A i \in 1 .. n : z[i] = hs[i]
  BY HeadsMore
<1>2. Counting(z, typ, own) = S
  <2>1. Len(z) - 1 = n
    BY <1>1
  <2>2. Counting(z, typ, own) =
          {i \in 1 .. n : /\ BlockAt(z[i]).typ = typ
                          /\ own => \A j \in i .. n : BlockAt(z[j]).typ \in Extensions}
    BY <2>1 DEF Counting
  <2>3. S = {i \in 1 .. n : /\ BlockAt(hs[i]).typ = typ
                            /\ own => \A j \in i .. n : BlockAt(hs[j]).typ \in Extensions}
    BY DEF Lasting
  <2> HIDE DEF S, n, z
  <2>4. \A i \in 1 .. n : \A j \in i .. n : j \in 1 .. n
    BY <1>1
  <2>5. \A i \in 1 .. n : i \in Counting(z, typ, own) <=> i \in S
    BY <1>1, <2>2, <2>3, <2>4
  <2> QED
    BY <2>2, <2>3, <2>5
<1>3. RecordsOf(hs, S) \in Seq(Seq(AllUnits))
  BY RecordsOfType
<1>4. S \in SUBSET (1 .. Len(hs))
  BY DEF Lasting
<1>5. <<>> \in Seq(AllUnits)
  OBVIOUS
<1>6. RecordsOf(z, S) = Append(RecordsOf(hs, S), <<>>)
  <2> HIDE DEF S
  <2> QED
    BY <1>3, <1>4, <1>5, PartsMore
<1>7. FlattenSeq(Append(RecordsOf(hs, S), <<>>)) = FlattenSeq(RecordsOf(hs, S)) \o <<>>
  BY <1>3, <1>5, FlattenMore
<1>8. FlattenSeq(RecordsOf(hs, S)) \in Seq(AllUnits)
  BY <1>3, FlattenParts
<1>9. FlattenSeq(RecordsOf(z, S)) = FlattenSeq(RecordsOf(hs, S))
  <2>1. PICK x \in Seq(AllUnits) : x = FlattenSeq(RecordsOf(hs, S))
    BY <1>8
  <2>2. x \o <<>> = x
    BY ConcatEmptySeq
  <2> QED
    BY <1>6, <1>7, <2>1, <2>2
<1>10. Said(z, typ, key, own) = LatestOf(FlattenSeq(RecordsOf(z, S)), key)
  <2>1. Said(z, typ, key, own) = UNION {LatestOf(FlattenSeq(RecordsOf(z, T)), key) : T \in {S}}
    BY <1>2, Zenon DEF Said, RecordsOf
  <2> QED
    BY <2>1
<1> QED
  BY <1>2, <1>9, <1>10 DEF Heard, Carried

\* Where no header counts there is nothing.
LEMMA HeardNothing ==
    ASSUME archive \in Archives, NEW hs \in Seq(Heads), NEW typ \in Extensions, NEW own,
           Lasting(hs, typ, own) = {}, NEW key
    PROVE  Heard(hs, typ, key, own) = {}
<1> DEFINE parts == RecordsOf(hs, {})
           n == Len(parts)
<1>1. parts \in Seq(Seq(AllUnits)) /\ Len(parts) = Len(hs)
  BY RecordsOfType
<1>2. parts = [i \in 1 .. Len(hs) |-> <<>>]
  BY DEF RecordsOf
<1> HIDE DEF parts
<1>3. n \in Nat /\ \A k \in 1 .. n : parts[k] = <<>>
  BY <1>1, <1>2
<1>4. PICK e : PartEnds(e, parts) /\ e[n] = Len(FlattenSeq(parts)) /\ FlattenSeq(parts) \in Seq(AllUnits)
  BY <1>1, FlattenParts
<1> HIDE DEF n
<1>5. /\ e \in [0 .. n -> Nat] /\ e[0] = 0
      /\ \A k \in 1 .. n : e[k] = e[k - 1] + Len(parts[k])
  BY <1>4 DEF PartEnds, n
<1> DEFINE T == {k \in 0 .. n : e[k] = 0}
<1>6. 0 \in T
  BY <1>3, <1>5
<1>7. ASSUME NEW k \in 0 .. n - 1, k \in T PROVE k + 1 \in T
  <2>1. k + 1 \in 1 .. n /\ (k + 1) - 1 = k
    BY <1>3
  <2>2. e[k + 1] = e[(k + 1) - 1] + Len(parts[k + 1]) /\ parts[k + 1] = <<>>
    BY <1>3, <1>5, <2>1
  <2>3. Len(parts[k + 1]) = 0
    BY <2>2
  <2>4. e[k] = 0
    BY <1>7
  <2> QED
    BY <2>1, <2>2, <2>3, <2>4
<1> HIDE DEF T
<1>8. 0 .. n \subseteq T
  BY <1>3, <1>6, <1>7, BoundedInductive
<1>9. Len(FlattenSeq(parts)) = 0
  BY <1>3, <1>4, <1>8 DEF T
<1>10. FlattenSeq(parts) = <<>>
  BY <1>4, <1>9
<1> QED
  BY <1>10 DEF Heard, Carried, LatestOf, parts

\* Behind an entry what was its own is gone.
LEMMA LastingReset ==
    ASSUME NEW hs \in Seq(Heads), NEW p \in Heads, NEW typ, BlockAt(p).typ \notin Extensions
    PROVE  Lasting(Append(hs, p), typ, TRUE) = {}
<1> DEFINE n == Len(hs)
           z == Append(hs, p)
<1>1. n \in Nat /\ Len(z) = n + 1 /\ z[n + 1] = p
  BY HeadsMore
<1> HIDE DEF n, z
<1>2. ASSUME NEW i \in Lasting(z, typ, TRUE) PROVE FALSE
  <2>1. i \in 1 .. n + 1 /\ \A j \in i .. n + 1 : BlockAt(z[j]).typ \in Extensions
    BY <1>1 DEF Lasting
  <2>2. n + 1 \in i .. n + 1
    BY <1>1, <2>1
  <2> QED
    BY <1>1, <2>1, <2>2
<1> QED
  BY <1>2 DEF z

LEMMA LastingNone ==
    ASSUME NEW typ, NEW own
    PROVE  Lasting(<<>>, typ, own) = {}
  BY DEF Lasting

\* The long names, in the same way.
LEMMA NameMore ==
    ASSUME NEW hs \in Seq(Heads), NEW p \in Heads, NEW typ, BlockAt(p).typ \in Extensions
    PROVE  HeardName(Append(hs, p), typ) =
             IF BlockAt(p).typ = typ THEN {LongName(p + Block, BlockAt(p).size)} ELSE HeardName(hs, typ)
<1> DEFINE n == Len(hs)
           z == Append(hs, p)
           S == Lasting(hs, typ, TRUE)
           T == Lasting(z, typ, TRUE)
           same == BlockAt(p).typ = typ
           Name(q) == LongName(q + Block, BlockAt(q).size)
<1>1. n \in Nat /\ Len(z) = n + 1 /\ z[n + 1] = p /\ \A i \in 1 .. n : z[i] = hs[i]
  BY HeadsMore
<1>2. S = {i \in 1 .. n : /\ BlockAt(hs[i]).typ = typ
                          /\ \A j \in i .. n : BlockAt(hs[j]).typ \in Extensions}
  BY DEF Lasting
<1>3. T = {i \in 1 .. n + 1 : /\ BlockAt(z[i]).typ = typ
                              /\ \A j \in i .. n + 1 : BlockAt(z[j]).typ \in Extensions}
  BY <1>1 DEF Lasting
<1>4. /\ HeardName(hs, typ) = {Name(hs[i]) : i \in {i \in S : \A j \in S : j <= i}}
      /\ HeardName(z, typ) = {Name(z[i]) : i \in {i \in T : \A j \in T : j <= i}}
  BY DEF HeardName
<1> HIDE DEF n, z, S, T, same, Name
<1>5. \A i \in 1 .. n : i \in T <=> i \in S
  <2> SUFFICES ASSUME NEW i \in 1 .. n PROVE i \in T <=> i \in S
    OBVIOUS
  <2>1. i \in 1 .. n + 1 /\ z[i] = hs[i]
    BY <1>1
  <2>2. (\A j \in i .. n + 1 : BlockAt(z[j]).typ \in Extensions)
          <=> (\A j \in i .. n : BlockAt(hs[j]).typ \in Extensions)
    <3>1. n + 1 \in i .. n + 1 /\ \A j \in i .. n : j \in i .. n + 1 /\ z[j] = hs[j]
      BY <1>1
    <3>2. \A j \in i .. n + 1 : j \in i .. n \/ j = n + 1
      BY <1>1
    <3> QED
      BY <1>1, <3>1, <3>2
  <2> QED
    BY <1>2, <1>3, <2>1, <2>2
<1>6. n + 1 \in T <=> same
  <2>1. n + 1 \in 1 .. n + 1 /\ \A j \in n + 1 .. n + 1 : z[j] = p
    BY <1>1
  <2> QED
    BY <1>1, <1>3, <2>1 DEF same
<1>7. (\A i \in T : i \in 1 .. n \/ i = n + 1) /\ \A i \in S : i \in 1 .. n
  BY <1>1, <1>2, <1>3
<1>8. CASE same
  <2>1. {i \in T : \A j \in T : j <= i} = {n + 1}
    BY <1>1, <1>6, <1>7, <1>8
  <2>2. HeardName(z, typ) = {Name(p)}
    BY <1>1, <1>4, <2>1
  <2> QED
    BY <1>8, <2>2 DEF z, same, Name
<1>9. CASE ~same
  <2>1. T = S
    BY <1>5, <1>6, <1>7, <1>9
  <2>2. \A i \in {i \in S : \A j \in S : j <= i} : z[i] = hs[i]
    BY <1>1, <1>7
  <2>3. HeardName(z, typ) = HeardName(hs, typ)
    BY <1>4, <2>1, <2>2
  <2> QED
    BY <1>9, <2>3 DEF z, same
<1> QED
  BY <1>8, <1>9

LEMMA NamedIs ==
    ASSUME archive \in Archives, NEW hs \in Seq(Heads), NEW p \in Heads, NEW typ \in Extensions
    PROVE  Named(Append(hs, p), typ) = HeardName(hs, typ)
<1> DEFINE n == Len(hs)
           z == Append(hs, p)
           S == Lasting(hs, typ, TRUE)
<1>1. \A i \in 1 .. n : z[i] = hs[i]
  BY HeadsMore
<1>2. Counting(z, typ, TRUE) = S
  BY SaidIs
<1>3. \A i \in S : i \in 1 .. n
  BY DEF Lasting
<1> HIDE DEF z, S, n
<1>4. Named(z, typ) = {LongName(z[i] + Block, BlockAt(z[i]).size) : i \in {i \in S : \A j \in S : j <= i}}
  BY <1>2 DEF Named
<1>5. HeardName(hs, typ) = {LongName(hs[i] + Block, BlockAt(hs[i]).size) : i \in {i \in S : \A j \in S : j <= i}}
  BY DEF HeardName, S
<1> QED
  BY <1>1, <1>3, <1>4, <1>5 DEF z

LEMMA NameNothing ==
    ASSUME NEW hs, NEW typ, Lasting(hs, typ, TRUE) = {}
    PROVE  HeardName(hs, typ) = {}
  BY DEF HeardName

-----------------------------------------------------------------------------
\* The overrides behind an extended header, when no allocation failed.
LEMMA ParsedIs ==
    ASSUME NEW U, NEW records \in Seq(U), NEW rec
    PROVE  LET new == Parsed(rec, records, 0)
           IN  /\ new.path = IF Speaks(records, "path") THEN Paths(LatestOf(records, "path")) ELSE rec.path
               /\ new.link = IF Speaks(records, "linkpath")
                               THEN Paths(LatestOf(records, "linkpath")) ELSE rec.link
               /\ new.size = IF Speaks(records, "size")
                               THEN {u.size : u \in LatestOf(records, "size")} ELSE rec.size
<1> DEFINE Of(key) == {i \in DOMAIN records : records[i].key = key}
           K(key) == CHOOSE i \in Of(key) : \A j \in Of(key) : j <= i
           P(key, old) == IF Of(key) = {} THEN old
                          ELSE IF K(key) = 0 THEN {} ELSE {records[K(key)].value}
<1>1. Parsed(rec, records, 0) =
        [path |-> P("path", rec.path), link |-> P("linkpath", rec.link),
         size |-> IF Of("size") = {} THEN rec.size ELSE {records[K("size")].size}]
  BY DEF Parsed
<1>2. \A key : Of(key) = {} <=> ~Speaks(records, key)
  BY DEF Speaks
<1>3. ASSUME NEW key, Speaks(records, key)
      PROVE  K(key) \in Of(key) /\ LatestOf(records, key) = {records[K(key)]}
  BY <1>3, LatestIs
<1>4. \A key : 0 \notin Of(key)
  OBVIOUS
<1>5. \A x : Paths({x}) = {x.value}
  BY DEF Paths
<1> HIDE DEF Of, K
<1>6. ASSUME NEW key, NEW old
      PROVE  P(key, old) = IF Speaks(records, key) THEN Paths(LatestOf(records, key)) ELSE old
  <2>1. CASE Speaks(records, key)
    BY <1>2, <1>3, <1>4, <1>5, <2>1
  <2>2. CASE ~Speaks(records, key)
    BY <1>2, <2>2
  <2> QED
    BY <2>1, <2>2
<1>7. (IF Of("size") = {} THEN rec.size ELSE {records[K("size")].size})
        = IF Speaks(records, "size") THEN {u.size : u \in LatestOf(records, "size")} ELSE rec.size
  BY <1>2, <1>3
<1>8. PICK a : a = P("path", rec.path)
  OBVIOUS
<1>9. PICK b : b = P("linkpath", rec.link)
  OBVIOUS
<1>10. PICK c : c = IF Of("size") = {} THEN rec.size ELSE {records[K("size")].size}
  OBVIOUS
<1>11. Parsed(rec, records, 0) = [path |-> a, link |-> b, size |-> c]
  BY <1>1, <1>8, <1>9, <1>10
<1>12. /\ a = IF Speaks(records, "path") THEN Paths(LatestOf(records, "path")) ELSE rec.path
       /\ b = IF Speaks(records, "linkpath") THEN Paths(LatestOf(records, "linkpath")) ELSE rec.link
  BY <1>6, <1>8, <1>9
<1> HIDE DEF P
<1>13. PICK new : new = Parsed(rec, records, 0)
  OBVIOUS
<1>14. new.path = a /\ new.link = b /\ new.size = c
  BY <1>11, <1>13
<1>15. c = IF Speaks(records, "size") THEN {u.size : u \in LatestOf(records, "size")} ELSE rec.size
  BY <1>7, <1>10
<1> QED
  BY <1>12, <1>13, <1>14, <1>15

-----------------------------------------------------------------------------
(* An entry, by what was found in the headers before its own.              *)

EntryPath(hs, p) ==
    First(<<Paths(Heard(hs, "x", "path", TRUE)), Paths(Heard(hs, "g", "path", FALSE)),
            HeardName(hs, "L")>>, BlockAt(p).path)

EntryLink(hs, p) ==
    First(<<Paths(Heard(hs, "x", "linkpath", TRUE)), Paths(Heard(hs, "g", "linkpath", FALSE)),
            HeardName(hs, "K")>>, BlockAt(p).link)

EntrySize(hs, p) ==
    First(<<{u.size : u \in Heard(hs, "x", "size", TRUE)},
            {u.size : u \in Heard(hs, "g", "size", FALSE)}>>, BlockAt(p).size)

EntryAt(hs, p) ==
    LET kind == KindOf(BlockAt(p).typ, EntryPath(hs, p))
    IN  [kind |-> kind, path |-> EntryPath(hs, p),
         size |-> IF kind = "file" THEN EntrySize(hs, p) ELSE 0,
         data |-> IF kind = "file" THEN p + Block ELSE 0,
         link |-> IF kind = "link" THEN EntryLink(hs, p) ELSE <<"">>]

LEMMA EntryIs ==
    ASSUME archive \in Archives, NEW hs \in Seq(Heads), NEW p \in Heads
    PROVE  EntryOf(Append(hs, p)) = EntryAt(hs, p)
<1> DEFINE z == Append(hs, p)
           h == BlockAt(p)
           Entry(kind, path, link, size) ==
            [kind |-> kind, path |-> path,
             size |-> IF kind = "file" THEN size ELSE 0,
             data |-> IF kind = "file" THEN p + Block ELSE 0,
             link |-> IF kind = "link" THEN link ELSE <<"">>]
<1>1. Last(z) = p
  BY HeadsMore DEF Last
<1>2. ASSUME NEW key PROVE /\ Said(z, "x", key, TRUE) = Heard(hs, "x", key, TRUE)
                           /\ Said(z, "g", key, FALSE) = Heard(hs, "g", key, FALSE)
  BY SaidIs DEF Extensions
<1>3. Named(z, "L") = HeardName(hs, "L") /\ Named(z, "K") = HeardName(hs, "K")
  BY NamedIs DEF Extensions
<1>4. PICK pa : pa = EntryPath(hs, p)
  OBVIOUS
<1>5. PICK li : li = EntryLink(hs, p)
  OBVIOUS
<1>6. PICK si : si = EntrySize(hs, p)
  OBVIOUS
<1>7. pa = First(<<Paths(Said(z, "x", "path", TRUE)), Paths(Said(z, "g", "path", FALSE)),
                   Named(z, "L")>>, h.path)
  BY <1>2, <1>3, <1>4, Zenon DEF EntryPath
<1>8. li = First(<<Paths(Said(z, "x", "linkpath", TRUE)), Paths(Said(z, "g", "linkpath", FALSE)),
                   Named(z, "K")>>, h.link)
  BY <1>2, <1>3, <1>5, Zenon DEF EntryLink
<1>9. si = First(<<{u.size : u \in Said(z, "x", "size", TRUE)},
                   {u.size : u \in Said(z, "g", "size", FALSE)}>>, h.size)
  BY <1>2, <1>6, Zenon DEF EntrySize
<1> HIDE DEF z, h
<1>10. EntryOf(z) = CHOOSE e \in {Entry(KindOf(h.typ, path), path, link, size) :
                                    path \in {pa}, link \in {li}, size \in {si}} : TRUE
  BY <1>1, <1>7, <1>8, <1>9, SMTT(30) DEF EntryOf, h
<1> DEFINE x == Entry(KindOf(h.typ, pa), pa, li, si)
<1>11. x = EntryAt(hs, p)
  BY <1>4, <1>5, <1>6, Zenon DEF EntryAt, h
<1> HIDE DEF Entry
<1>12. {Entry(KindOf(h.typ, path), path, link, size) : path \in {pa}, link \in {li}, size \in {si}} = {x}
  OBVIOUS
<1> HIDE DEF x
<1>13. EntryOf(z) = x
  BY <1>10, <1>12
<1> QED
  BY <1>11, <1>13 DEF z

LEMMA CarriedType ==
    ASSUME archive \in Archives, NEW hs \in Seq(Heads), NEW typ \in Extensions, NEW own
    PROVE  Carried(hs, typ, own) \in Seq(AllUnits)
<1>1. RecordsOf(hs, Lasting(hs, typ, own)) \in Seq(Seq(AllUnits))
  BY RecordsOfType
<1> QED
  BY <1>1, FlattenParts DEF Carried

LEMMA HeardSizes ==
    ASSUME archive \in Archives, NEW hs \in Seq(Heads), NEW typ \in Extensions, NEW own, NEW key
    PROVE  {u.size : u \in Heard(hs, typ, key, own)} \subseteq Nat
<1>1. Heard(hs, typ, key, own) \subseteq AllUnits
  BY CarriedType, LatestFrom DEF Heard
<1> QED
  BY <1>1, UnitSize

\* The first of two sets of numbers.
LEMMA FirstNumber ==
    ASSUME NEW S \in SUBSET Nat, NEW T \in SUBSET Nat, NEW d \in Nat
    PROVE  First(<<S, T>>, d) \in Nat
<1> DEFINE sets == <<S, T>>
           full == {i \in DOMAIN sets : sets[i] # {}}
<1>1. First(sets, d) = FirstOf(sets, d)
  BY DEF First
<1>2. FirstOf(sets, d) = IF full = {} THEN d ELSE CHOOSE x \in sets[Min(full)] : TRUE
  BY DEF FirstOf
<1>3. full \subseteq Nat /\ \A i \in full : sets[i] # {} /\ sets[i] \subseteq Nat
  <2>1. DOMAIN sets = {1, 2} /\ sets[1] = S /\ sets[2] = T
    OBVIOUS
  <2> HIDE DEF sets
  <2>2. ASSUME NEW i \in full PROVE i \in Nat /\ sets[i] # {} /\ sets[i] \subseteq Nat
    <3>1. i = 1 \/ i = 2
      BY <2>1
    <3>2. sets[i] = S \/ sets[i] = T
      BY <2>1, <3>1
    <3>3. sets[i] \subseteq Nat
      BY <3>2
    <3> QED
      BY <3>1, <3>3
  <2> HIDE DEF full
  <2> QED
    BY <2>2
<1>4. CASE full # {}
  <2> HIDE DEF full, sets
  <2>1. \E m \in full : \A k \in full : m <= k
    BY <1>3, <1>4, LeastElement
  <2>2. Min(full) \in full
    BY <2>1 DEF Min
  <2>3. sets[Min(full)] # {} /\ sets[Min(full)] \subseteq Nat
    BY <1>3, <2>2
  <2>4. (CHOOSE x \in sets[Min(full)] : TRUE) \in sets[Min(full)]
    BY <2>3
  <2> QED
    BY <1>1, <1>2, <1>4, <2>3, <2>4 DEF sets
<1> QED
  BY <1>1, <1>2, <1>4

LEMMA EntryAtSize ==
    ASSUME archive \in Archives, NEW hs \in Seq(Heads), NEW p \in Heads, BlockAt(p).size \in Nat
    PROVE  EntryAt(hs, p).size \in Nat
<1>1. EntrySize(hs, p) \in Nat
  <2>1. PICK S \in SUBSET Nat : S = {u.size : u \in Heard(hs, "x", "size", TRUE)}
    BY HeardSizes DEF Extensions
  <2>2. PICK T \in SUBSET Nat : T = {u.size : u \in Heard(hs, "g", "size", FALSE)}
    BY HeardSizes DEF Extensions
  <2>3. EntrySize(hs, p) = First(<<S, T>>, BlockAt(p).size)
    BY <2>1, <2>2, Zenon DEF EntrySize
  <2> QED
    BY <2>3, FirstNumber
<1> QED
  BY <1>1 DEF EntryAt

-----------------------------------------------------------------------------
(* The stages of the reading that Meaning makes.                           *)

Ents  == {EntryOf(hs) : hs \in Seq(Heads)}
Walks == [next : Nat, heads : Seq(Heads), entries : Seq(Ents), done : BOOLEAN]

\* Nothing follows.
Final(w) == w.done \/ w.next + Block > archive.len

LEMMA PaddedIs ==
    ASSUME NEW size \in Nat
    PROVE  Padded(size) \in Nat /\ Padded(0) = 0
<1>1. Block \in Nat \ {0}
  BY Constants
<1>2. PICK m \in Nat : m = size + Block - 1
  BY <1>1
<1>3. m \div Block \in Nat
  BY <1>1, <1>2, Division
<1>4. Padded(size) \in Nat
  <2>1. PICK q \in Nat : q = m \div Block
    BY <1>3
  <2>2. Padded(size) = q * Block
    BY <1>2, <2>1 DEF Padded
  <2> QED
    BY <1>1, <2>1, <2>2
<1>5. Padded(0) = 0
  <2>1. PICK k \in Nat : k = 0 + Block - 1
    BY <1>1
  <2>2. PICK q \in Nat : q = k \div Block
    BY <1>1, <2>1, Division
  <2>3. q = 0
    BY <1>1, <2>1, <2>2
  <2>4. Padded(0) = q * Block
    BY <2>1, <2>2 DEF Padded
  <2> QED
    BY <1>1, <2>3, <2>4
<1> QED
  BY <1>4, <1>5

LEMMA OnwardEnd ==
    ASSUME NEW w, Final(w) PROVE Onward(w) = w
  BY DEF Onward, Final

LEMMA OnwardZero ==
    ASSUME NEW w \in Walks, ~Final(w), BlockAt(w.next).typ = "zero"
    PROVE  LET v == Onward(w)
           IN  v.next = w.next + Block /\ v.heads = w.heads /\ v.entries = w.entries /\ v.done = FALSE
<1>1. Onward(w) = [w EXCEPT !.next = @ + Block]
  BY DEF Onward, Final
<1>2. w.done = FALSE
  BY DEF Walks, Final
<1>3. DOMAIN w = {"next", "heads", "entries", "done"}
  BY DEF Walks
<1> QED
  BY <1>1, <1>2, <1>3

LEMMA PastIs ==
    ASSUME NEW w \in Walks, ~Final(w), NEW size
    PROVE  LET v == Past(w, size)
           IN  /\ v.next = w.next + Block + Padded(size) /\ v.heads = Append(w.heads, w.next)
               /\ v.entries = w.entries /\ v.done = FALSE
               /\ DOMAIN v = {"next", "heads", "entries", "done"}
<1>1. w.done = FALSE /\ DOMAIN w = {"next", "heads", "entries", "done"}
  BY DEF Walks, Final
<1> QED
  BY <1>1 DEF Past

LEMMA OnwardHeader ==
    ASSUME archive \in Archives, NEW w \in Walks, ~Final(w), BlockAt(w.next).typ \in Extensions,
           Sound(BlockAt(w.next)), w.next + Block + BlockAt(w.next).size <= archive.len, BlockAt(w.next).size \in Nat
    PROVE  LET v == Onward(w)
           IN  /\ v.next = w.next + Block + Padded(BlockAt(w.next).size)
               /\ v.heads = Append(w.heads, w.next) /\ v.entries = w.entries /\ v.done = FALSE
<1>1. PICK h : h = BlockAt(w.next)
  OBVIOUS
<1>2. h.typ # "zero"
  BY <1>1 DEF Extensions
<1>3. ~(w.next + Block + h.size > archive.len)
  <2>1. h.size \in Nat /\ w.next + Block + h.size <= archive.len
    BY <1>1
  <2>2. w.next \in Nat /\ Block \in Nat /\ archive.len \in Nat
    BY Constants DEF Walks
  <2> QED
    BY <2>1, <2>2
<1>4. Onward(w) = Past(w, h.size)
  BY <1>1, <1>2, <1>3 DEF Onward, Final
<1>5. PICK size : size = h.size
  OBVIOUS
<1>6. PICK v : v = Past(w, size)
  OBVIOUS
<1>7. /\ v.next = w.next + Block + Padded(size) /\ v.heads = Append(w.heads, w.next)
      /\ v.entries = w.entries /\ v.done = FALSE
  BY <1>6, PastIs
<1> QED
  BY <1>1, <1>4, <1>5, <1>6, <1>7

LEMMA OnwardStopped ==
    ASSUME NEW w \in Walks, ~Final(w), BlockAt(w.next).typ # "zero",
           \/ ~Sound(BlockAt(w.next))
           \/ BlockAt(w.next).typ \notin Extensions \cup EntryTypes
           \/ /\ BlockAt(w.next).typ \in Extensions
              /\ w.next + Block + BlockAt(w.next).size > archive.len
    PROVE  Onward(w) = Stopped(w)
<1>1. PICK h : h = BlockAt(w.next)
  OBVIOUS
<1>2. h.typ # "zero" /\ ~(w.done \/ w.next + Block > archive.len)
  BY <1>1 DEF Final
<1>3. Onward(w) = IF ~Sound(h) \/ h.typ \notin Extensions \cup EntryTypes THEN Stopped(w)
             ELSE IF h.typ \in Extensions
               THEN IF w.next + Block + h.size > archive.len THEN Stopped(w) ELSE Past(w, h.size)
             ELSE CHOOSE x \in {Entered(w, e) : e \in {EntryOf(Append(w.heads, w.next))}} : TRUE
  BY <1>1, <1>2, Zenon DEF Onward
<1> QED
  BY <1>1, <1>2, <1>3

LEMMA StoppedIs ==
    ASSUME NEW w \in Walks
    PROVE  LET v == Stopped(w)
           IN  v.next = w.next /\ v.heads = w.heads /\ v.entries = w.entries /\ v.done = TRUE
<1>1. DOMAIN w = {"next", "heads", "entries", "done"}
  BY DEF Walks
<1> QED
  BY <1>1 DEF Stopped

\* A header that is there.
LEMMA HeadIs ==
    ASSUME archive \in Archives, NEW w \in Walks, ~Final(w), Sound(BlockAt(w.next)),
           BlockAt(w.next).typ \in Extensions => w.next + Block + BlockAt(w.next).size <= archive.len
    PROVE  BlockAt(w.next).size \in Nat /\ w.next \in Heads
<1>1. w.next \in Nat /\ w.next + Block <= archive.len
  BY Constants DEF Walks, Final
<1>2. BlockAt(w.next).size \in Int
  BY <1>1, HeaderSize
<1>3. BlockAt(w.next).size \in Nat
  BY <1>2 DEF Sound
<1> QED
  BY <1>1, <1>3 DEF Heads

LEMMA OnwardEntry ==
    ASSUME archive \in Archives, NEW w \in Walks, ~Final(w), Sound(BlockAt(w.next)),
           BlockAt(w.next).typ \in EntryTypes
    PROVE  LET e == EntryAt(w.heads, w.next)
               v == Onward(w)
           IN  /\ w.next \in Heads /\ e.size \in Nat /\ e \in Ents
               /\ ~Takes(w.entries, e, w.next) => v = Stopped(w)
               /\ Takes(w.entries, e, w.next) =>
                    /\ v.next = w.next + Block + Padded(e.size) /\ v.heads = Append(w.heads, w.next)
                    /\ v.entries = Append(w.entries, e) /\ v.done = FALSE
<1>1. PICK h : h = BlockAt(w.next)
  OBVIOUS
<1>2. h.typ # "zero" /\ h.typ \notin Extensions /\ ~(w.done \/ w.next + Block > archive.len)
  BY <1>1 DEF Extensions, EntryTypes, Final
<1>3. w.next \in Heads /\ h.size \in Nat
  BY <1>1, <1>2, HeadIs
<1>4. w.heads \in Seq(Heads)
  BY DEF Walks
<1>5. PICK e : e = EntryAt(w.heads, w.next)
  OBVIOUS
<1>6. e = EntryOf(Append(w.heads, w.next)) /\ e.size \in Nat
  BY <1>1, <1>3, <1>4, <1>5, EntryIs, EntryAtSize
<1>7. e \in Ents
  <2>1. Append(w.heads, w.next) \in Seq(Heads)
    BY <1>3, <1>4
  <2> QED
    BY <1>6, <2>1 DEF Ents
<1>8. Onward(w) = CHOOSE x \in {Entered(w, f) : f \in {EntryOf(Append(w.heads, w.next))}} : TRUE
  <2>1. Onward(w) = IF ~Sound(h) \/ h.typ \notin Extensions \cup EntryTypes THEN Stopped(w)
             ELSE IF h.typ \in Extensions
               THEN IF w.next + Block + h.size > archive.len THEN Stopped(w) ELSE Past(w, h.size)
             ELSE CHOOSE x \in {Entered(w, f) : f \in {EntryOf(Append(w.heads, w.next))}} : TRUE
    BY <1>1, <1>2, Zenon DEF Onward
  <2> QED
    BY <1>1, <1>2, <2>1
<1>9. Onward(w) = Entered(w, e)
  <2>1. PICK x : x = Entered(w, e)
    OBVIOUS
  <2>2. {Entered(w, f) : f \in {EntryOf(Append(w.heads, w.next))}} = {x}
    BY <1>6, <2>1
  <2> QED
    BY <1>8, <2>1, <2>2
<1>10. CASE Takes(w.entries, e, w.next)
  <2>1. Onward(w) = [Past(w, e.size) EXCEPT !.entries = Append(@, e)]
    BY <1>9, <1>10 DEF Entered
  <2>2. PICK v : v = Past(w, e.size)
    OBVIOUS
  <2>3. /\ v.next = w.next + Block + Padded(e.size) /\ v.heads = Append(w.heads, w.next)
        /\ v.entries = w.entries /\ v.done = FALSE
        /\ DOMAIN v = {"next", "heads", "entries", "done"}
    BY <2>2, PastIs
  <2>4. Onward(w) = [v EXCEPT !.entries = Append(@, e)]
    BY <2>1, <2>2
  <2>5. /\ Onward(w).next = v.next /\ Onward(w).heads = v.heads /\ Onward(w).done = v.done
        /\ Onward(w).entries = Append(v.entries, e)
    BY <2>3, <2>4
  <2> QED
    BY <1>3, <1>5, <1>6, <1>7, <1>10, <2>3, <2>5
<1>11. CASE ~Takes(w.entries, e, w.next)
  BY <1>3, <1>5, <1>6, <1>7, <1>9, <1>11 DEF Entered
<1> QED
  BY <1>10, <1>11

LEMMA OnwardType ==
    ASSUME archive \in Archives, NEW w \in Walks
    PROVE  Onward(w) \in Walks
<1>1. PICK h : h = BlockAt(w.next)
  OBVIOUS
<1>2. CASE Final(w)
  BY <1>2, OnwardEnd
<1>3. CASE ~Final(w) /\ h.typ = "zero"
  <2>1. Onward(w) = [w EXCEPT !.next = w.next + Block]
    BY <1>1, <1>3 DEF Onward, Final
  <2>2. PICK m \in Nat : m = w.next + Block
    BY Constants DEF Walks
  <2> QED
    BY <2>1, <2>2 DEF Walks
<1>4. ASSUME Onward(w) = Stopped(w) PROVE Onward(w) \in Walks
  BY <1>4 DEF Stopped, Walks
<1>5. CASE ~Final(w) /\ h.typ \in Extensions /\ Sound(h) /\ ~(w.next + Block + h.size > archive.len)
  <2>1. w.next + Block + h.size <= archive.len
    <3>1. w.next \in Nat /\ w.next + Block <= archive.len
      BY <1>5, Constants DEF Walks, Final
    <3>2. h.size \in Int
      BY <1>1, <3>1, HeaderSize
    <3> QED
      BY <1>5, <3>1, <3>2, Constants
  <2>2. h.size \in Nat /\ w.next \in Heads
    BY <1>1, <1>5, <2>1, HeadIs
  <2>3. Onward(w) = Past(w, h.size)
    <3>1. h.typ # "zero"
      BY <1>5 DEF Extensions
    <3> QED
      BY <1>1, <1>5, <3>1 DEF Onward, Final
  <2>4. PICK m \in Nat : m = w.next + Block + Padded(h.size)
    <3>1. PICK q \in Nat : q = Padded(h.size)
      BY <2>2, PaddedIs
    <3> QED
      BY <3>1, Constants DEF Walks
  <2>5. Onward(w) = [w EXCEPT !.next = m, !.heads = Append(w.heads, w.next)]
    BY <2>3, <2>4 DEF Past, Walks
  <2>6. PICK z \in Seq(Heads) : z = Append(w.heads, w.next)
    <3>1. w.heads \in Seq(Heads)
      BY DEF Walks
    <3>2. Append(w.heads, w.next) \in Seq(Heads)
      BY <2>2, <3>1
    <3> QED
      BY <3>2
  <2> QED
    BY <2>5, <2>6 DEF Walks
<1>6. CASE ~Final(w) /\ h.typ \in EntryTypes /\ Sound(h)
  <2>1. PICK e : e = EntryAt(w.heads, w.next)
    OBVIOUS
  <2>2. /\ w.next \in Heads /\ e.size \in Nat /\ e \in Ents
        /\ ~Takes(w.entries, e, w.next) => Onward(w) = Stopped(w)
    BY <1>1, <1>6, <2>1, OnwardEntry
  <2>3. CASE Takes(w.entries, e, w.next)
    <3>1. Onward(w) = [Past(w, e.size) EXCEPT !.entries = Append(@, e)]
      <4>1. h.typ # "zero" /\ h.typ \notin Extensions /\ ~(w.done \/ w.next + Block > archive.len)
        BY <1>6 DEF Extensions, EntryTypes, Final
      <4>2. Onward(w) = IF ~Sound(h) \/ h.typ \notin Extensions \cup EntryTypes THEN Stopped(w)
             ELSE IF h.typ \in Extensions
               THEN IF w.next + Block + h.size > archive.len THEN Stopped(w) ELSE Past(w, h.size)
             ELSE CHOOSE x \in {Entered(w, f) : f \in {EntryOf(Append(w.heads, w.next))}} : TRUE
        BY <1>1, <4>1, Zenon DEF Onward
      <4>3. Onward(w) = CHOOSE x \in {Entered(w, f) : f \in {EntryOf(Append(w.heads, w.next))}} : TRUE
        BY <1>6, <4>1, <4>2
      <4>4. EntryOf(Append(w.heads, w.next)) = e
        <5>1. w.heads \in Seq(Heads)
          BY DEF Walks
        <5> QED
          BY <2>1, <2>2, <5>1, EntryIs
      <4>5. PICK y : y = Entered(w, e)
        OBVIOUS
      <4>6. {Entered(w, f) : f \in {EntryOf(Append(w.heads, w.next))}} = {y}
        BY <4>4, <4>5
      <4>7. Onward(w) = Entered(w, e)
        BY <4>3, <4>5, <4>6
      <4> QED
        BY <2>3, <4>7 DEF Entered
    <3>2. PICK m \in Nat : m = w.next + Block + Padded(e.size)
      <4>1. PICK q \in Nat : q = Padded(e.size)
        BY <2>2, PaddedIs
      <4> QED
        BY <4>1, Constants DEF Walks
    <3>3. PICK z \in Seq(Heads) : z = Append(w.heads, w.next)
      <4>1. w.heads \in Seq(Heads)
        BY DEF Walks
      <4>2. Append(w.heads, w.next) \in Seq(Heads)
        BY <2>2, <4>1
      <4> QED
        BY <4>2
    <3>4. PICK more \in Seq(Ents) : more = Append(w.entries, e)
      <4>1. w.entries \in Seq(Ents)
        BY DEF Walks
      <4>2. Append(w.entries, e) \in Seq(Ents)
        BY <2>2, <4>1
      <4> QED
        BY <4>2
    <3>5. Onward(w) = [w EXCEPT !.next = m, !.heads = z, !.entries = more]
      BY <3>1, <3>2, <3>3, <3>4 DEF Past, Walks
    <3> QED
      BY <3>5 DEF Walks
  <2> QED
    BY <1>4, <2>2, <2>3
<1>7. CASE /\ ~Final(w) /\ h.typ # "zero"
           /\ \/ ~Sound(h)
              \/ h.typ \notin Extensions \cup EntryTypes
              \/ h.typ \in Extensions /\ w.next + Block + h.size > archive.len
  <2>1. Onward(w) = Stopped(w)
    BY <1>1, <1>7, OnwardStopped
  <2> QED
    BY <1>4, <2>1
<1> QED
  BY <1>2, <1>3, <1>5, <1>6, <1>7

Start == [next |-> 0, heads |-> <<>>, entries |-> <<>>, done |-> FALSE]

LEMMA WalkIs ==
    ASSUME archive \in Archives
    PROVE  /\ Walk \in [Nat -> Walks] /\ Walk[0] = Start
           /\ \A n \in Nat : Walk[n + 1] = Onward(Walk[n])
           /\ Meaning = Walk[Len(archive.blocks)].entries
<1> DEFINE step == [w \in Walks |-> Onward(w)]
           F(f) == [n \in Nat |-> IF n = 0 THEN Start
                                  ELSE CHOOSE x \in {Onward(w) : w \in {f[n - 1]}} : TRUE]
<1>1. step \in [Walks -> Walks] /\ \A w \in Walks : step[w] = Onward(w)
  BY OnwardType
<1>2. Start \in Walks
  BY DEF Start, Walks
<1> HIDE DEF step
<1>3. PICK g \in [Nat -> Walks] : g[0] = Start /\ \A k \in Nat : g[k + 1] = step[g[k]]
  <2>1. PICK W : W = Walks
    OBVIOUS
  <2>2. PICK st : st \in [W -> W] /\ st = step
    BY <1>1, <2>1
  <2>3. PICK s0 \in W : s0 = Start
    BY <1>2, <2>1
  <2>4. \E g \in [Nat -> W] : g[0] = s0 /\ \A k \in Nat : g[k + 1] = st[g[k]]
    BY <2>2, NatRun
  <2> QED
    BY <2>1, <2>2, <2>3, <2>4
<1>4. \A y : (CHOOSE x \in {Onward(w) : w \in {y}} : TRUE) = Onward(y)
  <2> SUFFICES ASSUME NEW y PROVE (CHOOSE x \in {Onward(w) : w \in {y}} : TRUE) = Onward(y)
    OBVIOUS
  <2>1. PICK z : z = Onward(y)
    OBVIOUS
  <2>2. {Onward(w) : w \in {y}} = {z}
    BY <2>1
  <2> QED
    BY <2>1, <2>2
<1>5. \A n \in Nat : g[n] = IF n = 0 THEN Start
                            ELSE CHOOSE x \in {Onward(w) : w \in {g[n - 1]}} : TRUE
  <2> SUFFICES ASSUME NEW n \in Nat, n # 0
               PROVE  g[n] = CHOOSE x \in {Onward(w) : w \in {g[n - 1]}} : TRUE
    BY <1>3
  <2>1. PICK k \in Nat : n = k + 1 /\ n - 1 = k
    <3>1. n - 1 \in Nat /\ n = (n - 1) + 1
      OBVIOUS
    <3> QED
      BY <3>1
  <2>2. g[n] = Onward(g[k])
    BY <1>1, <1>3, <2>1
  <2> QED
    BY <1>4, <2>1, <2>2
<1>6. g = F(g)
  <2>1. g = [n \in Nat |-> g[n]]
    BY <1>3
  <2> QED
    BY <1>5, <2>1, Zenon
<1>7. Walk = CHOOSE f : f = F(f)
  BY Zenon DEF Walk, Start
<1>8. Walk = F(Walk)
  <2> HIDE DEF F
  <2> QED
    BY <1>6, <1>7
<1>9. Walk[0] = Start
  BY <1>8
<1>10. \A n \in Nat : Walk[n + 1] = Onward(Walk[n])
  <2> SUFFICES ASSUME NEW n \in Nat PROVE Walk[n + 1] = Onward(Walk[n])
    OBVIOUS
  <2>1. n + 1 \in Nat /\ n + 1 # 0 /\ (n + 1) - 1 = n
    OBVIOUS
  <2>2. Walk[n + 1] = CHOOSE x \in {Onward(w) : w \in {Walk[(n + 1) - 1]}} : TRUE
    BY <1>8, <2>1
  <2> QED
    BY <1>4, <2>1, <2>2
<1> DEFINE T == {n \in Nat : Walk[n] \in Walks}
<1>11. 0 \in T
  BY <1>2, <1>9
<1>12. ASSUME NEW n \in Nat, n \in T PROVE n + 1 \in T
  BY <1>10, <1>12, OnwardType
<1> HIDE DEF T
<1>13. Nat \subseteq T
  BY <1>11, <1>12, NatInductive
<1>14. \A n \in Nat : Walk[n] \in Walks
  BY <1>13 DEF T
<1>15. Walk \in [Nat -> Walks]
  <2>1. Walk = [n \in Nat |-> Walk[n]]
    BY <1>8
  <2> QED
    BY <1>14, <2>1
<1>16. Meaning = Walk[Len(archive.blocks)].entries
  BY Zenon DEF Meaning, Walk
<1> QED
  BY <1>9, <1>10, <1>15, <1>16

\* A step stays, stops, or leaves at least one block behind and adds at most one entry.
LEMMA OnwardSteps ==
    ASSUME archive \in Archives, NEW w \in Walks
    PROVE  LET v == Onward(w)
           IN  \/ Final(w) /\ v = w
               \/ ~Final(w) /\ v.done /\ v.entries = w.entries
               \/ /\ ~Final(w) /\ v.next >= w.next + Block
                  /\ v.entries = w.entries \/ \E e \in Ents : v.entries = Append(w.entries, e)
<1>1. PICK h : h = BlockAt(w.next)
  OBVIOUS
<1>2. PICK v : v = Onward(w)
  OBVIOUS
<1>3. w.next \in Nat /\ Block \in Nat /\ archive.len \in Nat
  BY Constants DEF Walks
<1>4. CASE Final(w)
  BY <1>4, OnwardEnd
<1>5. CASE ~Final(w) /\ h.typ = "zero"
  <2>1. v.next = w.next + Block /\ v.entries = w.entries
    BY <1>1, <1>2, <1>5, OnwardZero
  <2> QED
    BY <1>2, <1>3, <1>5, <2>1
<1>6. CASE /\ ~Final(w) /\ h.typ # "zero"
           /\ \/ ~Sound(h)
              \/ h.typ \notin Extensions \cup EntryTypes
              \/ h.typ \in Extensions /\ w.next + Block + h.size > archive.len
  <2>1. v = Stopped(w)
    BY <1>1, <1>2, <1>6, OnwardStopped
  <2> QED
    BY <1>2, <1>6, <2>1, StoppedIs
<1>7. CASE ~Final(w) /\ h.typ \in Extensions /\ Sound(h) /\ ~(w.next + Block + h.size > archive.len)
  <2>1. w.next + Block + h.size <= archive.len
    <3>1. w.next + Block <= archive.len
      BY <1>3, <1>7 DEF Final
    <3>2. h.size \in Int
      BY <1>1, <1>3, <3>1, HeaderSize
    <3> QED
      BY <1>3, <1>7, <3>2
  <2>2. h.size \in Nat
    BY <1>1, <1>7, <2>1, HeadIs
  <2>3. v.next = w.next + Block + Padded(h.size) /\ v.entries = w.entries
    BY <1>1, <1>2, <1>7, <2>1, <2>2, OnwardHeader
  <2>4. PICK q \in Nat : q = Padded(h.size)
    BY <2>2, PaddedIs
  <2>5. v.next >= w.next + Block
    BY <1>3, <2>3, <2>4
  <2> QED
    BY <1>2, <1>7, <2>3, <2>5
<1>8. CASE ~Final(w) /\ h.typ \in EntryTypes /\ Sound(h)
  <2>1. PICK e : e = EntryAt(w.heads, w.next)
    OBVIOUS
  <2>2. /\ e.size \in Nat /\ e \in Ents
        /\ ~Takes(w.entries, e, w.next) => v = Stopped(w)
        /\ Takes(w.entries, e, w.next) =>
             v.next = w.next + Block + Padded(e.size) /\ v.entries = Append(w.entries, e)
    BY <1>1, <1>2, <1>8, <2>1, OnwardEntry
  <2>3. CASE ~Takes(w.entries, e, w.next)
    BY <1>2, <1>8, <2>2, <2>3, StoppedIs
  <2>4. CASE Takes(w.entries, e, w.next)
    <3>1. PICK q \in Nat : q = Padded(e.size)
      BY <2>2, PaddedIs
    <3>2. v.next >= w.next + Block
      BY <1>3, <2>2, <2>4, <3>1
    <3> QED
      BY <1>2, <1>8, <2>2, <2>4, <3>2
  <2> QED
    BY <2>3, <2>4
<1> QED
  BY <1>4, <1>5, <1>6, <1>7, <1>8

\* Where nothing follows nothing changes.
LEMMA WalkStays ==
    ASSUME archive \in Archives, NEW b \in Nat, Final(Walk[b]), NEW k \in Nat, b <= k
    PROVE  Walk[k] = Walk[b]
<1> DEFINE T == {j \in Nat : Walk[b + j] = Walk[b]}
<1>1. 0 \in T
  OBVIOUS
<1>2. ASSUME NEW j \in Nat, j \in T PROVE j + 1 \in T
  <2>1. PICK m \in Nat : m = b + j
    OBVIOUS
  <2>2. b + (j + 1) = m + 1 /\ Walk[m] = Walk[b]
    BY <1>2, <2>1
  <2>3. Walk[m + 1] = Onward(Walk[m])
    BY WalkIs
  <2>4. Walk[m + 1] = Walk[b]
    BY <2>2, <2>3, OnwardEnd
  <2> QED
    BY <2>2, <2>4
<1> HIDE DEF T
<1>3. Nat \subseteq T
  BY <1>1, <1>2, NatInductive
<1>4. k - b \in Nat /\ b + (k - b) = k
  OBVIOUS
<1> QED
  BY <1>3, <1>4 DEF T

LEMMA PrefixIs ==
    ASSUME NEW S, NEW s \in Seq(S), NEW t \in Seq(S), Len(s) <= Len(t),
           \A i \in 1 .. Len(s) : t[i] = s[i]
    PROVE  IsPrefix(s, t)
<1>1. PICK n \in Nat : n = Len(s)
  OBVIOUS
<1>2. PICK x : x = SubSeq(s, 1, n)
  OBVIOUS
<1>3. PICK y : y = SubSeq(t, 1, n)
  OBVIOUS
<1>4. x \in Seq(S) /\ Len(x) = n /\ \A i \in 1 .. n : x[i] = s[i]
  BY <1>1, <1>2, SubSeqProperties
<1>5. y \in Seq(S) /\ Len(y) = n /\ \A i \in 1 .. n : y[i] = t[i]
  BY <1>1, <1>3, SubSeqProperties
<1>6. x = y
  BY <1>1, <1>4, <1>5, SeqEqual
<1> QED
  BY <1>1, <1>2, <1>3, <1>6 DEF IsPrefix

\* The entries only grow.
LEMMA WalkGrows ==
    ASSUME archive \in Archives, NEW b \in Nat, NEW k \in Nat, b <= k
    PROVE  LET s == Walk[b].entries
               t == Walk[k].entries
           IN  /\ s \in Seq(Ents) /\ t \in Seq(Ents) /\ Len(s) <= Len(t)
               /\ \A i \in 1 .. Len(s) : t[i] = s[i]
<1> DEFINE E(m) == Walk[m].entries
           T == {j \in Nat : Len(E(b)) <= Len(E(b + j)) /\ \A i \in 1 .. Len(E(b)) : E(b + j)[i] = E(b)[i]}
<1>1. \A m \in Nat : Walk[m] \in Walks /\ Walk[m + 1] = Onward(Walk[m])
  BY WalkIs
<1>2. \A m \in Nat : E(m) \in Seq(Ents) /\ Len(E(m)) \in Nat
  BY <1>1 DEF Walks
<1>3. ASSUME NEW m \in Nat
      PROVE  E(m + 1) = E(m) \/ \E e \in Ents : E(m + 1) = Append(E(m), e)
  <2>1. Walk[m] \in Walks /\ Walk[m + 1] = Onward(Walk[m])
    BY <1>1
  <2> QED
    BY <2>1, OnwardSteps
<1> HIDE DEF E
<1>4. 0 \in T
  BY <1>2
<1>5. ASSUME NEW j \in Nat, j \in T PROVE j + 1 \in T
  <2>1. PICK m \in Nat : m = b + j
    OBVIOUS
  <2>2. b + (j + 1) = m + 1
    BY <2>1
  <2>3. Len(E(b)) <= Len(E(m)) /\ \A i \in 1 .. Len(E(b)) : E(m)[i] = E(b)[i]
    BY <1>5, <2>1
  <2>4. CASE E(m + 1) = E(m)
    BY <2>2, <2>3, <2>4
  <2>5. CASE \E e \in Ents : E(m + 1) = Append(E(m), e)
    <3>1. PICK e \in Ents : E(m + 1) = Append(E(m), e)
      BY <2>5
    <3>2. PICK s \in Seq(Ents) : s = E(m)
      BY <1>2
    <3>3. PICK t : t = E(m + 1)
      OBVIOUS
    <3>4. t = Append(s, e) /\ Len(t) = Len(s) + 1 /\ \A i \in 1 .. Len(s) : t[i] = s[i]
      BY <3>1, <3>2, <3>3
    <3>5. PICK n \in Nat : n = Len(E(b))
      BY <1>2
    <3>6. n <= Len(t) /\ \A i \in 1 .. n : t[i] = E(b)[i]
      BY <2>3, <3>2, <3>4, <3>5
    <3> QED
      BY <2>2, <3>3, <3>5, <3>6
  <2> QED
    BY <1>3, <2>4, <2>5
<1> HIDE DEF T
<1>6. Nat \subseteq T
  BY <1>4, <1>5, NatInductive
<1>7. PICK j \in Nat : b + j = k
  <2>1. k - b \in Nat /\ b + (k - b) = k
    OBVIOUS
  <2> QED
    BY <2>1
<1>8. j \in T
  BY <1>6
<1>9. Len(E(b)) <= Len(E(k)) /\ \A i \in 1 .. Len(E(b)) : E(k)[i] = E(b)[i]
  BY <1>7, <1>8 DEF T
<1> QED
  BY <1>2, <1>9 DEF E

\* The reading comes to its end within as many steps as there are blocks.
LEMMA WalkEnds ==
    ASSUME archive \in Archives
    PROVE  LET n == Len(archive.blocks) IN n \in Nat /\ Final(Walk[n])
<1>1. PICK n \in Nat : n = Len(archive.blocks)
  BY Constants
<1>2. /\ Block \in Nat \ {0} /\ archive.len \in Nat
      /\ archive.len <= Block * Len(archive.blocks)
  BY Constants
<1>3. archive.len <= Block * n
  BY <1>1, <1>2
<1> DEFINE T == {k \in Nat : Final(Walk[k]) \/ Walk[k].next >= k * Block}
<1>4. 0 \in T
  <2>1. Walk[0].next = 0 /\ 0 * Block = 0
    BY <1>2, WalkIs DEF Start
  <2> QED
    BY <2>1
<1>5. ASSUME NEW k \in Nat, k \in T PROVE k + 1 \in T
  <2>1. PICK w \in Walks : w = Walk[k]
    BY WalkIs
  <2>2. PICK v : v = Walk[k + 1]
    OBVIOUS
  <2>3. v \in Walks /\ v = Onward(w)
    BY <2>1, <2>2, WalkIs
  <2>4. CASE Final(w)
    <3>1. v = w
      BY <2>3, <2>4, OnwardEnd
    <3>2. Final(Walk[k + 1])
      BY <2>2, <2>4, <3>1
    <3> QED
      BY <3>2
  <2>5. CASE ~Final(w)
    <3>1. v.done \/ v.next >= w.next + Block
      BY <2>3, <2>5, OnwardSteps
    <3>2. CASE v.done
      BY <2>2, <3>2 DEF Final
    <3>3. CASE v.next >= w.next + Block
      <4>1. w.next >= k * Block
        BY <1>5, <2>1, <2>5
      <4>2. w.next \in Nat /\ v.next \in Nat
        BY <2>3 DEF Walks
      <4>3. PICK d \in Nat : d = k * Block
        BY <1>2
      <4>4. (k + 1) * Block = d + Block
        BY <1>2, <4>3
      <4>5. v.next >= (k + 1) * Block
        BY <1>2, <3>3, <4>1, <4>2, <4>3, <4>4
      <4> QED
        BY <2>2, <4>5
    <3> QED
      BY <3>1, <3>2, <3>3
  <2> QED
    BY <2>4, <2>5
<1> HIDE DEF T
<1>6. Nat \subseteq T
  BY <1>4, <1>5, NatInductive
<1>7. Final(Walk[n]) \/ Walk[n].next >= n * Block
  BY <1>6 DEF T
<1>8. CASE Walk[n].next >= n * Block
  <2>1. Walk[n].next \in Nat
    BY WalkIs DEF Walks
  <2>2. PICK d \in Nat : d = n * Block /\ d = Block * n
    BY <1>2
  <2>3. Walk[n].next + Block > archive.len
    BY <1>2, <1>3, <1>8, <2>1, <2>2
  <2> QED
    BY <1>1, <2>3 DEF Final
<1> QED
  BY <1>1, <1>7, <1>8

\* So Meaning is what the reading has got wherever nothing follows, and no less
\* than that anywhere else.
LEMMA MeaningIs ==
    ASSUME archive \in Archives, NEW b \in Nat
    PROVE  /\ IsPrefix(Walk[b].entries, Meaning)
           /\ Final(Walk[b]) => Meaning = Walk[b].entries
<1>1. PICK n \in Nat : n = Len(archive.blocks) /\ Final(Walk[n])
  BY WalkEnds
<1>2. Meaning = Walk[n].entries
  BY <1>1, WalkIs
<1>3. CASE b <= n
  <2>1. PICK s : s = Walk[b].entries
    OBVIOUS
  <2>2. PICK t : t = Walk[n].entries
    OBVIOUS
  <2>3. /\ s \in Seq(Ents) /\ t \in Seq(Ents) /\ Len(s) <= Len(t)
        /\ \A i \in 1 .. Len(s) : t[i] = s[i]
    BY <1>3, <2>1, <2>2, WalkGrows
  <2>4. IsPrefix(s, t)
    BY <2>3, PrefixIs
  <2>5. Final(Walk[b]) => Walk[n] = Walk[b]
    BY <1>3, WalkStays
  <2> QED
    BY <1>2, <2>1, <2>2, <2>4, <2>5
<1>4. CASE ~(b <= n)
  <2>1. Walk[b] = Walk[n]
    BY <1>1, <1>4, WalkStays
  <2> QED
    BY <1>2, <2>1 DEF IsPrefix
<1> QED
  BY <1>3, <1>4

\* What is known at each stage.
Known ==
    [m \in Nat |->
        [xpath |-> Paths(Heard(Walk[m].heads, "x", "path", TRUE)),
         xlink |-> Paths(Heard(Walk[m].heads, "x", "linkpath", TRUE)),
         xsize |-> {u.size : u \in Heard(Walk[m].heads, "x", "size", TRUE)},
         gpath |-> Paths(Heard(Walk[m].heads, "g", "path", FALSE)),
         glink |-> Paths(Heard(Walk[m].heads, "g", "linkpath", FALSE)),
         gsize |-> {u.size : u \in Heard(Walk[m].heads, "g", "size", FALSE)},
         name  |-> HeardName(Walk[m].heads, "L"),
         link  |-> HeardName(Walk[m].heads, "K")]]

LEMMA KnownIs ==
    ASSUME NEW m \in Nat, NEW hs, hs = Walk[m].heads
    PROVE  /\ Known[m].xpath = Paths(Heard(hs, "x", "path", TRUE))
           /\ Known[m].xlink = Paths(Heard(hs, "x", "linkpath", TRUE))
           /\ Known[m].xsize = {u.size : u \in Heard(hs, "x", "size", TRUE)}
           /\ Known[m].gpath = Paths(Heard(hs, "g", "path", FALSE))
           /\ Known[m].glink = Paths(Heard(hs, "g", "linkpath", FALSE))
           /\ Known[m].gsize = {u.size : u \in Heard(hs, "g", "size", FALSE)}
           /\ Known[m].name = HeardName(hs, "L") /\ Known[m].link = HeardName(hs, "K")
<1> DEFINE R(h) == [xpath |-> Paths(Heard(h, "x", "path", TRUE)),
                    xlink |-> Paths(Heard(h, "x", "linkpath", TRUE)),
                    xsize |-> {u.size : u \in Heard(h, "x", "size", TRUE)},
                    gpath |-> Paths(Heard(h, "g", "path", FALSE)),
                    glink |-> Paths(Heard(h, "g", "linkpath", FALSE)),
                    gsize |-> {u.size : u \in Heard(h, "g", "size", FALSE)},
                    name  |-> HeardName(h, "L"),
                    link  |-> HeardName(h, "K")]
<1>1. Known = [k \in Nat |-> R(Walk[k].heads)]
  BY Zenon DEF Known
<1> DEFINE r == R(hs)
<1>2. Known[m] = r
  <2> HIDE DEF R
  <2> QED
    BY <1>1
<1>3. /\ r.xpath = Paths(Heard(hs, "x", "path", TRUE))
      /\ r.xlink = Paths(Heard(hs, "x", "linkpath", TRUE))
      /\ r.xsize = {u.size : u \in Heard(hs, "x", "size", TRUE)}
      /\ r.gpath = Paths(Heard(hs, "g", "path", FALSE))
      /\ r.glink = Paths(Heard(hs, "g", "linkpath", FALSE))
      /\ r.gsize = {u.size : u \in Heard(hs, "g", "size", FALSE)}
      /\ r.name = HeardName(hs, "L") /\ r.link = HeardName(hs, "K")
  OBVIOUS
<1> HIDE DEF r
<1> QED
  BY <1>2, <1>3

\* A block of zeros says nothing.
LEMMA KnownSame ==
    ASSUME NEW b \in Nat, Walk[b + 1].heads = Walk[b].heads
    PROVE  /\ Known[b + 1].xpath = Known[b].xpath /\ Known[b + 1].xlink = Known[b].xlink
           /\ Known[b + 1].xsize = Known[b].xsize /\ Known[b + 1].gpath = Known[b].gpath
           /\ Known[b + 1].glink = Known[b].glink /\ Known[b + 1].gsize = Known[b].gsize
           /\ Known[b + 1].name = Known[b].name /\ Known[b + 1].link = Known[b].link
<1>1. PICK hs : hs = Walk[b].heads
  OBVIOUS
<1>2. PICK c \in Nat : c = b + 1
  OBVIOUS
<1>3. hs = Walk[c].heads
  BY <1>1, <1>2
<1>4. PICK k : k = Known[b]
  OBVIOUS
<1>5. PICK l : l = Known[c]
  OBVIOUS
<1>6. /\ k.xpath = Paths(Heard(hs, "x", "path", TRUE))
      /\ k.xlink = Paths(Heard(hs, "x", "linkpath", TRUE))
      /\ k.xsize = {u.size : u \in Heard(hs, "x", "size", TRUE)}
      /\ k.gpath = Paths(Heard(hs, "g", "path", FALSE))
      /\ k.glink = Paths(Heard(hs, "g", "linkpath", FALSE))
      /\ k.gsize = {u.size : u \in Heard(hs, "g", "size", FALSE)}
      /\ k.name = HeardName(hs, "L") /\ k.link = HeardName(hs, "K")
  BY <1>1, <1>4, KnownIs
<1>7. /\ l.xpath = Paths(Heard(hs, "x", "path", TRUE))
      /\ l.xlink = Paths(Heard(hs, "x", "linkpath", TRUE))
      /\ l.xsize = {u.size : u \in Heard(hs, "x", "size", TRUE)}
      /\ l.gpath = Paths(Heard(hs, "g", "path", FALSE))
      /\ l.glink = Paths(Heard(hs, "g", "linkpath", FALSE))
      /\ l.gsize = {u.size : u \in Heard(hs, "g", "size", FALSE)}
      /\ l.name = HeardName(hs, "L") /\ l.link = HeardName(hs, "K")
  BY <1>3, <1>5, KnownIs
<1> QED
  BY <1>2, <1>4, <1>5, <1>6, <1>7, Zenon

\* An extended header or a long name says what it carries.
LEMMA KnownMore ==
    ASSUME archive \in Archives, NEW b \in Nat, NEW p \in Heads, BlockAt(p).typ \in Extensions,
           Walk[b + 1].heads = Append(Walk[b].heads, p)
    PROVE  LET records == Records(p + Block, BlockAt(p).size)
               typ == BlockAt(p).typ
               k == Known[b]
               l == Known[b + 1]
               Told(t, key, old) == IF typ = t /\ Speaks(records, key)
                                      THEN Paths(LatestOf(records, key)) ELSE old
               Sizes(t, old) == IF typ = t /\ Speaks(records, "size")
                                 THEN {u.size : u \in LatestOf(records, "size")} ELSE old
               Name(t, old) == IF typ = t THEN {LongName(p + Block, BlockAt(p).size)} ELSE old
           IN  /\ l.xpath = Told("x", "path", k.xpath) /\ l.xlink = Told("x", "linkpath", k.xlink)
               /\ l.gpath = Told("g", "path", k.gpath) /\ l.glink = Told("g", "linkpath", k.glink)
               /\ l.xsize = Sizes("x", k.xsize) /\ l.gsize = Sizes("g", k.gsize)
               /\ l.name = Name("L", k.name) /\ l.link = Name("K", k.link)
<1> DEFINE records == Records(p + Block, BlockAt(p).size)
           typ == BlockAt(p).typ
<1>1. PICK hs : hs = Walk[b].heads
  OBVIOUS
<1>2. PICK c \in Nat : c = b + 1
  OBVIOUS
<1>3. PICK z : z = Append(hs, p) /\ z = Walk[c].heads
  BY <1>1, <1>2
<1>4. PICK k : k = Known[b]
  OBVIOUS
<1>5. PICK l : l = Known[c]
  OBVIOUS
<1>6. /\ k.xpath = Paths(Heard(hs, "x", "path", TRUE))
      /\ k.xlink = Paths(Heard(hs, "x", "linkpath", TRUE))
      /\ k.xsize = {u.size : u \in Heard(hs, "x", "size", TRUE)}
      /\ k.gpath = Paths(Heard(hs, "g", "path", FALSE))
      /\ k.glink = Paths(Heard(hs, "g", "linkpath", FALSE))
      /\ k.gsize = {u.size : u \in Heard(hs, "g", "size", FALSE)}
      /\ k.name = HeardName(hs, "L") /\ k.link = HeardName(hs, "K")
  BY <1>1, <1>4, KnownIs
<1>7. /\ l.xpath = Paths(Heard(z, "x", "path", TRUE))
      /\ l.xlink = Paths(Heard(z, "x", "linkpath", TRUE))
      /\ l.xsize = {u.size : u \in Heard(z, "x", "size", TRUE)}
      /\ l.gpath = Paths(Heard(z, "g", "path", FALSE))
      /\ l.glink = Paths(Heard(z, "g", "linkpath", FALSE))
      /\ l.gsize = {u.size : u \in Heard(z, "g", "size", FALSE)}
      /\ l.name = HeardName(z, "L") /\ l.link = HeardName(z, "K")
  BY <1>3, <1>5, KnownIs
<1>8. hs \in Seq(Heads)
  BY <1>1, WalkIs DEF Walks
<1>9. ASSUME NEW t \in Extensions, NEW own \in BOOLEAN, NEW key
      PROVE  Heard(z, t, key, own) = IF typ = t /\ Speaks(records, key) THEN LatestOf(records, key)
                                     ELSE Heard(hs, t, key, own)
  <2>1. Heard(Append(hs, p), t, key, own) =
          IF BlockAt(p).typ = t /\ Speaks(Records(p + Block, BlockAt(p).size), key)
            THEN LatestOf(Records(p + Block, BlockAt(p).size), key)
          ELSE Heard(hs, t, key, own)
    BY <1>8, HeardMore
  <2> QED
    BY <1>3, <2>1
<1>10. ASSUME NEW t
       PROVE  HeardName(z, t) = IF typ = t THEN {LongName(p + Block, BlockAt(p).size)}
                                ELSE HeardName(hs, t)
  <2>1. HeardName(Append(hs, p), t) =
          IF BlockAt(p).typ = t THEN {LongName(p + Block, BlockAt(p).size)} ELSE HeardName(hs, t)
    BY <1>8, NameMore
  <2> QED
    BY <1>3, <2>1
<1>11. "x" \in Extensions /\ "g" \in Extensions
  BY DEF Extensions
<1> HIDE DEF records, typ
<1>12. ASSUME NEW t \in Extensions, NEW own \in BOOLEAN, NEW key
       PROVE  Paths(Heard(z, t, key, own)) = IF typ = t /\ Speaks(records, key) THEN Paths(LatestOf(records, key))
                                             ELSE Paths(Heard(hs, t, key, own))
  <2>1. CASE typ = t /\ Speaks(records, key)
    BY <1>9, <2>1
  <2>2. CASE ~(typ = t /\ Speaks(records, key))
    BY <1>9, <2>2
  <2> QED
    BY <2>1, <2>2
<1>13. ASSUME NEW t \in Extensions, NEW own \in BOOLEAN
       PROVE  {u.size : u \in Heard(z, t, "size", own)} =
                IF typ = t /\ Speaks(records, "size") THEN {u.size : u \in LatestOf(records, "size")}
                ELSE {u.size : u \in Heard(hs, t, "size", own)}
  <2>1. CASE typ = t /\ Speaks(records, "size")
    BY <1>9, <2>1
  <2>2. CASE ~(typ = t /\ Speaks(records, "size"))
    BY <1>9, <2>2
  <2> QED
    BY <2>1, <2>2
<1>14. l.xpath = IF typ = "x" /\ Speaks(records, "path") THEN Paths(LatestOf(records, "path")) ELSE k.xpath
  BY <1>6, <1>7, <1>11, <1>12, Zenon
<1>15. l.xlink = IF typ = "x" /\ Speaks(records, "linkpath")
                   THEN Paths(LatestOf(records, "linkpath")) ELSE k.xlink
  BY <1>6, <1>7, <1>11, <1>12, Zenon
<1>16. l.gpath = IF typ = "g" /\ Speaks(records, "path") THEN Paths(LatestOf(records, "path")) ELSE k.gpath
  BY <1>6, <1>7, <1>11, <1>12, Zenon
<1>17. l.glink = IF typ = "g" /\ Speaks(records, "linkpath")
                   THEN Paths(LatestOf(records, "linkpath")) ELSE k.glink
  BY <1>6, <1>7, <1>11, <1>12, Zenon
<1>18. l.xsize = IF typ = "x" /\ Speaks(records, "size")
                   THEN {u.size : u \in LatestOf(records, "size")} ELSE k.xsize
  BY <1>6, <1>7, <1>11, <1>13, Zenon
<1>19. l.gsize = IF typ = "g" /\ Speaks(records, "size")
                   THEN {u.size : u \in LatestOf(records, "size")} ELSE k.gsize
  BY <1>6, <1>7, <1>11, <1>13, Zenon
<1>20. /\ l.name = IF typ = "L" THEN {LongName(p + Block, BlockAt(p).size)} ELSE k.name
       /\ l.link = IF typ = "K" THEN {LongName(p + Block, BlockAt(p).size)} ELSE k.link
  BY <1>6, <1>7, <1>10, Zenon
<1> QED
  BY <1>2, <1>4, <1>5, <1>14, <1>15, <1>16, <1>17, <1>18, <1>19, <1>20, Zenon DEF records, typ

\* Behind an entry only what holds for all of them is left.
LEMMA KnownBehind ==
    ASSUME archive \in Archives, NEW b \in Nat, NEW p \in Heads, BlockAt(p).typ \notin Extensions,
           Walk[b + 1].heads = Append(Walk[b].heads, p)
    PROVE  LET k == Known[b]
               l == Known[b + 1]
           IN  /\ l.xpath = {} /\ l.xlink = {} /\ l.xsize = {} /\ l.name = {} /\ l.link = {}
               /\ l.gpath = k.gpath /\ l.glink = k.glink /\ l.gsize = k.gsize
<1>1. PICK hs : hs = Walk[b].heads
  OBVIOUS
<1>2. PICK c \in Nat : c = b + 1
  OBVIOUS
<1>3. PICK z : z = Append(hs, p) /\ z = Walk[c].heads
  BY <1>1, <1>2
<1>4. PICK k : k = Known[b]
  OBVIOUS
<1>5. PICK l : l = Known[c]
  OBVIOUS
<1>6. /\ k.gpath = Paths(Heard(hs, "g", "path", FALSE))
      /\ k.glink = Paths(Heard(hs, "g", "linkpath", FALSE))
      /\ k.gsize = {u.size : u \in Heard(hs, "g", "size", FALSE)}
  BY <1>1, <1>4, KnownIs
<1>7. /\ l.xpath = Paths(Heard(z, "x", "path", TRUE))
      /\ l.xlink = Paths(Heard(z, "x", "linkpath", TRUE))
      /\ l.xsize = {u.size : u \in Heard(z, "x", "size", TRUE)}
      /\ l.gpath = Paths(Heard(z, "g", "path", FALSE))
      /\ l.glink = Paths(Heard(z, "g", "linkpath", FALSE))
      /\ l.gsize = {u.size : u \in Heard(z, "g", "size", FALSE)}
      /\ l.name = HeardName(z, "L") /\ l.link = HeardName(z, "K")
  BY <1>3, <1>5, KnownIs
<1>8. hs \in Seq(Heads)
  BY <1>1, WalkIs DEF Walks
<1>9. z \in Seq(Heads)
  <2>1. Append(hs, p) \in Seq(Heads)
    BY <1>8
  <2> QED
    BY <1>3, <2>1
<1>10. "x" \in Extensions /\ "g" \in Extensions
  BY DEF Extensions
<1>11. ASSUME NEW key PROVE Heard(z, "x", key, TRUE) = {}
  <2>1. Lasting(z, "x", TRUE) = {}
    BY <1>3, <1>8, LastingReset
  <2> QED
    BY <1>9, <1>10, <2>1, HeardNothing
<1>12. HeardName(z, "L") = {} /\ HeardName(z, "K") = {}
  BY <1>3, <1>8, LastingReset, NameNothing
<1>13. ASSUME NEW key PROVE Heard(z, "g", key, FALSE) = Heard(hs, "g", key, FALSE)
  <2>1. BlockAt(p).typ # "g"
    BY <1>10
  <2>2. Heard(Append(hs, p), "g", key, FALSE) =
          IF BlockAt(p).typ = "g" /\ Speaks(Records(p + Block, BlockAt(p).size), key)
            THEN LatestOf(Records(p + Block, BlockAt(p).size), key)
          ELSE Heard(hs, "g", key, FALSE)
    BY <1>8, <1>10, HeardMore
  <2> QED
    BY <1>3, <2>1, <2>2
<1>14. Paths({}) = {}
  BY DEF Paths
<1>15. l.xpath = {} /\ l.xlink = {}
  BY <1>7, <1>11, <1>14, Zenon
<1>16. l.xsize = {}
  BY <1>7, <1>11
<1>17. l.gpath = k.gpath /\ l.glink = k.glink
  BY <1>6, <1>7, <1>13, Zenon
<1>18. l.gsize = k.gsize
  <2>1. Heard(z, "g", "size", FALSE) = Heard(hs, "g", "size", FALSE)
    BY <1>13
  <2> QED
    BY <1>6, <1>7, <2>1, Zenon
<1> QED
  BY <1>2, <1>4, <1>5, <1>7, <1>12, <1>15, <1>16, <1>17, <1>18, Zenon

-----------------------------------------------------------------------------
(* The archive does not change, and so all that was said of it so far.     *)

LEMMA KnownFrozen ==
    ASSUME archive' = archive PROVE Known' = Known
<1>1. Walk' = Walk
  BY WalkFrozen
<1> QED
  BY <1>1, SMTT(60) DEF Known, Heard, Carried, HeardName, RecordsOf, Lasting, Records, LongName, BlockAt, UnitAt, Run

LEMMA BlocksFrozen ==
    ASSUME archive' = archive, NEW u PROVE BlockAt(u)' = BlockAt(u)
  BY DEF BlockAt

-----------------------------------------------------------------------------
(* The inductive invariant of the reading.  The cursor stands at three     *)
(* stages of it: the call began at a, has got to b, and calls before this  *)
(* one had got to c.  An error takes the position back to a and leaves     *)
(* pending what was pending, so that each of the pending values is known   *)
(* at some stage from b to c; what is pending twice is the same.           *)

Recalls(b, c, key, x) == \E m \in b .. c : x = Known[m][key]

Between(b, c) ==
    /\ Recalls(b, c, "xpath", px.path) /\ Recalls(b, c, "xlink", px.link)
    /\ Recalls(b, c, "xsize", px.size) /\ Recalls(b, c, "gpath", pg.path)
    /\ Recalls(b, c, "glink", pg.link) /\ Recalls(b, c, "gsize", pg.size)
    /\ Recalls(b, c, "name", gnuName) /\ Recalls(b, c, "link", gnuLink)

StandsAt(a, b, c) ==
    /\ a <= b /\ b <= c
    /\ pos = Walk[a].next
    /\ \A m \in a .. c : ~Walk[m].done /\ Walk[m].entries = emitted
    /\ IF pc = "reading" THEN at = Walk[b].next ELSE b = a
    /\ Between(b, c)

LinkKeys(es) == {Key[Canonical(es[i].path)] : i \in {i \in DOMAIN es : es[i].kind = "link"}}

SaysTheEnd ==
    \/ pos + Block > archive.len /\ emitted = Meaning
    \/ BlockAt(pos - Block).typ = "zero" /\ BlockAt(pos - 2 * Block).typ = "zero"

ReadInv ==
    lost \/ /\ \E a, b, c \in Nat : StandsAt(a, b, c)
            /\ result \in Errors => emitted = Meaning
            /\ result = "end" => SaysTheEnd
            /\ zeros \in {0, 1}
            /\ zeros = 1 => at - Block \in Nat /\ BlockAt(at - Block).typ = "zero"
            /\ ledger.keys = LinkKeys(emitted)

LEMMA RecallsWider ==
    ASSUME NEW a \in Nat, NEW b \in Nat, NEW c \in Nat, NEW d \in Nat, a <= b, c <= d,
           NEW key, NEW x, Recalls(b, c, key, x)
    PROVE  Recalls(a, d, key, x)
<1>1. PICK m \in b .. c : x = Known[m][key]
  BY DEF Recalls
<1>2. m \in a .. d
  OBVIOUS
<1> QED
  BY <1>1, <1>2 DEF Recalls

LEMMA RecallsOn ==
    ASSUME NEW b \in Nat, NEW c \in Nat, NEW d \in Nat, b + 1 <= d, c <= d,
           NEW key, NEW x, Recalls(b, c, key, x), Known[b + 1][key] = Known[b][key]
    PROVE  Recalls(b + 1, d, key, x)
<1>1. PICK m \in b .. c : x = Known[m][key]
  BY DEF Recalls
<1>2. CASE m = b
  <2>1. b + 1 \in b + 1 .. d /\ x = Known[b + 1][key]
    BY <1>1, <1>2
  <2> QED
    BY <2>1 DEF Recalls
<1>3. CASE m # b
  <2>1. m \in b + 1 .. d
    BY <1>3
  <2> QED
    BY <1>1, <2>1 DEF Recalls
<1> QED
  BY <1>2, <1>3

LEMMA RecallsNew ==
    ASSUME NEW b \in Nat, NEW d \in Nat, b <= d, NEW key, NEW x, x = Known[b][key]
    PROVE  Recalls(b, d, key, x)
<1>1. b \in b .. d
  OBVIOUS
<1> QED
  BY <1>1 DEF Recalls

LEMMA RecallsOne ==
    ASSUME NEW b \in Nat, NEW key, NEW x, Recalls(b, b, key, x)
    PROVE  x = Known[b][key]
<1>1. PICK m \in b .. b : x = Known[m][key]
  BY DEF Recalls
<1>2. m = b
  OBVIOUS
<1> QED
  BY <1>1, <1>2

LEMMA StandsLater ==
    ASSUME archive' = archive, NEW a \in Nat, NEW b \in Nat, NEW c \in Nat, a <= b, b <= c,
           pos' = Walk[a].next,
           \A m \in a .. c : ~Walk[m].done /\ Walk[m].entries = emitted',
           IF pc' = "reading" THEN at' = Walk[b].next ELSE b = a,
           Recalls(b, c, "xpath", px.path'), Recalls(b, c, "xlink", px.link'),
           Recalls(b, c, "xsize", px.size'), Recalls(b, c, "gpath", pg.path'),
           Recalls(b, c, "glink", pg.link'), Recalls(b, c, "gsize", pg.size'),
           Recalls(b, c, "name", gnuName'), Recalls(b, c, "link", gnuLink')
    PROVE  StandsAt(a, b, c)'
<1>1. Walk' = Walk /\ Known' = Known
  BY WalkFrozen, KnownFrozen
<1>2. Between(b, c)'
  BY <1>1 DEF Between, Recalls
<1> QED
  BY <1>1, <1>2 DEF StandsAt

\* Nothing was read, or it was not kept.
LEMMA Kept ==
    ASSUME archive \in Archives, archive' = archive, ReadInv, ~lost,
           UNCHANGED <<pos, pending, emitted, lost>>, ledger'.keys = ledger.keys,
           pc' # "reading",
           zeros' = 0 \/ (zeros' = zeros /\ at' = at),
           result' \in Errors => emitted = Meaning,
           result' = "end" => result = "end"
    PROVE  ReadInv'
<1>1. PICK a, b, c \in Nat : StandsAt(a, b, c)
  BY DEF ReadInv
<1>2. /\ a <= b /\ b <= c /\ pos = Walk[a].next
      /\ \A m \in a .. c : ~Walk[m].done /\ Walk[m].entries = emitted
      /\ Between(b, c)
  BY <1>1 DEF StandsAt
<1>3. px' = px /\ pg' = pg /\ gnuName' = gnuName /\ gnuLink' = gnuLink
  BY DEF pending
<1>4. ASSUME NEW key, NEW x, Recalls(b, c, key, x) PROVE Recalls(a, c, key, x)
  BY <1>2, <1>4, RecallsWider
<1>5. /\ Recalls(a, c, "xpath", px.path) /\ Recalls(a, c, "xlink", px.link)
      /\ Recalls(a, c, "xsize", px.size) /\ Recalls(a, c, "gpath", pg.path)
      /\ Recalls(a, c, "glink", pg.link) /\ Recalls(a, c, "gsize", pg.size)
      /\ Recalls(a, c, "name", gnuName) /\ Recalls(a, c, "link", gnuLink)
  BY <1>2, <1>4 DEF Between
<1>6. a <= a /\ a <= c
  BY <1>2
<1>7. StandsAt(a, a, c)'
  BY <1>2, <1>3, <1>5, <1>6, StandsLater
<1>8. Meaning' = Meaning
  BY WalkFrozen
<1>9. SaysTheEnd => SaysTheEnd'
  BY <1>8 DEF SaysTheEnd, BlockAt
<1>10. (zeros = 1 => at - Block \in Nat /\ BlockAt(at - Block).typ = "zero")'
  <2>1. CASE zeros' = 0
    BY <2>1
  <2>2. CASE zeros' = zeros /\ at' = at
    BY <2>2 DEF ReadInv, BlockAt
  <2> QED
    BY <2>1, <2>2
<1>11. (ledger.keys = LinkKeys(emitted))'
  BY DEF ReadInv, LinkKeys
<1>12. zeros' \in {0, 1} /\ (result = "end" => SaysTheEnd)
  BY DEF ReadInv
<1>13. (\E i, j, k \in Nat : StandsAt(i, j, k))'
  BY <1>7
<1>14. (result \in Errors => emitted = Meaning)'
  BY <1>8
<1>15. (result = "end" => SaysTheEnd)'
  BY <1>9, <1>12
<1>16. (zeros \in {0, 1})'
  BY <1>12
<1> QED
  BY <1>10, <1>11, <1>13, <1>14, <1>15, <1>16 DEF ReadInv

\* Where the call reads is where the reading of Meaning is.
LEMMA AtStage ==
    ASSUME archive \in Archives, NEW a \in Nat, NEW b \in Nat, NEW c \in Nat,
           StandsAt(a, b, c), Reading
    PROVE  LET w == Walk[b]
           IN  /\ w \in Walks /\ ~Final(w) /\ w.next = at /\ w.entries = emitted
               /\ Walk[b + 1] = Onward(w)
               /\ at \in Nat /\ at + Block <= archive.len
<1>1. PICK w : w = Walk[b]
  OBVIOUS
<1>2. w \in Walks /\ Walk[b + 1] = Onward(w)
  BY <1>1, WalkIs
<1>3. b \in a .. c /\ at = w.next /\ ~w.done /\ w.entries = emitted
  <2>1. a <= b /\ b <= c /\ \A m \in a .. c : ~Walk[m].done /\ Walk[m].entries = emitted
    BY DEF StandsAt
  <2>2. at = w.next
    BY <1>1 DEF StandsAt, Reading
  <2> QED
    BY <1>1, <2>1, <2>2
<1>4. at \in Nat
  BY <1>2, <1>3 DEF Walks
<1>5. at + Block <= archive.len
  BY DEF Reading
<1>6. ~(at + Block > archive.len)
  BY <1>4, <1>5, Constants
<1> QED
  BY <1>1, <1>2, <1>3, <1>4, <1>5, <1>6 DEF Final

LEMMA StagesOn ==
    ASSUME NEW a \in Nat, NEW b \in Nat, NEW c \in Nat, StandsAt(a, b, c),
           ~Walk[b + 1].done, Walk[b + 1].entries = emitted
    PROVE  \E d \in Nat : /\ b + 1 <= d /\ c <= d
                          /\ \A m \in a .. d : ~Walk[m].done /\ Walk[m].entries = emitted
<1>1. a <= b /\ b <= c /\ \A m \in a .. c : ~Walk[m].done /\ Walk[m].entries = emitted
  BY DEF StandsAt
<1>2. CASE b < c
  BY <1>1, <1>2
<1>3. CASE b = c
  <2>1. \A m \in a .. b + 1 : m \in a .. c \/ m = b + 1
    BY <1>1, <1>3
  <2> QED
    BY <1>1, <1>3, <2>1
<1> QED
  BY <1>1, <1>2, <1>3

LEMMA CallKeeps ==
    ASSUME archive \in Archives, ReadInv, Call PROVE ReadInv'
<1> SUFFICES ASSUME ~lost PROVE ReadInv'
  BY DEF ReadInv, Call, history
<1>1. PICK a, b, c \in Nat : StandsAt(a, b, c)
  BY DEF ReadInv
<1>2. /\ archive' = archive /\ pc' = "reading" /\ at' = pos /\ pos' = pos /\ zeros' = 0
      /\ px' = px /\ pg' = pg /\ gnuName' = gnuName /\ gnuLink' = gnuLink
      /\ emitted' = emitted /\ ledger' = ledger /\ result' = "none" /\ pc = "idle"
  BY DEF Call, opening, pending, history
<1>3. /\ b = a /\ a <= c /\ pos = Walk[a].next /\ Between(a, c)
      /\ \A m \in a .. c : ~Walk[m].done /\ Walk[m].entries = emitted
  BY <1>1, <1>2 DEF StandsAt
<1>4. StandsAt(a, a, c)'
  BY <1>2, <1>3, StandsLater DEF Between
<1>5. (ledger.keys = LinkKeys(emitted))'
  BY <1>2 DEF ReadInv, LinkKeys
<1>6. (\E i, j, k \in Nat : StandsAt(i, j, k))'
  BY <1>4
<1> QED
  BY <1>2, <1>5, <1>6 DEF ReadInv, Errors

LEMMA RunOutKeeps ==
    ASSUME archive \in Archives, ReadInv, RunOut PROVE ReadInv'
<1> SUFFICES ASSUME ~lost PROVE ReadInv'
  BY DEF ReadInv, RunOut, history
<1>1. PICK a, b, c \in Nat : StandsAt(a, b, c)
  BY DEF ReadInv
<1>2. /\ archive' = archive /\ pc' = "idle" /\ pos' = at /\ zeros' = 0
      /\ px' = px /\ pg' = pg /\ gnuName' = gnuName /\ gnuLink' = gnuLink
      /\ emitted' = emitted /\ ledger' = ledger /\ result' = "end" /\ pc = "reading"
      /\ at + Block > archive.len
  BY DEF RunOut, Return, opening, pending, history
<1>3. /\ a <= b /\ b <= c /\ at = Walk[b].next /\ Between(b, c)
      /\ \A m \in a .. c : ~Walk[m].done /\ Walk[m].entries = emitted
  BY <1>1, <1>2 DEF StandsAt
<1>4. b <= b /\ \A m \in b .. c : ~Walk[m].done /\ Walk[m].entries = emitted
  BY <1>3
<1>5. StandsAt(b, b, c)'
  BY <1>2, <1>3, <1>4, StandsLater DEF Between
<1>6. (ledger.keys = LinkKeys(emitted))'
  BY <1>2 DEF ReadInv, LinkKeys
<1>7. (\E i, j, k \in Nat : StandsAt(i, j, k))'
  BY <1>5
<1>8. emitted = Meaning
  <2>1. Final(Walk[b]) /\ b \in b .. c
    BY <1>2, <1>3 DEF Final
  <2> QED
    BY <1>4, <2>1, MeaningIs
<1>9. SaysTheEnd'
  BY <1>2, <1>8, WalkFrozen DEF SaysTheEnd
<1> QED
  BY <1>2, <1>6, <1>7, <1>9 DEF ReadInv, Errors

LEMMA SkipKeeps ==
    ASSUME archive \in Archives, ReadInv, SkipZeros PROVE ReadInv'
<1> SUFFICES ASSUME ~lost PROVE ReadInv'
  BY DEF ReadInv, SkipZeros, history
<1>1. PICK a, b, c \in Nat : StandsAt(a, b, c)
  BY DEF ReadInv
<1>2. /\ archive' = archive /\ Reading /\ BlockAt(at).typ = "zero" /\ pc = "reading"
      /\ px' = px /\ pg' = pg /\ gnuName' = gnuName /\ gnuLink' = gnuLink
      /\ emitted' = emitted /\ ledger' = ledger
  BY DEF SkipZeros, Reading, Header, opening, pending, history
<1>3. PICK w : w = Walk[b]
  OBVIOUS
<1>4. PICK v : v = Walk[b + 1]
  OBVIOUS
<1>5. /\ w \in Walks /\ ~Final(w) /\ w.next = at /\ w.entries = emitted /\ v = Onward(w)
      /\ at \in Nat /\ at + Block <= archive.len
  BY <1>1, <1>2, <1>3, <1>4, AtStage
<1>6. v.next = at + Block /\ v.heads = w.heads /\ v.entries = emitted /\ v.done = FALSE
  BY <1>2, <1>5, OnwardZero
<1>7. PICK d \in Nat : /\ b + 1 <= d /\ c <= d
                       /\ \A m \in a .. d : ~Walk[m].done /\ Walk[m].entries = emitted
  BY <1>1, <1>4, <1>6, StagesOn
<1>8. /\ a <= b /\ b <= c /\ Between(b, c) /\ pos = Walk[a].next
  BY <1>1 DEF StandsAt
<1>9. PICK g \in Nat : g = b + 1
  OBVIOUS
<1>10. /\ Known[g].xpath = Known[b].xpath /\ Known[g].xlink = Known[b].xlink
       /\ Known[g].xsize = Known[b].xsize /\ Known[g].gpath = Known[b].gpath
       /\ Known[g].glink = Known[b].glink /\ Known[g].gsize = Known[b].gsize
       /\ Known[g].name = Known[b].name /\ Known[g].link = Known[b].link
  BY <1>3, <1>4, <1>6, <1>9, KnownSame
<1>11. ASSUME NEW key, NEW x, Recalls(b, c, key, x), Known[g][key] = Known[b][key]
       PROVE  Recalls(g, d, key, x)
  BY <1>7, <1>9, <1>11, RecallsOn
<1>12. /\ Recalls(g, d, "xpath", px.path) /\ Recalls(g, d, "xlink", px.link)
       /\ Recalls(g, d, "xsize", px.size) /\ Recalls(g, d, "gpath", pg.path)
       /\ Recalls(g, d, "glink", pg.link) /\ Recalls(g, d, "gsize", pg.size)
       /\ Recalls(g, d, "name", gnuName) /\ Recalls(g, d, "link", gnuLink)
  BY <1>8, <1>10, <1>11 DEF Between
<1>13. (ledger.keys = LinkKeys(emitted))'
  BY <1>2 DEF ReadInv, LinkKeys
<1>14. CASE zeros = 1
  <2>1. pc' = "idle" /\ result' = "end" /\ zeros' = 0 /\ pos' = at + Block
    BY <1>14 DEF SkipZeros, Return
  <2>2. g <= g /\ g <= d /\ pos' = Walk[g].next /\ \A m \in g .. d : m \in a .. d
    BY <1>4, <1>6, <1>7, <1>8, <1>9, <2>1
  <2>3. StandsAt(g, g, d)'
    BY <1>2, <1>7, <1>12, <2>1, <2>2, StandsLater
  <2>4. (\E i, j, k \in Nat : StandsAt(i, j, k))'
    BY <2>3
  <2>5. SaysTheEnd'
    <3>1. at - Block \in Nat /\ BlockAt(at - Block).typ = "zero"
      BY <1>14 DEF ReadInv
    <3>2. pos' - Block = at /\ pos' - 2 * Block = at - Block
      BY <1>5, <2>1, Constants
    <3>3. PICK p : p = at - Block
      OBVIOUS
    <3>4. BlockAt(at).typ = "zero" /\ BlockAt(p).typ = "zero" /\ pos' - Block = at /\ pos' - 2 * Block = p
      BY <1>2, <3>1, <3>2, <3>3
    <3>5. (BlockAt(pos - Block).typ = "zero" /\ BlockAt(pos - 2 * Block).typ = "zero")'
      BY <1>2, <3>4 DEF BlockAt
    <3> QED
      BY <3>5 DEF SaysTheEnd
  <2> QED
    BY <1>13, <2>1, <2>4, <2>5 DEF ReadInv, Errors
<1>15. CASE zeros # 1
  <2>1. pc' = "reading" /\ result' = result /\ zeros' = zeros + 1 /\ at' = at + Block /\ pos' = pos
    BY <1>2, <1>15 DEF SkipZeros
  <2>2. a <= g /\ g <= d /\ at' = Walk[g].next
    BY <1>4, <1>6, <1>7, <1>8, <1>9, <2>1
  <2>3. StandsAt(a, g, d)'
    BY <1>2, <1>7, <1>8, <1>12, <2>1, <2>2, StandsLater
  <2>4. (\E i, j, k \in Nat : StandsAt(i, j, k))'
    BY <2>3
  <2>5. zeros' \in {0, 1}
    BY <1>15, <2>1 DEF ReadInv
  <2>6. (zeros = 1 => at - Block \in Nat /\ BlockAt(at - Block).typ = "zero")'
    <3>1. at' - Block = at
      BY <1>5, <2>1, Constants
    <3> QED
      BY <1>2, <1>5, <3>1 DEF BlockAt
  <2>7. (result \in Errors => emitted = Meaning)'
    BY <1>2, <2>1, WalkFrozen DEF ReadInv
  <2>8. (result = "end" => SaysTheEnd)'
    <3>1. result = "end" => SaysTheEnd
      BY DEF ReadInv
    <3>2. SaysTheEnd => SaysTheEnd'
      BY <1>2, <2>1, WalkFrozen DEF SaysTheEnd, BlockAt
    <3> QED
      BY <2>1, <3>1, <3>2
  <2> QED
    BY <1>13, <2>4, <2>5, <2>6, <2>7, <2>8 DEF ReadInv
<1> QED
  BY <1>14, <1>15

LEMMA RecallsNext ==
    ASSUME NEW b \in Nat, NEW c \in Nat, NEW d \in Nat, b + 1 <= d, c <= d,
           NEW key, NEW x, NEW y, NEW z, NEW B, Recalls(b, c, key, x),
           Known[b + 1][key] = IF B THEN y ELSE Known[b][key],
           z = IF B THEN y ELSE x
    PROVE  Recalls(b + 1, d, key, z)
<1>1. CASE B
  BY <1>1, RecallsNew
<1>2. CASE ~B
  BY <1>2, RecallsOn
<1> QED
  BY <1>1, <1>2

LEMMA StillSays ==
    ASSUME archive' = archive, ReadInv, ~lost, result' = result, pos' = pos, emitted' = emitted
    PROVE  /\ (result \in Errors => emitted = Meaning)'
           /\ (result = "end" => SaysTheEnd)'
<1>1. (result \in Errors => emitted = Meaning)'
  BY WalkFrozen DEF ReadInv
<1>2. result = "end" => SaysTheEnd
  BY DEF ReadInv
<1>3. SaysTheEnd => SaysTheEnd'
  BY WalkFrozen DEF SaysTheEnd, BlockAt
<1> QED
  BY <1>1, <1>2, <1>3

\* A header whose content is read is behind the stage, what it says at the next one.
LEMMA HeaderOn ==
    ASSUME archive \in Archives, NEW a \in Nat, NEW b \in Nat, NEW c \in Nat, StandsAt(a, b, c),
           Reading, Sound(Header), Header.typ \in Extensions, at + Block + Header.size <= archive.len
    PROVE  /\ at \in Heads /\ Header.size \in Nat
           /\ Walk[b + 1].next = at + Block + Padded(Header.size)
           /\ Walk[b + 1].heads = Append(Walk[b].heads, at)
           /\ \E d \in Nat : /\ b + 1 <= d /\ c <= d
                             /\ \A m \in a .. d : ~Walk[m].done /\ Walk[m].entries = emitted
<1>1. PICK w : w = Walk[b]
  OBVIOUS
<1>2. PICK v : v = Walk[b + 1]
  OBVIOUS
<1>3. /\ w \in Walks /\ ~Final(w) /\ w.next = at /\ w.entries = emitted /\ v = Onward(w)
      /\ at \in Nat /\ at + Block <= archive.len
  BY <1>1, <1>2, AtStage
<1>4. PICK h : h = BlockAt(w.next)
  OBVIOUS
<1>5. h = Header
  BY <1>3, <1>4 DEF Header
<1>6. Header.size \in Nat /\ at \in Heads
  <2>1. Sound(BlockAt(w.next)) /\ w.next + Block + BlockAt(w.next).size <= archive.len
    BY <1>3, <1>4, <1>5
  <2>2. BlockAt(w.next).size \in Nat /\ w.next \in Heads
    BY <1>3, <2>1, HeadIs
  <2> QED
    BY <1>3, <1>4, <1>5, <2>2
<1>7. v.next = w.next + Block + Padded(h.size) /\ v.heads = Append(w.heads, w.next) /\ v.entries = w.entries
      /\ v.done = FALSE
  <2>1. /\ BlockAt(w.next).typ \in Extensions /\ Sound(BlockAt(w.next))
        /\ w.next + Block + BlockAt(w.next).size <= archive.len /\ BlockAt(w.next).size \in Nat
    BY <1>3, <1>4, <1>5, <1>6
  <2> QED
    BY <1>3, <1>4, <2>1, OnwardHeader
<1>8. ~Walk[b + 1].done /\ Walk[b + 1].entries = emitted
  BY <1>2, <1>3, <1>7
<1>9. \E d \in Nat : /\ b + 1 <= d /\ c <= d
                     /\ \A m \in a .. d : ~Walk[m].done /\ Walk[m].entries = emitted
  BY <1>8, StagesOn
<1> QED
  BY <1>1, <1>2, <1>3, <1>5, <1>6, <1>7, <1>9

LEMMA ExtendedKeeps ==
    ASSUME archive \in Archives, ReadInv, Extended PROVE ReadInv'
<1> SUFFICES ASSUME ~lost' PROVE ReadInv'
  BY DEF ReadInv
<1>1. PICK recs : recs = Records(at + Block, Header.size)
  OBVIOUS
<1>2. PICK typ : typ = Header.typ
  OBVIOUS
<1>3. /\ Reading /\ Sound(Header) /\ typ \in {"x", "g"} /\ at + Block + Header.size <= archive.len
      /\ pc = "reading"
  BY <1>2 DEF Extended, Carries, Reading
<1>4. PICK bad : /\ lost' = (lost \/ bad # 0)
                 /\ px' = IF typ = "x" THEN Parsed(px, recs, bad) ELSE px
                 /\ pg' = IF typ = "g" THEN Parsed(pg, recs, bad) ELSE pg
  BY <1>1, <1>2 DEF Extended
<1>5. ~lost /\ bad = 0
  BY <1>4
<1>6. /\ archive' = archive /\ gnuName' = gnuName /\ gnuLink' = gnuLink /\ ledger' = ledger
      /\ emitted' = emitted /\ at' = at + Block + Padded(Header.size) /\ zeros' = 0
      /\ pc' = pc /\ pos' = pos /\ result' = result
  BY DEF Extended, GoOn, opening
<1>7. PICK a, b, c \in Nat : StandsAt(a, b, c)
  BY <1>5 DEF ReadInv
<1>8. /\ a <= b /\ b <= c /\ Between(b, c) /\ pos = Walk[a].next
  BY <1>7 DEF StandsAt
<1>9. typ \in Extensions /\ typ # "L" /\ typ # "K"
  BY <1>3 DEF Extensions
<1>10. /\ at \in Heads /\ Header.size \in Nat
       /\ Walk[b + 1].next = at + Block + Padded(Header.size)
       /\ Walk[b + 1].heads = Append(Walk[b].heads, at)
       /\ \E d \in Nat : /\ b + 1 <= d /\ c <= d
                         /\ \A m \in a .. d : ~Walk[m].done /\ Walk[m].entries = emitted
  BY <1>2, <1>3, <1>7, <1>9, HeaderOn
<1>11. PICK d \in Nat : /\ b + 1 <= d /\ c <= d
                        /\ \A m \in a .. d : ~Walk[m].done /\ Walk[m].entries = emitted
  BY <1>10
<1>12. PICK k : k = Known[b]
  OBVIOUS
<1>13. PICK l : l = Known[b + 1]
  OBVIOUS
<1>14. /\ l.xpath = IF typ = "x" /\ Speaks(recs, "path") THEN Paths(LatestOf(recs, "path")) ELSE k.xpath
       /\ l.xlink = IF typ = "x" /\ Speaks(recs, "linkpath")
                      THEN Paths(LatestOf(recs, "linkpath")) ELSE k.xlink
       /\ l.gpath = IF typ = "g" /\ Speaks(recs, "path") THEN Paths(LatestOf(recs, "path")) ELSE k.gpath
       /\ l.glink = IF typ = "g" /\ Speaks(recs, "linkpath")
                      THEN Paths(LatestOf(recs, "linkpath")) ELSE k.glink
       /\ l.xsize = IF typ = "x" /\ Speaks(recs, "size")
                      THEN {u.size : u \in LatestOf(recs, "size")} ELSE k.xsize
       /\ l.gsize = IF typ = "g" /\ Speaks(recs, "size")
                      THEN {u.size : u \in LatestOf(recs, "size")} ELSE k.gsize
       /\ l.name = k.name /\ l.link = k.link
  <2>1. BlockAt(at) = Header
    BY DEF Header
  <2>2. BlockAt(at).typ \in Extensions /\ BlockAt(at).typ = typ /\ recs = Records(at + Block, BlockAt(at).size)
    BY <1>1, <1>2, <1>9, <2>1
  <2>3. /\ l.xpath = IF typ = "x" /\ Speaks(recs, "path") THEN Paths(LatestOf(recs, "path")) ELSE k.xpath
        /\ l.xlink = IF typ = "x" /\ Speaks(recs, "linkpath")
                       THEN Paths(LatestOf(recs, "linkpath")) ELSE k.xlink
        /\ l.gpath = IF typ = "g" /\ Speaks(recs, "path") THEN Paths(LatestOf(recs, "path")) ELSE k.gpath
        /\ l.glink = IF typ = "g" /\ Speaks(recs, "linkpath")
                       THEN Paths(LatestOf(recs, "linkpath")) ELSE k.glink
        /\ l.xsize = IF typ = "x" /\ Speaks(recs, "size")
                       THEN {u.size : u \in LatestOf(recs, "size")} ELSE k.xsize
        /\ l.gsize = IF typ = "g" /\ Speaks(recs, "size")
                       THEN {u.size : u \in LatestOf(recs, "size")} ELSE k.gsize
        /\ l.name = IF typ = "L" THEN {LongName(at + Block, BlockAt(at).size)} ELSE k.name
        /\ l.link = IF typ = "K" THEN {LongName(at + Block, BlockAt(at).size)} ELSE k.link
    BY <1>10, <1>12, <1>13, <2>2, KnownMore
  <2> QED
    BY <1>9, <2>3
<1>15. recs \in Seq(AllUnits)
  <2>1. PICK p \in Nat : p = at + Block
    BY <1>10, Constants DEF Heads
  <2>2. PICK z \in Nat : z = Header.size /\ p + z <= archive.len
    BY <1>3, <1>10, <2>1
  <2> QED
    BY <1>1, <2>1, <2>2, RecordsType
<1>16. /\ px'.path = IF typ = "x" /\ Speaks(recs, "path") THEN Paths(LatestOf(recs, "path")) ELSE px.path
       /\ px'.link = IF typ = "x" /\ Speaks(recs, "linkpath")
                       THEN Paths(LatestOf(recs, "linkpath")) ELSE px.link
       /\ px'.size = IF typ = "x" /\ Speaks(recs, "size")
                       THEN {u.size : u \in LatestOf(recs, "size")} ELSE px.size
  <2>1. CASE typ = "x"
    <3>1. PICK new : new = Parsed(px, recs, 0)
      OBVIOUS
    <3>2. /\ new.path = IF Speaks(recs, "path") THEN Paths(LatestOf(recs, "path")) ELSE px.path
          /\ new.link = IF Speaks(recs, "linkpath") THEN Paths(LatestOf(recs, "linkpath")) ELSE px.link
          /\ new.size = IF Speaks(recs, "size") THEN {u.size : u \in LatestOf(recs, "size")} ELSE px.size
      BY <1>15, <3>1, ParsedIs
    <3>3. px' = new
      BY <1>4, <1>5, <2>1, <3>1
    <3> QED
      BY <2>1, <3>2, <3>3
  <2>2. CASE typ # "x"
    BY <1>4, <2>2
  <2> QED
    BY <2>1, <2>2
<1>17. /\ pg'.path = IF typ = "g" /\ Speaks(recs, "path") THEN Paths(LatestOf(recs, "path")) ELSE pg.path
       /\ pg'.link = IF typ = "g" /\ Speaks(recs, "linkpath")
                       THEN Paths(LatestOf(recs, "linkpath")) ELSE pg.link
       /\ pg'.size = IF typ = "g" /\ Speaks(recs, "size")
                       THEN {u.size : u \in LatestOf(recs, "size")} ELSE pg.size
  <2>1. CASE typ = "g"
    <3>1. PICK new : new = Parsed(pg, recs, 0)
      OBVIOUS
    <3>2. /\ new.path = IF Speaks(recs, "path") THEN Paths(LatestOf(recs, "path")) ELSE pg.path
          /\ new.link = IF Speaks(recs, "linkpath") THEN Paths(LatestOf(recs, "linkpath")) ELSE pg.link
          /\ new.size = IF Speaks(recs, "size") THEN {u.size : u \in LatestOf(recs, "size")} ELSE pg.size
      BY <1>15, <3>1, ParsedIs
    <3>3. pg' = new
      BY <1>4, <1>5, <2>1, <3>1
    <3> QED
      BY <2>1, <3>2, <3>3
  <2>2. CASE typ # "g"
    BY <1>4, <2>2
  <2> QED
    BY <2>1, <2>2
<1>18. ASSUME NEW key, NEW x, NEW y, NEW z, NEW B, Recalls(b, c, key, x),
              l[key] = IF B THEN y ELSE k[key], z = IF B THEN y ELSE x
       PROVE  Recalls(b + 1, d, key, z)
  BY <1>11, <1>12, <1>13, <1>18, RecallsNext
<1>19. Recalls(b + 1, d, "xpath", px'.path)
  BY <1>8, <1>14, <1>16, <1>18 DEF Between
<1>20. Recalls(b + 1, d, "xlink", px'.link)
  BY <1>8, <1>14, <1>16, <1>18 DEF Between
<1>21. Recalls(b + 1, d, "xsize", px'.size)
  BY <1>8, <1>14, <1>16, <1>18 DEF Between
<1>22. Recalls(b + 1, d, "gpath", pg'.path)
  BY <1>8, <1>14, <1>17, <1>18 DEF Between
<1>23. Recalls(b + 1, d, "glink", pg'.link)
  BY <1>8, <1>14, <1>17, <1>18 DEF Between
<1>24. Recalls(b + 1, d, "gsize", pg'.size)
  BY <1>8, <1>14, <1>17, <1>18 DEF Between
<1>25. Recalls(b + 1, d, "name", gnuName) /\ Recalls(b + 1, d, "link", gnuLink)
  BY <1>8, <1>11, <1>12, <1>13, <1>14, RecallsOn DEF Between
<1>26. PICK g \in Nat : g = b + 1
  OBVIOUS
<1>27. StandsAt(a, g, d)'
  <2>1. a <= g /\ g <= d
    BY <1>8, <1>11, <1>26
  <2>2. pos' = Walk[a].next /\ at' = Walk[g].next /\ pc' = "reading"
    BY <1>3, <1>6, <1>8, <1>10, <1>26
  <2>3. \A m \in a .. d : ~Walk[m].done /\ Walk[m].entries = emitted'
    BY <1>6, <1>11
  <2>4. /\ Recalls(g, d, "xpath", px'.path) /\ Recalls(g, d, "xlink", px'.link)
        /\ Recalls(g, d, "xsize", px'.size) /\ Recalls(g, d, "gpath", pg'.path)
        /\ Recalls(g, d, "glink", pg'.link) /\ Recalls(g, d, "gsize", pg'.size)
        /\ Recalls(g, d, "name", gnuName') /\ Recalls(g, d, "link", gnuLink')
    BY <1>6, <1>19, <1>20, <1>21, <1>22, <1>23, <1>24, <1>25, <1>26
  <2> QED
    BY <1>6, <2>1, <2>2, <2>3, <2>4, StandsLater
<1>28. (\E i, j, m \in Nat : StandsAt(i, j, m))'
  BY <1>27
<1>29. (ledger.keys = LinkKeys(emitted))'
  BY <1>5, <1>6 DEF ReadInv, LinkKeys
<1>30. (result \in Errors => emitted = Meaning)' /\ (result = "end" => SaysTheEnd)'
  BY <1>5, <1>6, StillSays
<1> QED
  BY <1>6, <1>28, <1>29, <1>30 DEF ReadInv

LEMMA LongNamedKeeps ==
    ASSUME archive \in Archives, ReadInv, LongNamed PROVE ReadInv'
<1>1. CASE Fault /\ Fail("OOM") /\ UNCHANGED <<opening, entry>>
  <2> SUFFICES ASSUME ~lost PROVE ReadInv'
    BY <1>1 DEF ReadInv, Fail
  <2>1. /\ archive' = archive /\ UNCHANGED <<pos, pending, emitted, lost>> /\ ledger'.keys = ledger.keys
        /\ pc' # "reading" /\ zeros' = 0 /\ result' = "OOM"
    BY <1>1 DEF Fail, Return, opening
  <2>2. result' \notin Errors /\ result' # "end"
    BY <2>1 DEF Errors
  <2> QED
    BY <2>1, <2>2, Kept
<1>2. CASE ~(Fault /\ Fail("OOM") /\ UNCHANGED <<opening, entry>>)
  <2>1. PICK name : name = LongName(at + Block, Header.size)
    OBVIOUS
  <2>2. PICK typ : typ = Header.typ
    OBVIOUS
  <2>3. /\ Reading /\ Sound(Header) /\ typ \in {"L", "K"} /\ at + Block + Header.size <= archive.len
        /\ pc = "reading"
    BY <2>2 DEF LongNamed, Carries, Reading
  <2>4. /\ gnuName' = IF typ = "L" THEN {name} ELSE gnuName
        /\ gnuLink' = IF typ = "K" THEN {name} ELSE gnuLink
        /\ GoOn /\ UNCHANGED <<opening, px, pg, ledger, entry, history>>
    BY <1>2, <2>1, <2>2 DEF LongNamed
  <2>5. /\ archive' = archive /\ px' = px /\ pg' = pg /\ ledger' = ledger /\ lost' = lost
        /\ emitted' = emitted /\ at' = at + Block + Padded(Header.size) /\ zeros' = 0
        /\ pc' = pc /\ pos' = pos /\ result' = result
    BY <2>4 DEF GoOn, opening, history
  <2> SUFFICES ASSUME ~lost PROVE ReadInv'
    BY <2>5 DEF ReadInv
  <2>6. PICK a, b, c \in Nat : StandsAt(a, b, c)
    BY DEF ReadInv
  <2>7. /\ a <= b /\ b <= c /\ Between(b, c) /\ pos = Walk[a].next
    BY <2>6 DEF StandsAt
  <2>8. typ \in Extensions /\ typ # "x" /\ typ # "g"
    BY <2>3 DEF Extensions
  <2>9. /\ at \in Heads /\ Header.size \in Nat
        /\ Walk[b + 1].next = at + Block + Padded(Header.size)
        /\ Walk[b + 1].heads = Append(Walk[b].heads, at)
        /\ \E d \in Nat : /\ b + 1 <= d /\ c <= d
                          /\ \A m \in a .. d : ~Walk[m].done /\ Walk[m].entries = emitted
    BY <2>2, <2>3, <2>6, <2>8, HeaderOn
  <2>10. PICK d \in Nat : /\ b + 1 <= d /\ c <= d
                          /\ \A m \in a .. d : ~Walk[m].done /\ Walk[m].entries = emitted
    BY <2>9
  <2>11. PICK k : k = Known[b]
    OBVIOUS
  <2>12. PICK l : l = Known[b + 1]
    OBVIOUS
  <2>13. /\ l.xpath = k.xpath /\ l.xlink = k.xlink /\ l.gpath = k.gpath /\ l.glink = k.glink
         /\ l.xsize = k.xsize /\ l.gsize = k.gsize
         /\ l.name = IF typ = "L" THEN {name} ELSE k.name
         /\ l.link = IF typ = "K" THEN {name} ELSE k.link
    <3>1. BlockAt(at) = Header
      BY DEF Header
    <3>2. PICK recs : recs = Records(at + Block, BlockAt(at).size)
      OBVIOUS
    <3>3. BlockAt(at).typ \in Extensions /\ BlockAt(at).typ = typ /\ name = LongName(at + Block, BlockAt(at).size)
      BY <2>1, <2>2, <2>8, <3>1
    <3>4. /\ l.xpath = IF typ = "x" /\ Speaks(recs, "path") THEN Paths(LatestOf(recs, "path")) ELSE k.xpath
          /\ l.xlink = IF typ = "x" /\ Speaks(recs, "linkpath")
                         THEN Paths(LatestOf(recs, "linkpath")) ELSE k.xlink
          /\ l.gpath = IF typ = "g" /\ Speaks(recs, "path") THEN Paths(LatestOf(recs, "path")) ELSE k.gpath
          /\ l.glink = IF typ = "g" /\ Speaks(recs, "linkpath")
                         THEN Paths(LatestOf(recs, "linkpath")) ELSE k.glink
          /\ l.xsize = IF typ = "x" /\ Speaks(recs, "size")
                         THEN {u.size : u \in LatestOf(recs, "size")} ELSE k.xsize
          /\ l.gsize = IF typ = "g" /\ Speaks(recs, "size")
                         THEN {u.size : u \in LatestOf(recs, "size")} ELSE k.gsize
          /\ l.name = IF typ = "L" THEN {name} ELSE k.name
          /\ l.link = IF typ = "K" THEN {name} ELSE k.link
      BY <2>9, <2>11, <2>12, <3>2, <3>3, KnownMore
    <3> QED
      BY <2>8, <3>4
  <2>14. ASSUME NEW key, NEW x, NEW y, NEW z, NEW B, Recalls(b, c, key, x),
                l[key] = IF B THEN y ELSE k[key], z = IF B THEN y ELSE x
         PROVE  Recalls(b + 1, d, key, z)
    BY <2>10, <2>11, <2>12, <2>14, RecallsNext
  <2>15. ASSUME NEW key, NEW x, Recalls(b, c, key, x), l[key] = k[key]
         PROVE  Recalls(b + 1, d, key, x)
    BY <2>10, <2>11, <2>12, <2>15, RecallsOn
  <2>16. Recalls(b + 1, d, "name", gnuName')
    BY <2>4, <2>7, <2>13, <2>14 DEF Between
  <2>17. Recalls(b + 1, d, "link", gnuLink')
    BY <2>4, <2>7, <2>13, <2>14 DEF Between
  <2>18. /\ Recalls(b + 1, d, "xpath", px.path) /\ Recalls(b + 1, d, "xlink", px.link)
         /\ Recalls(b + 1, d, "xsize", px.size) /\ Recalls(b + 1, d, "gpath", pg.path)
         /\ Recalls(b + 1, d, "glink", pg.link) /\ Recalls(b + 1, d, "gsize", pg.size)
    BY <2>7, <2>13, <2>15 DEF Between
  <2>19. PICK g \in Nat : g = b + 1
    OBVIOUS
  <2>20. StandsAt(a, g, d)'
    <3>1. a <= g /\ g <= d
      BY <2>7, <2>10, <2>19
    <3>2. pos' = Walk[a].next /\ at' = Walk[g].next /\ pc' = "reading"
      BY <2>3, <2>5, <2>7, <2>9, <2>19
    <3>3. \A m \in a .. d : ~Walk[m].done /\ Walk[m].entries = emitted'
      BY <2>5, <2>10
    <3>4. /\ Recalls(g, d, "xpath", px'.path) /\ Recalls(g, d, "xlink", px'.link)
          /\ Recalls(g, d, "xsize", px'.size) /\ Recalls(g, d, "gpath", pg'.path)
          /\ Recalls(g, d, "glink", pg'.link) /\ Recalls(g, d, "gsize", pg'.size)
          /\ Recalls(g, d, "name", gnuName') /\ Recalls(g, d, "link", gnuLink')
      BY <2>5, <2>16, <2>17, <2>18, <2>19
    <3> QED
      BY <2>5, <3>1, <3>2, <3>3, <3>4, StandsLater
  <2>21. (\E i, j, m \in Nat : StandsAt(i, j, m))'
    BY <2>20
  <2>22. (ledger.keys = LinkKeys(emitted))'
    BY <2>5 DEF ReadInv, LinkKeys
  <2>23. (result \in Errors => emitted = Meaning)' /\ (result = "end" => SaysTheEnd)'
    BY <2>5, StillSays
  <2> QED
    BY <2>5, <2>21, <2>22, <2>23 DEF ReadInv
<1> QED
  BY <1>1, <1>2

\* Where the reading of Meaning stops all entries are there.
LEMMA StopsHere ==
    ASSUME archive \in Archives, NEW b \in Nat, Walk[b].entries = emitted, Onward(Walk[b]) = Stopped(Walk[b])
    PROVE  emitted = Meaning /\ Walk[b + 1].done
<1>1. PICK w \in Walks : w = Walk[b]
  BY WalkIs
<1>2. PICK c \in Nat : c = b + 1
  OBVIOUS
<1>3. Walk[c] = Stopped(w)
  BY <1>1, <1>2, WalkIs
<1>4. Walk[c].done /\ Walk[c].entries = emitted
  BY <1>1, <1>3, StoppedIs
<1>5. Final(Walk[c])
  BY <1>4 DEF Final
<1>6. Meaning = Walk[c].entries
  BY <1>5, MeaningIs
<1> QED
  BY <1>2, <1>4, <1>6

\* A header no call gets past.
LEMMA HeaderStops ==
    ASSUME archive \in Archives, ReadInv, ~lost, Reading, Header.typ # "zero",
           \/ ~Sound(Header)
           \/ Header.typ \notin Extensions \cup EntryTypes
           \/ Header.typ \in Extensions /\ at + Block + Header.size > archive.len
    PROVE  emitted = Meaning
<1>1. PICK a, b, c \in Nat : StandsAt(a, b, c)
  BY DEF ReadInv
<1>2. PICK w : w = Walk[b]
  OBVIOUS
<1>3. /\ w \in Walks /\ ~Final(w) /\ w.next = at /\ w.entries = emitted
  BY <1>1, <1>2, AtStage
<1>4. BlockAt(w.next) = Header
  BY <1>3 DEF Header
<1>5. Onward(w) = Stopped(w)
  BY <1>3, <1>4, OnwardStopped
<1> QED
  BY <1>2, <1>3, <1>5, StopsHere

\* At the header of an entry no earlier call has been further, and what is pending
\* is what Meaning takes for this entry.
LEMMA AtEntry ==
    ASSUME archive \in Archives, ReadInv, ~lost, EntryAhead, Header.typ \in EntryTypes,
           NEW a \in Nat, NEW b \in Nat, NEW c \in Nat, StandsAt(a, b, c)
    PROVE  LET e == EntryAt(Walk[b].heads, at)
           IN  /\ b = c
               /\ e = [kind |-> Kind, path |-> Path, size |-> IF Kind = "file" THEN Size ELSE 0,
                       data |-> IF Kind = "file" THEN at + Block ELSE 0,
                       link |-> IF Kind = "link" THEN Link ELSE <<"">>]
<1>1. PICK w : w = Walk[b]
  OBVIOUS
<1>2. PICK v : v = Walk[b + 1]
  OBVIOUS
<1>3. Reading /\ Sound(Header)
  BY DEF EntryAhead
<1>4. /\ w \in Walks /\ ~Final(w) /\ w.next = at /\ w.entries = emitted /\ v = Onward(w)
      /\ at \in Nat /\ at + Block <= archive.len
  BY <1>1, <1>2, <1>3, AtStage
<1>5. BlockAt(w.next) = Header
  BY <1>4 DEF Header
<1>6. PICK e : e = EntryAt(w.heads, w.next)
  OBVIOUS
<1>7. /\ w.next \in Heads /\ e.size \in Nat /\ e \in Ents
      /\ ~Takes(w.entries, e, w.next) => v = Stopped(w)
      /\ Takes(w.entries, e, w.next) => v.entries = Append(w.entries, e)
  BY <1>3, <1>4, <1>5, <1>6, OnwardEntry
<1>8. v.done \/ v.entries # emitted
  <2>1. CASE ~Takes(w.entries, e, w.next)
    <3>1. v.done = TRUE
      BY <1>4, <1>7, <2>1, StoppedIs
    <3> QED
      BY <3>1
  <2>2. CASE Takes(w.entries, e, w.next)
    <3>1. PICK s \in Seq(Ents) : s = emitted /\ s = w.entries
      BY <1>4 DEF Walks
    <3>2. Append(s, e) # s
      <4>1. Len(Append(s, e)) = Len(s) + 1 /\ Len(s) \in Nat
        BY <1>7
      <4> QED
        BY <4>1
    <3> QED
      BY <1>7, <2>2, <3>1, <3>2
  <2> QED
    BY <2>1, <2>2
<1>9. /\ a <= b /\ b <= c /\ Between(b, c)
      /\ \A m \in a .. c : ~Walk[m].done /\ Walk[m].entries = emitted
  BY DEF StandsAt
<1>10. b = c
  <2>1. ASSUME b < c PROVE FALSE
    <3>1. b + 1 \in a .. c
      BY <1>9, <2>1
    <3> QED
      BY <1>2, <1>8, <1>9, <3>1
  <2> QED
    BY <1>9, <2>1
<1>11. PICK k : k = Known[b]
  OBVIOUS
<1>12. ASSUME NEW key, NEW x, Recalls(b, c, key, x) PROVE x = k[key]
  BY <1>10, <1>11, <1>12, RecallsOne
<1>13. /\ px.path = k.xpath /\ px.link = k.xlink /\ px.size = k.xsize
       /\ pg.path = k.gpath /\ pg.link = k.glink /\ pg.size = k.gsize
       /\ gnuName = k.name /\ gnuLink = k.link
  BY <1>9, <1>12 DEF Between
<1>14. PICK hs : hs = w.heads
  OBVIOUS
<1>15. /\ k.xpath = Paths(Heard(hs, "x", "path", TRUE))
       /\ k.xlink = Paths(Heard(hs, "x", "linkpath", TRUE))
       /\ k.xsize = {u.size : u \in Heard(hs, "x", "size", TRUE)}
       /\ k.gpath = Paths(Heard(hs, "g", "path", FALSE))
       /\ k.glink = Paths(Heard(hs, "g", "linkpath", FALSE))
       /\ k.gsize = {u.size : u \in Heard(hs, "g", "size", FALSE)}
       /\ k.name = HeardName(hs, "L") /\ k.link = HeardName(hs, "K")
  BY <1>1, <1>11, <1>14, KnownIs
<1>16. PICK p : p = w.next
  OBVIOUS
<1>17. BlockAt(p) = Header /\ at = p
  BY <1>4, <1>5, <1>16
<1>18. Path = EntryPath(hs, p)
  BY <1>13, <1>15, <1>17, Zenon DEF Path, EntryPath
<1>19. Link = EntryLink(hs, p)
  BY <1>13, <1>15, <1>17, Zenon DEF Link, EntryLink
<1>20. Size = EntrySize(hs, p)
  <2>1. px.size = {u.size : u \in Heard(hs, "x", "size", TRUE)}
    BY <1>13, <1>15
  <2>2. pg.size = {u.size : u \in Heard(hs, "g", "size", FALSE)}
    BY <1>13, <1>15
  <2> QED
    BY <1>17, <2>1, <2>2, Zenon DEF Size, EntrySize
<1>21. Kind = KindOf(BlockAt(p).typ, EntryPath(hs, p))
  BY <1>17, <1>18, Zenon DEF Kind
<1>22. EntryAt(hs, p) =
         [kind |-> Kind, path |-> Path, size |-> IF Kind = "file" THEN Size ELSE 0,
          data |-> IF Kind = "file" THEN p + Block ELSE 0,
          link |-> IF Kind = "link" THEN Link ELSE <<"">>]
  BY <1>18, <1>19, <1>20, <1>21, Zenon DEF EntryAt
<1> QED
  BY <1>1, <1>10, <1>14, <1>16, <1>17, <1>22, Zenon

LEMMA TakesIs ==
    ASSUME archive \in Archives, ReadInv, ~lost, EntryAhead, Header.typ \in EntryTypes,
           NEW a \in Nat, NEW b \in Nat, NEW c \in Nat, StandsAt(a, b, c),
           NEW e, e = EntryAt(Walk[b].heads, at)
    PROVE  /\ Takes(emitted, e, at) <=>
                /\ PathSafe(Path) /\ ~Crosses(ledger.keys, Kind, Path)
                /\ Kind = "link" => LinkSafe(Path, Link)
                /\ ~Missing
           /\ e.size \in Nat /\ at \in Heads /\ e \in Ents
           /\ ~Takes(emitted, e, at) => emitted = Meaning
           /\ Takes(emitted, e, at) =>
                /\ Walk[b + 1].next = at + Block + Padded(e.size)
                /\ Walk[b + 1].heads = Append(Walk[b].heads, at)
                /\ Walk[b + 1].entries = Append(emitted, e) /\ Walk[b + 1].done = FALSE
           /\ emitted \in Seq(Ents)
<1>1. PICK w : w = Walk[b]
  OBVIOUS
<1>2. PICK v : v = Walk[b + 1]
  OBVIOUS
<1>3. Reading /\ Sound(Header)
  BY DEF EntryAhead
<1>4. /\ w \in Walks /\ ~Final(w) /\ w.next = at /\ w.entries = emitted /\ v = Onward(w)
      /\ at \in Nat /\ at + Block <= archive.len
  BY <1>1, <1>2, <1>3, AtStage
<1>5. BlockAt(w.next) = Header
  BY <1>4 DEF Header
<1>6. e = EntryAt(w.heads, w.next)
  BY <1>1, <1>4
<1>7. /\ w.next \in Heads /\ e.size \in Nat /\ e \in Ents
      /\ ~Takes(w.entries, e, w.next) => v = Stopped(w)
      /\ Takes(w.entries, e, w.next) =>
           /\ v.next = w.next + Block + Padded(e.size) /\ v.heads = Append(w.heads, w.next)
           /\ v.entries = Append(w.entries, e) /\ v.done = FALSE
  BY <1>3, <1>4, <1>5, <1>6, OnwardEntry
<1>8. e = [kind |-> Kind, path |-> Path, size |-> IF Kind = "file" THEN Size ELSE 0,
           data |-> IF Kind = "file" THEN at + Block ELSE 0,
           link |-> IF Kind = "link" THEN Link ELSE <<"">>]
  BY AtEntry
<1>9. /\ e.kind = Kind /\ e.path = Path /\ e.size = (IF Kind = "file" THEN Size ELSE 0)
      /\ Kind = "link" => e.link = Link
  <2>1. PICK si : si = IF Kind = "file" THEN Size ELSE 0
    OBVIOUS
  <2>2. PICK da : da = IF Kind = "file" THEN at + Block ELSE 0
    OBVIOUS
  <2>3. PICK li : li = IF Kind = "link" THEN Link ELSE <<"">>
    OBVIOUS
  <2>4. PICK ki : ki = Kind
    OBVIOUS
  <2>5. PICK pa : pa = Path
    OBVIOUS
  <2>6. e = [kind |-> ki, path |-> pa, size |-> si, data |-> da, link |-> li]
    BY <1>8, <2>1, <2>2, <2>3, <2>4, <2>5
  <2>7. e.kind = ki /\ e.path = pa /\ e.size = si /\ e.link = li
    BY <2>6
  <2> QED
    BY <2>1, <2>3, <2>4, <2>5, <2>7
<1>10. Takes(emitted, e, at) <=>
         /\ PathSafe(e.path) /\ ~Crosses(LinkKeys(emitted), e.kind, e.path)
         /\ e.kind = "link" => LinkSafe(e.path, e.link)
         /\ at + Block + e.size <= archive.len
  BY Zenon DEF Takes, LinkKeys
<1>11. ledger.keys = LinkKeys(emitted)
  BY DEF ReadInv
<1>12. at + Block + e.size <= archive.len <=> ~Missing
  <2>1. Block \in Nat /\ archive.len \in Nat
    BY Constants
  <2>2. CASE Kind = "file"
    <3>1. e.size = Size /\ Size \in Nat
      BY <1>7, <1>9, <2>2
    <3>2. Missing <=> Size > archive.len - at - Block
      BY <2>2 DEF Missing
    <3> QED
      BY <1>4, <2>1, <3>1, <3>2
  <2>3. CASE Kind # "file"
    <3>1. ~Missing /\ e.size = 0
      BY <1>9, <2>3 DEF Missing
    <3> QED
      BY <1>4, <2>1, <3>1
  <2> QED
    BY <2>2, <2>3
<1>13. Takes(emitted, e, at) <=>
         /\ PathSafe(Path) /\ ~Crosses(ledger.keys, Kind, Path)
         /\ Kind = "link" => LinkSafe(Path, Link)
         /\ ~Missing
  BY <1>9, <1>10, <1>11, <1>12, Zenon
<1>14. ~Takes(emitted, e, at) => emitted = Meaning
  <2>1. SUFFICES ASSUME ~Takes(emitted, e, at) PROVE emitted = Meaning
    OBVIOUS
  <2>2. Onward(w) = Stopped(w)
    BY <1>4, <1>7, <2>1
  <2> QED
    BY <1>1, <1>4, <2>2, StopsHere
<1>15. emitted \in Seq(Ents)
  BY <1>4 DEF Walks
<1> QED
  BY <1>1, <1>2, <1>4, <1>7, <1>13, <1>14, <1>15

\* An error, if nothing more can be read, or for want of memory.
LEMMA FailKeeps ==
    ASSUME archive \in Archives, ReadInv, archive' = archive, NEW error, Fail(error), error # "end",
           ~lost /\ error \in Errors => emitted = Meaning
    PROVE  ReadInv'
<1> SUFFICES ASSUME ~lost PROVE ReadInv'
  BY DEF ReadInv, Fail
<1>1. /\ UNCHANGED <<pos, pending, emitted, lost>> /\ ledger'.keys = ledger.keys
      /\ pc' # "reading" /\ zeros' = 0 /\ result' = error
  BY DEF Fail, Return
<1> QED
  BY <1>1, Kept

LEMMA ErrorsKeep ==
    ASSUME archive \in Archives, ReadInv, BadHeader \/ TooShort \/ RefusePath \/ RefuseEntry
    PROVE  ReadInv'
<1>1. archive' = archive
  BY DEF BadHeader, TooShort, RefusePath, RefuseEntry, opening
<1>2. CASE BadHeader
  <2>1. ~lost => emitted = Meaning
    BY <1>2, HeaderStops DEF BadHeader
  <2> QED
    BY <1>1, <1>2, <2>1, FailKeeps DEF BadHeader
<1>3. CASE TooShort
  <2>1. Reading /\ Header.typ # "zero" /\ Header.typ \in Extensions /\ at + Block + Header.size > archive.len
    BY <1>3 DEF TooShort, Extensions
  <2>2. ~lost => emitted = Meaning
    BY <2>1, HeaderStops
  <2> QED
    BY <1>1, <1>3, <2>2, FailKeeps DEF TooShort
<1>4. CASE RefusePath
  <2>1. EntryAhead /\ PathRefusal # "none" /\ Fail(PathRefusal)
    BY <1>4 DEF RefusePath
  <2>2. PICK error : error = PathRefusal
    OBVIOUS
  <2>3. error # "end"
    BY <2>2 DEF PathRefusal
  <2>4. ASSUME ~lost PROVE emitted = Meaning
    <3>1. CASE Header.typ \notin EntryTypes
      <4>1. Reading /\ Header.typ # "zero" /\ Header.typ \notin Extensions \cup EntryTypes
        BY <2>1, <3>1 DEF EntryAhead, Extensions
      <4> QED
        BY <2>4, <4>1, HeaderStops
    <3>2. CASE Header.typ \in EntryTypes
      <4>1. ~PathSafe(Path) \/ Crosses(ledger.keys, Kind, Path)
        BY <2>1, <3>2 DEF PathRefusal
      <4>2. PICK a, b, c \in Nat : StandsAt(a, b, c)
        BY <2>4 DEF ReadInv
      <4>3. PICK e : e = EntryAt(Walk[b].heads, at)
        OBVIOUS
      <4>4. /\ Takes(emitted, e, at) => PathSafe(Path) /\ ~Crosses(ledger.keys, Kind, Path)
            /\ ~Takes(emitted, e, at) => emitted = Meaning
        BY <2>1, <2>4, <3>2, <4>2, <4>3, TakesIs
      <4> QED
        BY <4>1, <4>4
    <3> QED
      BY <3>1, <3>2
  <2> QED
    BY <1>1, <2>1, <2>2, <2>3, <2>4, FailKeeps
<1>5. CASE RefuseEntry
  <2>1. /\ EntryAhead /\ Header.typ \in EntryTypes
        /\ (Kind = "link" /\ ~LinkSafe(Path, Link)) \/ Missing
        /\ Fail("UNSAFE") \/ Fail("TRUNCATED")
    BY <1>5 DEF RefuseEntry, Accepted, PathRefusal
  <2>2. ASSUME ~lost PROVE emitted = Meaning
    <3>1. PICK a, b, c \in Nat : StandsAt(a, b, c)
      BY <2>2 DEF ReadInv
    <3>2. PICK e : e = EntryAt(Walk[b].heads, at)
      OBVIOUS
    <3>3. /\ Takes(emitted, e, at) => (Kind = "link" => LinkSafe(Path, Link)) /\ ~Missing
          /\ ~Takes(emitted, e, at) => emitted = Meaning
      BY <2>1, <2>2, <3>1, <3>2, TakesIs
    <3> QED
      BY <2>1, <3>3
  <2> QED
    BY <1>1, <2>1, <2>2, FailKeeps
<1> QED
  BY <1>2, <1>3, <1>4, <1>5

LEMMA NoMemoryKeeps ==
    ASSUME archive \in Archives, ReadInv, NoPath \/ NoLedger \/ NoLink
    PROVE  ReadInv'
<1>1. archive' = archive
  BY DEF NoPath, NoLedger, NoLink, opening
<1>2. CASE NoPath \/ NoLedger
  <2>1. Fail("OOM")
    BY <1>2 DEF NoPath, NoLedger
  <2>2. "OOM" \notin Errors
    BY DEF Errors
  <2> QED
    BY <1>1, <2>1, <2>2, FailKeeps
<1>3. CASE NoLink
  <2> SUFFICES ASSUME ~lost PROVE ReadInv'
    BY <1>3 DEF ReadInv, NoLink
  <2>1. /\ UNCHANGED <<pos, pending, emitted, lost>> /\ ledger' = ledger
        /\ pc' # "reading" /\ zeros' = zeros /\ at' = at /\ result' = result
    BY <1>3 DEF NoLink
  <2>2. result \in Errors => emitted = Meaning
    BY DEF ReadInv
  <2> QED
    BY <1>1, <2>1, <2>2, Kept
<1> QED
  BY <1>2, <1>3

-----------------------------------------------------------------------------
(* An entry is returned.                                                   *)

LEMMA LinkKeysMore ==
    ASSUME NEW S, NEW es \in Seq(S), NEW e \in S
    PROVE  LinkKeys(Append(es, e)) =
             IF e.kind = "link" THEN LinkKeys(es) \cup {Key[Canonical(e.path)]} ELSE LinkKeys(es)
<1> DEFINE K(x) == Key[Canonical(x.path)]
           n == Len(es)
           z == Append(es, e)
<1>1. /\ n \in Nat /\ DOMAIN es = 1 .. n /\ DOMAIN z = 1 .. n + 1 /\ z[n + 1] = e
      /\ \A i \in 1 .. n : z[i] = es[i]
  OBVIOUS
<1>2. \A s : LinkKeys(s) = {K(s[i]) : i \in {i \in DOMAIN s : s[i].kind = "link"}}
  BY DEF LinkKeys
<1> HIDE DEF K, n, z
<1>3. ASSUME NEW y PROVE y \in LinkKeys(z) <=> y \in LinkKeys(es) \/ (e.kind = "link" /\ y = K(e))
  <2>1. y \in LinkKeys(z) <=> \E i \in 1 .. n + 1 : z[i].kind = "link" /\ y = K(z[i])
    BY <1>1, <1>2
  <2>2. y \in LinkKeys(es) <=> \E i \in 1 .. n : es[i].kind = "link" /\ y = K(es[i])
    BY <1>1, <1>2
  <2>3. \A i \in 1 .. n + 1 : i \in 1 .. n \/ i = n + 1
    BY <1>1
  <2>4. n + 1 \in 1 .. n + 1 /\ \A i \in 1 .. n : i \in 1 .. n + 1
    BY <1>1
  <2> QED
    BY <1>1, <2>1, <2>2, <2>3, <2>4
<1> QED
  BY <1>3 DEF K, z

EntryHere ==
    [kind |-> Kind, path |-> Path, size |-> IF Kind = "file" THEN Size ELSE 0,
     data |-> IF Kind = "file" THEN at + Block ELSE 0,
     link |-> IF Kind = "link" THEN Link ELSE <<"">>]

LEMMA EntryHereIs ==
    /\ EntryHere.kind = Kind /\ EntryHere.path = Path
    /\ EntryHere.size = IF Kind = "file" THEN Size ELSE 0
<1>1. PICK da : da = IF Kind = "file" THEN at + Block ELSE 0
  OBVIOUS
<1>2. PICK li : li = IF Kind = "link" THEN Link ELSE <<"">>
  OBVIOUS
<1>3. PICK ki : ki = Kind
  OBVIOUS
<1>4. PICK si : si = IF Kind = "file" THEN Size ELSE 0
  OBVIOUS
<1>5. PICK pa : pa = Path
  OBVIOUS
<1>6. EntryHere = [kind |-> ki, path |-> pa, size |-> si, data |-> da, link |-> li]
  BY <1>1, <1>2, <1>3, <1>4, <1>5, Zenon DEF EntryHere
<1>7. EntryHere.kind = ki /\ EntryHere.path = pa /\ EntryHere.size = si
  BY <1>6
<1> QED
  BY <1>3, <1>4, <1>5, <1>7

LEMMA EmitKeeps ==
    ASSUME archive \in Archives, ReadInv, ~lost, Accepted, Kind = "link" => LinkSafe(Path, Link), ~Missing,
           NEW e, e = EntryHere, Emit(e, Padded(e.size)),
           ledger'.keys = IF Kind = "link" THEN ledger.keys \cup {Key[Canonical(Path)]} ELSE ledger.keys
    PROVE  ReadInv'
<1>1. PICK a, b, c \in Nat : StandsAt(a, b, c)
  BY DEF ReadInv
<1>2. /\ EntryAhead /\ Header.typ \in EntryTypes
      /\ PathSafe(Path) /\ ~Crosses(ledger.keys, Kind, Path)
  BY DEF Accepted, PathRefusal
<1>3. b = c /\ e = EntryAt(Walk[b].heads, at)
  BY <1>1, <1>2, AtEntry, Zenon DEF EntryHere
<1>4. /\ e.size \in Nat /\ at \in Heads /\ emitted \in Seq(Ents) /\ e \in Ents
      /\ Walk[b + 1].next = at + Block + Padded(e.size)
      /\ Walk[b + 1].heads = Append(Walk[b].heads, at)
      /\ Walk[b + 1].entries = Append(emitted, e) /\ Walk[b + 1].done = FALSE
  BY <1>1, <1>2, <1>3, TakesIs
<1>5. /\ archive' = archive /\ emitted' = Append(emitted, e) /\ pc' = "idle" /\ result' = "entry"
      /\ zeros' = 0 /\ pos' = at + Block + Padded(e.size) /\ lost' = lost
      /\ px' = Unset /\ gnuName' = {} /\ gnuLink' = {} /\ pg' = pg
  BY DEF Emit, Return, Settled, opening
<1>6. PICK ki : ki = Kind
  OBVIOUS
<1>7. e.kind = ki /\ e.path = Path
  BY <1>6, EntryHereIs
<1>8. PICK g \in Nat : g = b + 1
  OBVIOUS
<1>9. BlockAt(at).typ \notin Extensions
  BY <1>2 DEF Header, EntryTypes, Extensions
<1>10. PICK l : l = Known[g]
  OBVIOUS
<1>11. PICK k : k = Known[b]
  OBVIOUS
<1>12. /\ l.xpath = {} /\ l.xlink = {} /\ l.xsize = {} /\ l.name = {} /\ l.link = {}
       /\ l.gpath = k.gpath /\ l.glink = k.glink /\ l.gsize = k.gsize
  BY <1>4, <1>8, <1>9, <1>10, <1>11, KnownBehind
<1>13. pg.path = k.gpath /\ pg.link = k.glink /\ pg.size = k.gsize
  <2>1. Between(b, b)
    BY <1>1, <1>3 DEF StandsAt
  <2> QED
    BY <1>11, <2>1, RecallsOne DEF Between
<1>14. px'.path = {} /\ px'.link = {} /\ px'.size = {}
  BY <1>5 DEF Unset
<1>15. ASSUME NEW key, NEW x, x = l[key] PROVE Recalls(g, g, key, x)
  BY <1>10, <1>15, RecallsNew
<1>16. /\ Recalls(g, g, "xpath", px'.path) /\ Recalls(g, g, "xlink", px'.link)
       /\ Recalls(g, g, "xsize", px'.size) /\ Recalls(g, g, "gpath", pg'.path)
       /\ Recalls(g, g, "glink", pg'.link) /\ Recalls(g, g, "gsize", pg'.size)
       /\ Recalls(g, g, "name", gnuName') /\ Recalls(g, g, "link", gnuLink')
  BY <1>5, <1>12, <1>13, <1>14, <1>15
<1>17. StandsAt(g, g, g)'
  <2>1. g <= g /\ pos' = Walk[g].next
    BY <1>4, <1>5, <1>7, <1>8
  <2>2. \A m \in g .. g : ~Walk[m].done /\ Walk[m].entries = emitted'
    BY <1>4, <1>5, <1>8
  <2> QED
    BY <1>5, <1>16, <2>1, <2>2, StandsLater
<1>18. (\E i, j, m \in Nat : StandsAt(i, j, m))'
  BY <1>17
<1>19. (ledger.keys = LinkKeys(emitted))'
  <2>1. LinkKeys(Append(emitted, e)) =
          IF e.kind = "link" THEN LinkKeys(emitted) \cup {Key[Canonical(e.path)]} ELSE LinkKeys(emitted)
    BY <1>4, LinkKeysMore
  <2>2. ledger.keys = LinkKeys(emitted)
    BY DEF ReadInv
  <2>3. ledger'.keys = LinkKeys(Append(emitted, e))
    BY <1>6, <1>7, <2>1, <2>2
  <2> QED
    BY <1>5, <2>3 DEF LinkKeys
<1> QED
  BY <1>5, <1>18, <1>19 DEF ReadInv, Errors

LEMMA EmitsKeep ==
    ASSUME archive \in Archives, ReadInv, EmitPlain \/ EmitLink PROVE ReadInv'
<1>3. PICK x, y : Emit(x, y)
  BY Zenon DEF EmitPlain, EmitLink
<1>4. lost' = lost
  BY <1>3 DEF Emit
<1> SUFFICES ASSUME ~lost PROVE ReadInv'
  BY <1>4 DEF ReadInv
<1>1. CASE EmitPlain
  <2>1. PICK size : size = IF Kind = "file" THEN Size ELSE 0
    OBVIOUS
  <2>2. PICK e : e = [kind |-> Kind, path |-> Path, size |-> size, link |-> <<"">>,
                      data |-> IF Kind = "file" THEN at + Block ELSE 0]
    OBVIOUS
  <2>3. Accepted /\ Kind # "link" /\ ~Missing /\ ledger' = ledger /\ Emit(e, Padded(size))
    BY <1>1, <2>1, <2>2, Zenon DEF EmitPlain
  <2>4. e = EntryHere
    <3>1. PICK da : da = IF Kind = "file" THEN at + Block ELSE 0
      OBVIOUS
    <3>2. PICK li : li = IF Kind = "link" THEN Link ELSE <<"">>
      OBVIOUS
    <3>3. PICK ki : ki = Kind
      OBVIOUS
    <3>4. PICK pa : pa = Path
      OBVIOUS
    <3>5. li = <<"">>
      BY <2>3, <3>2
    <3>6. e = [kind |-> ki, path |-> pa, size |-> size, link |-> li, data |-> da]
      BY <2>2, <3>1, <3>3, <3>4, <3>5, Zenon
    <3>7. EntryHere = [kind |-> ki, path |-> pa, size |-> size, data |-> da, link |-> li]
      BY <2>1, <3>1, <3>2, <3>3, <3>4, Zenon DEF EntryHere
    <3> QED
      BY <3>6, <3>7
  <2>5. ledger'.keys = IF Kind = "link" THEN ledger.keys \cup {Key[Canonical(Path)]} ELSE ledger.keys
    BY <2>3
  <2>6. e.size = size
    BY <2>1, <2>4, EntryHereIs
  <2> QED
    BY <2>3, <2>4, <2>5, <2>6, EmitKeeps
<1>2. CASE EmitLink
  <2>1. PICK e : e = [kind |-> "link", path |-> Path, size |-> 0, data |-> 0, link |-> Link]
    OBVIOUS
  <2>2. /\ Accepted /\ Kind = "link" /\ LinkSafe(Path, Link) /\ Emit(e, 0)
        /\ ledger'.keys = ledger.keys \cup {Key[Canonical(Path)]}
    BY <1>2, <2>1 DEF EmitLink, LinkAhead, Remembered
  <2>3. ~Missing
    BY <2>2 DEF Missing
  <2>4. e = EntryHere
    <3>1. PICK pa : pa = Path
      OBVIOUS
    <3>2. PICK li : li = Link
      OBVIOUS
    <3>3. e = [kind |-> "link", path |-> pa, size |-> 0, data |-> 0, link |-> li]
      BY <2>1, <3>1, <3>2, Zenon
    <3>4. EntryHere = [kind |-> "link", path |-> pa, size |-> 0, data |-> 0, link |-> li]
      <4>1. PICK da : da = IF Kind = "file" THEN at + Block ELSE 0
        OBVIOUS
      <4>2. PICK si : si = IF Kind = "file" THEN Size ELSE 0
        OBVIOUS
      <4>3. PICK lk : lk = IF Kind = "link" THEN Link ELSE <<"">>
        OBVIOUS
      <4>4. PICK ki : ki = Kind
        OBVIOUS
      <4>5. EntryHere = [kind |-> ki, path |-> pa, size |-> si, data |-> da, link |-> lk]
        BY <3>1, <4>1, <4>2, <4>3, <4>4, Zenon DEF EntryHere
      <4>6. ki = "link" /\ si = 0 /\ da = 0 /\ lk = li
        BY <2>2, <3>2, <4>1, <4>2, <4>3, <4>4
      <4> QED
        BY <4>5, <4>6, Zenon
    <3> QED
      BY <3>3, <3>4
  <2>5. e.size = 0
    BY <2>1
  <2>6. Emit(e, Padded(e.size))
    BY <2>2, <2>5, PaddedIs
  <2>7. ledger'.keys = IF Kind = "link" THEN ledger.keys \cup {Key[Canonical(Path)]} ELSE ledger.keys
    BY <2>2
  <2> QED
    BY <2>2, <2>3, <2>4, <2>6, <2>7, EmitKeeps
<1> QED
  BY <1>1, <1>2

-----------------------------------------------------------------------------
(* Opening: each buffer is larger than all before it together, until it is *)
(* the largest.                                                            *)

OpenInv ==
    /\ archive \in Archives
    /\ faults \in Nat /\ cap \in Nat /\ spent \in Nat
    /\ pc = "closed" => spent = 0
    /\ pc = "shut" => faults > 0 \/ archive.corrupt \/ TooLarge
    /\ pc = "decoding" =>
          /\ archive.format # "plain" /\ cap \in 1 .. Ceiling
          /\ archive.format = "zstd" /\ archive.len > cap => TooLarge
          /\ spent < cap \/ (cap = Ceiling /\ spent < 2 * Ceiling)
    /\ pc # "decoding" => spent < 3 * Ceiling

LEMMA OpenKeepsOpen ==
    ASSUME OpenInv, Open PROVE OpenInv'
<1>1. Ceiling \in Nat \ {0} /\ MinCap \in Nat \ {0} /\ Block \in Nat
  BY Constants
<1>2. archive' = archive /\ spent' = spent /\ pc = "closed" /\ spent = 0
  BY DEF Open, OpenInv
<1>3. CASE archive.format = "plain" /\ MakeCursor /\ UNCHANGED cap
  <2>1. /\ pc' \in {"idle", "shut"} /\ faults' \in Nat /\ (pc' = "shut" => faults' > 0)
    BY <1>3 DEF MakeCursor, Fault, OpenInv
  <2> QED
    BY <1>1, <1>2, <1>3, <2>1 DEF OpenInv
<1>4. CASE /\ archive.format # "plain"
           /\ cap' = Clipped(IF Seed < MinCap THEN MinCap ELSE Seed)
           /\ pc' = "decoding" /\ UNCHANGED faults
  <2>1. Seed \in Nat
    <3>1. archive.hint \in Nat /\ archive.packed \in Nat
      BY Constants DEF OpenInv
    <3> QED
      BY <1>1, <3>1 DEF Seed
  <2>2. PICK s \in Nat : s = IF Seed < MinCap THEN MinCap ELSE Seed
    BY <1>1, <2>1
  <2>3. s >= 1
    BY <1>1, <2>1, <2>2
  <2>4. cap' \in 1 .. Ceiling
    BY <1>1, <1>4, <2>2, <2>3 DEF Clipped
  <2>5. archive.format = "zstd" /\ archive.len > cap' => TooLarge
    <3> SUFFICES ASSUME archive.format = "zstd", archive.len > cap', Foreseen
                 PROVE  archive.len > Ceiling
      BY <1>4 DEF TooLarge
    <3>1. archive.hint \in Nat /\ archive.packed \in Nat /\ archive.len \in Nat
      BY Constants DEF OpenInv
    <3>2. Seed = IF archive.hint > 0 THEN archive.hint + Block ELSE 8 * archive.packed
      BY <3>1 DEF Seed
    <3>3. archive.len <= s
      BY <1>1, <2>1, <2>2, <3>1, <3>2 DEF Foreseen
    <3> QED
      BY <1>1, <1>4, <2>2, <2>4, <3>1, <3>3 DEF Clipped
  <2>6. (archive.format = "zstd" /\ archive.len > cap => TooLarge)'
    BY <1>2, <2>5 DEF TooLarge, Foreseen
  <2> QED
    BY <1>1, <1>2, <1>4, <2>4, <2>6 DEF OpenInv
<1> QED
  BY <1>3, <1>4 DEF Open

LEMMA DecodeKeepsOpen ==
    ASSUME OpenInv, Decode PROVE OpenInv'
<1>1. Ceiling \in Nat \ {0}
  BY Constants
<1>2. archive.len \in Nat /\ archive' = archive
  BY Constants DEF OpenInv, Decode
<1>3a. TooLarge => TooLarge'
  BY <1>2 DEF TooLarge, Foreseen
<1>3. /\ pc = "decoding" /\ archive.format # "plain" /\ cap \in 1 .. Ceiling
      /\ spent < cap \/ (cap = Ceiling /\ spent < 2 * Ceiling)
      /\ faults \in Nat /\ spent \in Nat /\ archive \in Archives
  BY DEF OpenInv, Decode
<1>4. spent + cap < 3 * Ceiling
  BY <1>1, <1>3
<1>5. CASE pc' = "shut" /\ Fault /\ UNCHANGED <<cap, spent>>
  <2>1. faults' \in Nat /\ faults' > 0 /\ spent' < 3 * Ceiling /\ cap' \in Nat /\ spent' \in Nat
    BY <1>1, <1>3, <1>4, <1>5 DEF Fault
  <2> QED
    BY <1>2, <1>3, <1>5, <2>1 DEF OpenInv
<1>6. CASE spent' = spent + cap /\ ~archive.corrupt /\ archive.len <= cap /\ MakeCursor /\ UNCHANGED cap
  <2>1. pc' \in {"idle", "shut"} /\ faults' \in Nat /\ (pc' = "shut" => faults' > 0)
    BY <1>3, <1>6 DEF MakeCursor, Fault
  <2>2. spent' \in Nat /\ cap' \in Nat /\ spent' < 3 * Ceiling
    BY <1>1, <1>3, <1>4, <1>6
  <2> QED
    BY <1>2, <1>3, <2>1, <2>2 DEF OpenInv
<1>7. CASE spent' = spent + cap /\ archive.len > cap /\ SaysTooSmall /\ TryLarger /\ UNCHANGED faults
  <2>1. spent' \in Nat /\ spent' < 3 * Ceiling
    BY <1>1, <1>3, <1>4, <1>7
  <2>2. CASE cap >= Ceiling
    <3>1. pc' = "shut" /\ cap' = cap /\ archive.len > Ceiling
      BY <1>1, <1>2, <1>3, <1>7, <2>2 DEF TryLarger
    <3>2. TooLarge'
      BY <1>3, <1>3a, <3>1 DEF TooLarge
    <3> QED
      BY <1>2, <1>3, <1>7, <2>1, <3>1, <3>2 DEF OpenInv
  <2>3. CASE ~(cap >= Ceiling)
    <3>1. PICK l : l = Clipped(cap * 2)
      OBVIOUS
    <3>2. l \in 1 .. Ceiling /\ l # 0 /\ (l = Ceiling \/ l = 2 * cap)
      BY <1>1, <1>3, <3>1 DEF Clipped
    <3>3. cap' = l /\ pc' = "decoding"
      BY <1>3, <1>7, <2>3, <3>1, <3>2 DEF TryLarger
    <3>4. spent < cap /\ spent' = spent + cap
      BY <1>1, <1>3, <1>7, <2>3
    <3>5. spent' < cap' \/ (cap' = Ceiling /\ spent' < 2 * Ceiling)
      BY <1>1, <1>3, <2>3, <3>2, <3>3, <3>4
    <3> QED
      BY <1>2, <1>3, <1>7, <2>1, <3>2, <3>3, <3>5 DEF OpenInv, SaysTooSmall
  <2> QED
    BY <2>2, <2>3
<1>8. CASE /\ spent' = spent + cap
           /\ archive.corrupt \/ (archive.len > cap /\ ~SaysTooSmall)
           /\ pc' = "shut" /\ UNCHANGED <<cap, faults>>
  <2>1. spent' \in Nat /\ cap' \in Nat /\ spent' < 3 * Ceiling
    BY <1>1, <1>3, <1>4, <1>8
  <2>2. archive.corrupt \/ TooLarge
    BY <1>8 DEF SaysTooSmall, OpenInv, Decode
  <2>3. archive'.corrupt \/ TooLarge'
    BY <1>2, <1>3a, <2>2
  <2> QED
    BY <1>2, <1>3, <1>8, <2>1, <2>3 DEF OpenInv
<1> QED
  BY <1>5, <1>6, <1>7, <1>8 DEF Decode

\* tar_next leaves all that alone.
ReadingStep ==
    \/ Call \/ RunOut \/ SkipZeros \/ BadHeader \/ TooShort \/ Extended \/ LongNamed
    \/ RefusePath \/ NoPath \/ RefuseEntry \/ EmitPlain \/ EmitLink \/ NoLedger \/ NoLink

LEMMA ReadingLeaves ==
    ASSUME OpenInv, ReadingStep
    PROVE  /\ archive' = archive /\ cap' = cap /\ spent' = spent
           /\ pc \in {"idle", "reading"} /\ pc' \in {"idle", "reading", "crashed"}
           /\ faults' \in Nat
<1>1. faults \in Nat
  BY DEF OpenInv
<1>2. ASSUME NEW r, Fail(r) PROVE pc' = "idle"
  BY <1>2 DEF Fail, Return
<1>3. ASSUME Fault PROVE faults' \in Nat
  BY <1>1, <1>3 DEF Fault
<1>4. CASE Call
  BY <1>1, <1>4 DEF Call, opening, history
<1>5. CASE RunOut
  BY <1>1, <1>5 DEF RunOut, Return, opening, history
<1>6. CASE SkipZeros
  BY <1>1, <1>6 DEF SkipZeros, Return, Reading, opening, history
<1>7. CASE BadHeader
  BY <1>1, <1>2, <1>7 DEF BadHeader, Reading, opening
<1>8. CASE TooShort
  BY <1>1, <1>2, <1>8 DEF TooShort, Reading, opening
<1>9. CASE Extended
  <2>1. Reading /\ GoOn /\ UNCHANGED opening
    BY <1>9 DEF Extended, Carries
  <2>2. \E bad : faults' = IF bad = 0 THEN faults ELSE faults + 1
    BY <1>9, Zenon DEF Extended
  <2> QED
    BY <1>1, <2>1, <2>2 DEF Reading, GoOn, opening
<1>10. CASE LongNamed
  <2>1. Reading /\ UNCHANGED opening
    BY <1>10 DEF LongNamed, Carries
  <2>2. (GoOn /\ UNCHANGED history) \/ (Fault /\ Fail("OOM"))
    BY <1>10 DEF LongNamed
  <2> QED
    BY <1>1, <1>2, <1>3, <2>1, <2>2 DEF Reading, GoOn, opening, history
<1>11. CASE RefusePath
  BY <1>1, <1>2, <1>11 DEF RefusePath, EntryAhead, Reading, opening
<1>12. CASE NoPath
  BY <1>2, <1>3, <1>12 DEF NoPath, EntryAhead, Reading, opening
<1>13. CASE RefuseEntry
  BY <1>1, <1>2, <1>13 DEF RefuseEntry, Accepted, EntryAhead, Reading, opening
<1>14. CASE EmitPlain \/ EmitLink
  <2>1. PICK x, y : Emit(x, y)
    BY <1>14, Zenon DEF EmitPlain, EmitLink
  <2>2. EntryAhead /\ faults' = faults
    BY <1>14, Zenon DEF EmitPlain, EmitLink, LinkAhead, Accepted
  <2> QED
    BY <1>1, <2>1, <2>2 DEF Emit, Return, EntryAhead, Reading, opening
<1>15. CASE NoLedger
  BY <1>2, <1>3, <1>15 DEF NoLedger, LinkAhead, Accepted, EntryAhead, Reading, opening
<1>16. CASE NoLink
  BY <1>3, <1>16 DEF NoLink, LinkAhead, Accepted, EntryAhead, Reading, opening
<1> QED
  BY <1>4, <1>5, <1>6, <1>7, <1>8, <1>9, <1>10, <1>11, <1>12, <1>13, <1>14, <1>15, <1>16 DEF ReadingStep

LEMMA ReadingKeeps ==
    ASSUME OpenInv, ReadInv, ReadingStep PROVE OpenInv' /\ ReadInv'
<1>1. archive \in Archives
  BY DEF OpenInv
<1>2. OpenInv'
  BY ReadingLeaves DEF OpenInv
<1>3. ReadInv'
  <2>1. CASE Call \/ RunOut \/ SkipZeros
    BY <1>1, <2>1, CallKeeps, RunOutKeeps, SkipKeeps
  <2>2. CASE BadHeader \/ TooShort \/ RefusePath \/ RefuseEntry
    BY <1>1, <2>2, ErrorsKeep
  <2>3. CASE Extended \/ LongNamed
    BY <1>1, <2>3, ExtendedKeeps, LongNamedKeeps
  <2>4. CASE NoPath \/ NoLedger \/ NoLink
    BY <1>1, <2>4, NoMemoryKeeps
  <2>5. CASE EmitPlain \/ EmitLink
    BY <1>1, <2>5, EmitsKeep
  <2> QED
    BY <2>1, <2>2, <2>3, <2>4, <2>5 DEF ReadingStep
<1> QED
  BY <1>2, <1>3

LEMMA OpeningKeeps ==
    ASSUME OpenInv, ReadInv, Open \/ Decode PROVE OpenInv' /\ ReadInv'
<1>1. archive \in Archives /\ archive' = archive
  BY DEF OpenInv, Open, Decode
<1>2. /\ UNCHANGED <<pos, pending, emitted, lost>> /\ ledger' = ledger
      /\ zeros' = zeros /\ at' = at /\ result' = result
  BY DEF Open, Decode, Cursor
<1>3. pc' # "reading"
  BY DEF Open, Decode, MakeCursor, TryLarger
<1>4. ReadInv'
  <2>1. CASE lost
    BY <1>2, <2>1 DEF ReadInv
  <2>2. CASE ~lost
    <3>1. result \in Errors => emitted = Meaning
      BY <2>2 DEF ReadInv
    <3> QED
      BY <1>1, <1>2, <1>3, <2>2, <3>1, Kept
  <2> QED
    BY <2>1, <2>2
<1> QED
  BY <1>4, OpenKeepsOpen, DecodeKeepsOpen

LEMMA NothingKeeps ==
    ASSUME OpenInv, ReadInv, UNCHANGED vars PROVE OpenInv' /\ ReadInv'
<1>1. /\ archive' = archive /\ cap' = cap /\ spent' = spent /\ pc' = pc /\ faults' = faults
      /\ pos' = pos /\ at' = at /\ zeros' = zeros /\ px' = px /\ pg' = pg /\ gnuName' = gnuName
      /\ gnuLink' = gnuLink /\ ledger' = ledger /\ result' = result /\ emitted' = emitted /\ lost' = lost
  BY DEF vars, opening, pending, history
<1>2. OpenInv'
  BY <1>1 DEF OpenInv, TooLarge, Foreseen
<1>3. ReadInv'
  <2>1. CASE lost
    BY <1>1, <2>1 DEF ReadInv
  <2>2. CASE ~lost
    <3>1. PICK a, b, c \in Nat : StandsAt(a, b, c)
      BY <2>2 DEF ReadInv
    <3>2. /\ a <= b /\ b <= c /\ pos = Walk[a].next /\ Between(b, c)
          /\ \A m \in a .. c : ~Walk[m].done /\ Walk[m].entries = emitted
          /\ IF pc = "reading" THEN at = Walk[b].next ELSE b = a
      BY <3>1 DEF StandsAt
    <3>3. StandsAt(a, b, c)'
      BY <1>1, <3>2, StandsLater DEF Between
    <3>4. (\E i, j, k \in Nat : StandsAt(i, j, k))'
      BY <3>3
    <3>5. (ledger.keys = LinkKeys(emitted))'
      BY <1>1, <2>2 DEF ReadInv, LinkKeys
    <3>6. (zeros \in {0, 1} /\ (zeros = 1 => at - Block \in Nat /\ BlockAt(at - Block).typ = "zero"))'
      BY <1>1, <2>2 DEF ReadInv, BlockAt
    <3>7. (result \in Errors => emitted = Meaning)' /\ (result = "end" => SaysTheEnd)'
      BY <1>1, <2>2, StillSays
    <3> QED
      BY <3>4, <3>5, <3>6, <3>7 DEF ReadInv
  <2> QED
    BY <2>1, <2>2
<1> QED
  BY <1>2, <1>3

LEMMA ReadStep == OpenInv /\ ReadInv /\ [Next]_vars => (OpenInv /\ ReadInv)'
<1> SUFFICES ASSUME OpenInv, ReadInv, [Next]_vars PROVE OpenInv' /\ ReadInv'
  OBVIOUS
<1>1. CASE ReadingStep
  BY <1>1, ReadingKeeps
<1>2. CASE Open \/ Decode
  BY <1>2, OpeningKeeps
<1>3. CASE UNCHANGED vars
  BY <1>3, NothingKeeps
<1> QED
  BY <1>1, <1>2, <1>3 DEF Next, ReadingStep

LEMMA ReadInit == Init => OpenInv /\ ReadInv
<1> SUFFICES ASSUME Init PROVE OpenInv /\ ReadInv
  OBVIOUS
<1>1. OpenInv
  BY Constants, TarAssumption DEF Init, OpenInv
<1>2. archive \in Archives
  BY DEF Init
<1>3. PICK w : w = Walk[0]
  OBVIOUS
<1>4. w = Start
  BY <1>2, <1>3, WalkIs
<1>5. PICK hs : hs = w.heads
  OBVIOUS
<1>6. hs = <<>> /\ w.next = 0 /\ w.entries = <<>> /\ w.done = FALSE
  BY <1>4, <1>5 DEF Start
<1>7. hs \in Seq(Heads)
  BY <1>6
<1>8. \A typ, own : Lasting(hs, typ, own) = {}
  BY <1>6, LastingNone
<1>9. ASSUME NEW typ \in {"x", "g"}, NEW own, NEW key PROVE Heard(hs, typ, key, own) = {}
  <2>1. typ \in Extensions
    BY DEF Extensions
  <2> QED
    BY <1>2, <1>7, <1>8, <2>1, HeardNothing
<1>10. HeardName(hs, "L") = {} /\ HeardName(hs, "K") = {}
  BY <1>8, NameNothing
<1>11. Paths({}) = {}
  BY DEF Paths
<1>12. PICK k : k = Known[0]
  OBVIOUS
<1>13. /\ k.xpath = Paths(Heard(hs, "x", "path", TRUE))
       /\ k.xlink = Paths(Heard(hs, "x", "linkpath", TRUE))
       /\ k.xsize = {u.size : u \in Heard(hs, "x", "size", TRUE)}
       /\ k.gpath = Paths(Heard(hs, "g", "path", FALSE))
       /\ k.glink = Paths(Heard(hs, "g", "linkpath", FALSE))
       /\ k.gsize = {u.size : u \in Heard(hs, "g", "size", FALSE)}
       /\ k.name = HeardName(hs, "L") /\ k.link = HeardName(hs, "K")
  BY <1>3, <1>5, <1>12, KnownIs
<1>14. /\ k.xpath = {} /\ k.xlink = {} /\ k.gpath = {} /\ k.glink = {}
       /\ k.name = {} /\ k.link = {}
  BY <1>9, <1>10, <1>11, <1>13
<1>15. k.xsize = {} /\ k.gsize = {}
  <2>1. Heard(hs, "x", "size", TRUE) = {} /\ Heard(hs, "g", "size", FALSE) = {}
    BY <1>9
  <2> QED
    BY <1>13, <2>1
<1>16. ASSUME NEW key, NEW x, x = k[key] PROVE Recalls(0, 0, key, x)
  BY <1>12, <1>16, RecallsNew
<1>17. /\ px.path = {} /\ px.link = {} /\ px.size = {} /\ pg.path = {} /\ pg.link = {} /\ pg.size = {}
       /\ gnuName = {} /\ gnuLink = {}
  BY DEF Init, Unset
<1>18. Between(0, 0)
  BY <1>14, <1>15, <1>16, <1>17 DEF Between
<1>19. StandsAt(0, 0, 0)
  <2>1. pos = 0 /\ emitted = <<>> /\ pc = "closed"
    BY DEF Init
  <2>2. \A m \in 0 .. 0 : ~Walk[m].done /\ Walk[m].entries = emitted
    BY <1>3, <1>6, <2>1
  <2> QED
    BY <1>3, <1>6, <1>18, <2>1, <2>2 DEF StandsAt
<1>20. ledger.keys = LinkKeys(emitted)
  BY DEF Init, LinkKeys
<1>21. result = "none" /\ zeros = 0
  BY DEF Init
<1> QED
  BY <1>1, <1>19, <1>20, <1>21 DEF ReadInv, Errors

LEMMA ReadSays == OpenInv /\ ReadInv => ReadsTheArchive
<1> SUFFICES ASSUME OpenInv, ReadInv PROVE ReadsTheArchive
  OBVIOUS
<1>1. OpensWhatFits
  <2>1. Ceiling \in Nat \ {0}
    BY Constants
  <2> QED
    BY <2>1 DEF OpenInv, OpensWhatFits
<1>2. CASE lost
  BY <1>1, <1>2 DEF ReadsTheArchive
<1>3. CASE ~lost
  <2>1. PICK a, b, c \in Nat : StandsAt(a, b, c)
    BY <1>3 DEF ReadInv
  <2>2. a \in a .. c
    BY <2>1 DEF StandsAt
  <2>3. Walk[a].entries = emitted
    BY <2>1, <2>2 DEF StandsAt
  <2>4. archive \in Archives
    BY DEF OpenInv
  <2>5. IsPrefix(emitted, Meaning)
    BY <2>3, <2>4, MeaningIs
  <2>6. (result \in Errors => emitted = Meaning) /\ (result = "end" => SaysTheEnd)
    BY <1>3 DEF ReadInv
  <2> QED
    BY <1>1, <2>5, <2>6 DEF ReadsTheArchive, SaysTheEnd
<1> QED
  BY <1>2, <1>3

\* Whatever the archive, the allocations that fail and the calls behind an error or the
\* end: as long as no PAX value was lost, the cursor returns the archive's entries in order,
\* each with the names and the size that the blocks before it say, skips none and invents
\* none; an error is said only behind all of them, and the end there or behind two blocks of
\* zeros; and a sound packed archive is opened if it fits the ceiling and, packed by zstd,
\* the one buffer that is tried (tar.cyr 360-650, 655-764).
THEOREM TheArchiveIsRead == Spec => []ReadsTheArchive
  BY ReadInit, ReadStep, ReadSays, PTL DEF Spec
=============================================================================
