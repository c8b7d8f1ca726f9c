------------------------------ MODULE Lz4fProofs ------------------------------
(***************************************************************************)
(* Proofs about Lz4f, for every block size, input, cutting into writes and *)
(* frame: the encoder keeps the room that finish needs, its blocks end as  *)
(* the format asks, the decoder never outgrows its descriptor and block    *)
(* buffers, what was encoded comes back, the encoder's frame is that of    *)
(* the batch encoder, and the decoder says of any bytes what the batch     *)
(* decoder says.  Of xxHash32 it is only taken that it is made of bytes.   *)
(***************************************************************************)
EXTENDS Lz4f, Lz4BlockProofs

\* A hash is made of bytes.
Typed == \A s \in Seq(Byte), i \in 1 .. 4 : Xxh32(s, i) \in Byte

-----------------------------------------------------------------------------
(* The inductive invariants.                                               *)

EncInv ==
    /\ job \in Jobs
    /\ sent \in 0 .. Len(job.bytes) /\ rest \in 0 .. sent
    /\ staged \in Seq(Byte) /\ Len(staged) <= Full
    /\ wire \in Seq(Byte) /\ hashed \in Seq(Byte)
    /\ encPc # "out" => encVerdict = "open"
    /\ ~encClosed => encVerdict = "open"
    /\ encErr \in {"none", "BUFFER_TOO_SMALL"}
    /\ ReserveKept

\* How much of the descriptor has been read, in each state.
DescriptorRead ==
    /\ state \in {"MAGIC", "FLG"} => Len(desc) = 0
    /\ state = "BD" => Len(desc) = 1
    /\ state = "CONTENT_SIZE" => Len(desc) = 2 + Len(field)
    /\ state = "DICT_ID" => Len(desc) <= 10 + Len(field)

DecInv ==
    /\ frame \in Seq(Byte)
    /\ end \in 0 .. Len(frame) /\ cp \in 0 .. end
    /\ state \in States
    /\ pc = "in" => err = "none" /\ state \notin {"DONE", "CLOSED"}
    /\ max \in Nat /\ max >= SmallBlock /\ size \in 0 .. max
    /\ block \in Seq(Byte) /\ Len(block) <= max
    /\ state = "BLOCK_DATA" => Len(block) <= size
    /\ desc \in Seq(Byte) /\ Len(desc) <= 14
    /\ field \in Seq(Byte)
    /\ state \in DOMAIN FieldSize => Len(field) < FieldSize[state]
    /\ err = "none" => DescriptorRead

-----------------------------------------------------------------------------
(* Facts about the parts of a frame.                                       *)

LEMMA BlockMaxType ==
    ASSUME NEW id \in 4 .. 7
    PROVE  /\ BlockMax(id) \in Nat /\ BlockMax(id) >= SmallBlock /\ BlockMax(id) > 0
           /\ BlockMax(id) < 1073741824
           /\ SmallBlock \in Nat
<1>1. SmallBlock \in Nat /\ SmallBlock > 0 /\ SmallBlock <= 65536
  BY Lz4FrameAssumption, SMTT(30)
<1>2. CASE id = 4
  BY <1>1, <1>2 DEF BlockMax
<1>3. CASE id = 5
  BY <1>1, <1>3 DEF BlockMax
<1>4. CASE id = 6
  BY <1>1, <1>4 DEF BlockMax
<1>5. CASE id = 7
  BY <1>1, <1>5 DEF BlockMax
<1> QED
  BY <1>2, <1>3, <1>4, <1>5, SMTT(30)

LEMMA ChecksumType ==
    ASSUME Typed, NEW s \in Seq(Byte)
    PROVE  Checksum(s) \in Seq(Byte) /\ Len(Checksum(s)) = 4
  BY DEF Checksum, Typed

\* A number below 2 ^ 30 in four bytes: the last of them has room for a flag.
LEMMA LittleType ==
    ASSUME NEW n \in Nat, n < 1073741824
    PROVE  /\ Little(n) \in Seq(Byte) /\ Len(Little(n)) = 4
           /\ Little(n)[4] \in 0 .. 127
           /\ n = Little(n)[1] + 256 * Little(n)[2] + 65536 * Little(n)[3]
                    + 16777216 * Little(n)[4]
<1>1. PICK b1 \in Nat : b1 = n \div 256
  OBVIOUS
<1>2. PICK b2 \in Nat : b2 = n \div 65536
  OBVIOUS
<1>3. PICK b3 \in Nat : b3 = n \div 16777216
  OBVIOUS
<1>4. n % 256 \in 0 .. 255 /\ b1 % 256 \in 0 .. 255 /\ b2 % 256 \in 0 .. 255
  OBVIOUS
<1>5. b3 < 64 /\ b3 % 256 = b3
  BY <1>3
<1>6. Little(n) = <<n % 256, b1 % 256, b2 % 256, b3>>
  BY <1>1, <1>2, <1>3, <1>5 DEF Little
<1>7. Byte = 0 .. 255
  BY DEF Byte
<1>8. Little(n) \in Seq(Byte) /\ Len(Little(n)) = 4
  BY <1>4, <1>5, <1>6, <1>7
<1>9. n = (n % 256) + 256 * (b1 % 256) + 65536 * (b2 % 256) + 16777216 * b3
  BY <1>1, <1>2, <1>3, <1>5
<1> QED
  BY <1>5, <1>6, <1>8, <1>9

\* What the size field of a block says is what was written there.
LEMMA SizeFieldRead ==
    ASSUME NEW n \in Nat, n < 1073741824, NEW r \in BOOLEAN, NEW f, f = SizeField(n, r)
    PROVE  /\ f \in Seq(Byte) /\ Len(f) = 4
           /\ SizeOf(f) = n
           /\ r => IsRaw(f)
           /\ ~r => ~IsRaw(f)
<1>1. PICK l \in Seq(Byte) : l = Little(n)
  BY LittleType
<1>2. PICK k \in 0 .. 127 : k = l[4]
  BY <1>1, LittleType
<1>3. Len(l) = 4 /\ n = l[1] + 256 * l[2] + 65536 * l[3] + 16777216 * k
  BY <1>1, <1>2, LittleType
<1>4. PICK v \in 0 .. 255 : v = IF r THEN k + 128 ELSE k
  OBVIOUS
<1>5. v \in Byte /\ 4 \in 1 .. Len(l) /\ 1 \in 1 .. Len(l) /\ 2 \in 1 .. Len(l) /\ 3 \in 1 .. Len(l)
  BY <1>3 DEF Byte
<1>6. f = [l EXCEPT ![4] = v]
  BY <1>1, <1>2, <1>4 DEF SizeField
<1>7. f \in Seq(Byte) /\ Len(f) = Len(l)
      /\ \A i \in 1 .. Len(l) : f[i] = IF i = 4 THEN v ELSE l[i]
  BY <1>5, <1>6, ExceptSeq
<1>8. f[1] = l[1] /\ f[2] = l[2] /\ f[3] = l[3] /\ f[4] = v
  BY <1>5, <1>7
<1>9. v % 128 = k
  BY <1>4
<1>10. SizeOf(f) = n
  <2>1. SizeOf(f) = f[1] + 256 * f[2] + 65536 * f[3] + 16777216 * (f[4] % 128)
    BY DEF SizeOf
  <2>2. f[1] = l[1] /\ f[2] = l[2] /\ f[3] = l[3] /\ f[4] % 128 = k
    BY <1>8, <1>9
  <2>3. SizeOf(f) = l[1] + 256 * l[2] + 65536 * l[3] + 16777216 * k
    BY <2>1, <2>2
  <2> QED
    BY <1>3, <2>3
<1>11. r => IsRaw(f)
  BY <1>4, <1>8 DEF IsRaw
<1>12. ~r => ~IsRaw(f)
  BY <1>4, <1>8 DEF IsRaw
<1>13. f \in Seq(Byte) /\ Len(f) = 4
  BY <1>3, <1>7
<1> QED
  BY <1>10, <1>11, <1>12, <1>13

LEMMA EndMarkType == EndMark \in Seq(Byte) /\ Len(EndMark) = 4
<1>1. Byte = 0 .. 255
  BY DEF Byte
<1> QED
  BY <1>1 DEF EndMark

\* Where a block fits, it takes no more than is left before the reserve.
LEMMA BlockBytesFit ==
    ASSUME Typed, NEW data \in Seq(Byte), NEW sums \in BOOLEAN, NEW left \in Int,
           Len(data) < 1073741824,
           Fits(Compressed(data), data, sums, left)
    PROVE  /\ BlockBytes(Compressed(data), data, sums) \in Seq(Byte)
           /\ Len(BlockBytes(Compressed(data), data, sums)) <= left - 8
<1> DEFINE packed == Compressed(data)
           r      == Len(packed) >= Len(data)
           body   == IF r THEN data ELSE packed
           tail   == IF sums THEN Checksum(body) ELSE <<>>
           field0 == SizeField(Len(body), r)
<1>1. packed \in Seq(Byte) /\ Len(packed) \in Nat /\ Len(data) \in Nat /\ data \in Seq(Byte)
  BY CompressedParts
<1>2. body \in Seq(Byte) /\ Len(body) <= left - 4 - SumBytes(sums) - 8 /\ Len(body) \in Nat
      /\ Len(body) < 1073741824
  <2>1. Len(body) <= Len(data) /\ body \in Seq(Byte) /\ Len(body) \in Nat
    BY <1>1
  <2>2. body \in Seq(Byte) /\ Len(body) <= left - 4 - SumBytes(sums) - 8 /\ Len(body) \in Nat
    <3>1. Len(packed) <= left - 4 - SumBytes(sums) - 8
      BY DEF Fits
    <3>2. r => Len(data) <= left - 4 - SumBytes(sums) - 8
      BY DEF Fits
    <3> QED
      BY <1>1, <3>1, <3>2
  <2> QED
    BY <1>1, <2>1, <2>2
<1>3. tail \in Seq(Byte) /\ Len(tail) = SumBytes(sums)
  <2> HIDE DEF body
  <2>1. CASE sums
    BY <1>2, <2>1, ChecksumType DEF SumBytes
  <2>2. CASE ~sums
    BY <2>2 DEF SumBytes
  <2> QED
    BY <2>1, <2>2
<1>4. field0 \in Seq(Byte) /\ Len(field0) = 4
  <2> HIDE DEF body, r
  <2>1. r \in BOOLEAN
    BY DEF r
  <2> QED
    BY <1>2, <2>1, SizeFieldRead
<1>5. BlockBytes(packed, data, sums) = (field0 \o body) \o tail
  BY DEF BlockBytes
<1> HIDE DEF packed, body, tail, field0
<1>6. field0 \o body \in Seq(Byte) /\ Len(field0 \o body) = 4 + Len(body)
  <2>1. body \in Seq(Byte) /\ field0 \in Seq(Byte)
    BY <1>2, <1>4
  <2>2. field0 \o body \in Seq(Byte) /\ Len(field0 \o body) = Len(field0) + Len(body)
    BY <2>1, ConcatProperties
  <2> QED
    BY <1>4, <2>2
<1>7. BlockBytes(packed, data, sums) \in Seq(Byte)
      /\ Len(BlockBytes(packed, data, sums)) = 4 + Len(body) + Len(tail)
  BY <1>3, <1>5, <1>6, ConcatProperties
<1>8. SumBytes(sums) \in Nat
  BY DEF SumBytes
<1>9. 4 + Len(body) + Len(tail) <= left - 8
  BY <1>2, <1>3, <1>8
<1> QED
  BY <1>7, <1>9 DEF packed

\* A stretch of a sequence, or nothing.
LEMMA StretchOf ==
    ASSUME NEW S, NEW s \in Seq(S), NEW m \in Nat, NEW n \in Nat, m + n <= Len(s)
    PROVE  SubSeq(s, m + 1, m + n) \in Seq(S) /\ Len(SubSeq(s, m + 1, m + n)) = n
<1>1. \A i \in m + 1 .. m + n : s[i] \in S
  BY ElementOfSeq
<1> QED
  BY <1>1, SubSeqProperties

LEMMA Stretch ==
    ASSUME NEW s \in Seq(Byte), NEW m \in Nat, NEW n \in Nat, m + n <= Len(s)
    PROVE  SubSeq(s, m + 1, m + n) \in Seq(Byte) /\ Len(SubSeq(s, m + 1, m + n)) = n
  BY StretchOf

\* Two sequences of numbers, one behind the other.
LEMMA Behind ==
    ASSUME NEW s \in Seq(Byte), NEW t \in Seq(Byte)
    PROVE  s \o t \in Seq(Byte) /\ Len(s \o t) = Len(s) + Len(t) /\ Len(s) \in Nat /\ Len(t) \in Nat
  BY ConcatProperties

-----------------------------------------------------------------------------
(* The encoder.                                                            *)

LEMMA JobFacts ==
    ASSUME NEW j \in Jobs
    PROVE  /\ j.bytes \in Seq(Byte) /\ j.sums \in BOOLEAN /\ j.id \in 4 .. 7
           /\ j.cap \in Nat /\ j.cap >= 19
           /\ BlockMax(j.id) \in Nat /\ BlockMax(j.id) > 0 /\ BlockMax(j.id) < 1073741824
<1>1. j.bytes \in Seq(Byte) /\ j.sums \in BOOLEAN /\ j.id \in 4 .. 7
      /\ j.cap \in Nat /\ j.cap >= 19
  BY Lz4fEncAssumption
<1>2. BlockMax(j.id) \in Nat /\ BlockMax(j.id) > 0 /\ BlockMax(j.id) < 1073741824
  BY <1>1, BlockMaxType
<1> QED
  BY <1>1, <1>2

\* A new encoder has written seven bytes of at least nineteen.
LEMMA EncInitInv ==
    ASSUME Typed, EncInit
    PROVE  EncInv
<1>1. job \in Jobs /\ job.bytes \in Seq(Byte) /\ job.cap \in Nat /\ job.cap >= 19 /\ job.id \in 4 .. 7
  BY JobFacts DEF EncInit
<1>2. Full \in Nat
  BY <1>1, JobFacts DEF Full
<1>3. wire \in Seq(Byte) /\ Len(wire) = 7
  <2> DEFINE desc0 == <<IF job.sums THEN 116 ELSE 100, job.id * 16>>
  <2>1. desc0 \in Seq(Byte) /\ Len(desc0) = 2
    <3>1. Byte = 0 .. 255
      BY DEF Byte
    <3>2. job.id * 16 \in 0 .. 255 /\ (IF job.sums THEN 116 ELSE 100) \in 0 .. 255
      <4>1. \A i \in 4 .. 7 : i * 16 \in 0 .. 255
        OBVIOUS
      <4>2. job.id * 16 \in 0 .. 255
        BY <1>1, <4>1
      <4>3. (IF job.sums THEN 116 ELSE 100) \in 0 .. 255
        OBVIOUS
      <4> QED
        BY <4>2, <4>3
    <3> QED
      BY <3>1, <3>2
  <2>2. Magic \in Seq(Byte) /\ Len(Magic) = 4
    <3>1. Byte = 0 .. 255
      BY DEF Byte
    <3> QED
      BY <3>1 DEF Magic
  <2>3. <<HeaderSum(desc0)>> \in Seq(Byte) /\ Len(<<HeaderSum(desc0)>>) = 1
    <3>1. HeaderSum(desc0) \in Byte
      <4> HIDE DEF desc0
      <4> QED
        BY <2>1 DEF HeaderSum, Typed
    <3> HIDE DEF desc0
    <3> QED
      BY <3>1
  <2>4. wire = (Magic \o desc0) \o <<HeaderSum(desc0)>>
    BY DEF EncInit, Header
  <2> HIDE DEF desc0
  <2>5. Magic \o desc0 \in Seq(Byte) /\ Len(Magic \o desc0) = 6
    <3>1. Magic \o desc0 \in Seq(Byte) /\ Len(Magic \o desc0) = Len(Magic) + Len(desc0)
      BY <2>1, <2>2, Behind
    <3> QED
      BY <2>1, <2>2, <3>1
  <2> QED
    BY <2>3, <2>4, <2>5, Behind
<1> QED
  BY <1>1, <1>2, <1>3 DEF EncInv, EncInit, ReserveKept

\* Writing a block, or failing to, keeps the reserve.
LEMMA EmitBlockInv ==
    ASSUME Typed, EncInv, encVerdict = "open", encErr = "none", NEW data \in Seq(Byte),
           Len(data) <= Full, EmitBlock(data)
    PROVE  /\ wire' \in Seq(Byte) /\ Len(wire') + 8 <= job.cap
           /\ staged' \in Seq(Byte) /\ Len(staged') <= Full
           /\ encErr' \in {"none", "BUFFER_TOO_SMALL"}
<1>1. job.sums \in BOOLEAN /\ job.cap \in Nat /\ Full \in Nat /\ Len(data) < 1073741824
  BY JobFacts DEF EncInv, Full
<1>2. wire \in Seq(Byte) /\ Len(wire) \in Nat /\ Len(wire) + 8 <= job.cap
  BY DEF EncInv, ReserveKept
<1>3. CASE FitsHere(Compressed(data), data)
  <2> DEFINE added == BlockBytes(Compressed(data), data, job.sums)
             left  == job.cap - Len(wire)
  <2>1. left \in Int /\ Fits(Compressed(data), data, job.sums, left)
    BY <1>1, <1>2, <1>3 DEF FitsHere
  <2>2. added \in Seq(Byte) /\ Len(added) <= left - 8
    BY <1>1, <2>1, BlockBytesFit
  <2>3. wire' = wire \o added /\ staged' = <<>> /\ encErr' = encErr
    BY <1>3 DEF EmitBlock
  <2> HIDE DEF added
  <2>4. wire \o added \in Seq(Byte) /\ Len(wire \o added) = Len(wire) + Len(added)
    BY <1>2, <2>2, ConcatProperties
  <2>5. Len(added) \in Nat
    BY <2>2
  <2>6. Len(wire) + Len(added) + 8 <= job.cap
    BY <1>1, <1>2, <2>2, <2>5
  <2> QED
    BY <1>1, <2>3, <2>4, <2>6
<1>4. CASE ~FitsHere(Compressed(data), data)
  BY <1>1, <1>2, <1>4 DEF EmitBlock
<1> QED
  BY <1>3, <1>4

\* What is copied into the block fits there.
LEMMA StageInv ==
    ASSUME Typed, EncInv, Stage
    PROVE  EncInv'
<1> DEFINE space == Full - Len(staged)
           take  == IF rest > space THEN space ELSE rest
           from  == sent - rest
           data  == staged \o SubSeq(job.bytes, from + 1, from + take)
<1>1. /\ job \in Jobs /\ job.bytes \in Seq(Byte) /\ job.cap \in Nat /\ Full \in Nat
      /\ sent \in 0 .. Len(job.bytes) /\ rest \in 0 .. sent
      /\ staged \in Seq(Byte) /\ Len(staged) \in Nat /\ Len(staged) <= Full
  BY JobFacts DEF EncInv, Full
<1>2. from \in Nat /\ take \in Nat /\ take <= rest /\ take <= space /\ from + take <= Len(job.bytes)
  BY <1>1
<1>3. data \in Seq(Byte) /\ Len(data) = Len(staged) + take
  <2> HIDE DEF from, take
  <2>1. /\ SubSeq(job.bytes, from + 1, from + take) \in Seq(Byte)
        /\ Len(SubSeq(job.bytes, from + 1, from + take)) = take
    BY <1>1, <1>2, StretchOf
  <2> QED
    BY <1>1, <2>1, ConcatProperties
<1>4. Len(data) <= Full
  BY <1>1, <1>2, <1>3
<1>5. /\ rest' = rest - take /\ IF Len(data) = Full THEN EmitBlock(data)
                               ELSE staged' = data /\ UNCHANGED <<wire, encErr>>
      /\ UNCHANGED <<job, sent, hashed, encClosed, encPc, encVerdict>>
  BY DEF Stage
<1>6. encVerdict = "open" /\ encErr = "none"
  BY DEF EncInv, Stage
<1>7. rest' \in 0 .. sent
  BY <1>1, <1>2, <1>5
<1> HIDE DEF data, take
<1>8. /\ wire' \in Seq(Byte) /\ Len(wire') + 8 <= job.cap
      /\ staged' \in Seq(Byte) /\ Len(staged') <= Full
      /\ encErr' \in {"none", "BUFFER_TOO_SMALL"}
  <2>1. CASE Len(data) = Full
    BY <1>3, <1>4, <1>5, <1>6, <2>1, EmitBlockInv
  <2>2. CASE Len(data) # Full
    BY <1>3, <1>4, <1>5, <1>6, <2>2 DEF EncInv, ReserveKept
  <2> QED
    BY <2>1, <2>2
<1>9. Full' = Full
  BY <1>5 DEF Full
<1>10. Len(wire') \in Nat
  BY <1>8
<1> QED
  BY <1>1, <1>5, <1>6, <1>7, <1>8, <1>9, <1>10 DEF EncInv, ReserveKept

\* Every step of the encoder keeps its invariant.
LEMMA EncStep ==
    ASSUME Typed, EncInv, EncNext
    PROVE  EncInv'
<1>0. /\ job \in Jobs /\ job.bytes \in Seq(Byte) /\ job.cap \in Nat /\ Full \in Nat
      /\ wire \in Seq(Byte) /\ Len(wire) \in Nat
  BY JobFacts DEF EncInv, Full
<1>1. ASSUME NEW n \in 1 .. Len(job.bytes), EncWrite(n)
      PROVE  EncInv'
  <2>1. n \in Nat /\ sent \in Nat /\ sent + n <= Len(job.bytes)
    BY <1>0, <1>1 DEF EncWrite, EncInv
  <2>2. SubSeq(job.bytes, sent + 1, sent + n) \in Seq(Byte)
    BY <1>0, <2>1, Stretch
  <2>3. hashed' \in Seq(Byte)
    BY <1>1, <2>2, ConcatProperties DEF EncWrite, EncInv
  <2>4. sent' \in 0 .. Len(job.bytes) /\ rest' \in 0 .. sent'
    BY <1>0, <1>1, <2>1 DEF EncWrite
  <2> QED
    BY <1>1, <2>3, <2>4 DEF EncWrite, EncInv, ReserveKept, Full
<1>2. CASE Stage
  BY <1>2, StageInv
<1>3. CASE EncReturn
  <2>1. rest' \in 0 .. sent
    BY <1>3 DEF EncReturn, EncInv
  <2> QED
    BY <1>3, <2>1 DEF EncReturn, EncInv, ReserveKept, Full
<1>4. CASE EncFlushLast
  <2>1. encVerdict = "open" /\ Full' = Full
    BY <1>4 DEF EncFlushLast, EncInv, Full
  <2>2. /\ wire' \in Seq(Byte) /\ Len(wire') + 8 <= job.cap
        /\ staged' \in Seq(Byte) /\ Len(staged') <= Full
        /\ encErr' \in {"none", "BUFFER_TOO_SMALL"}
    <3>1. CASE encErr = "none" /\ staged # <<>>
      BY <1>4, <2>1, <3>1, EmitBlockInv DEF EncFlushLast, LastBlock, EncInv
    <3>2. CASE ~(encErr = "none" /\ staged # <<>>)
      BY <1>4, <2>1, <3>2 DEF EncFlushLast, LastBlock, EncInv, ReserveKept
    <3> QED
      BY <3>1, <3>2
  <2>3. Len(wire') \in Nat
    BY <2>2
  <2> QED
    BY <1>0, <1>4, <2>1, <2>2, <2>3 DEF EncFlushLast, EncInv, ReserveKept
<1>5. CASE EncClose
  <2>1. encVerdict = "open" /\ Len(wire) + 8 <= job.cap /\ Full' = Full
    BY <1>5 DEF EncClose, EncInv, ReserveKept, Full
  <2>2. CASE encErr # "none"
    BY <1>0, <1>5, <2>1, <2>2 DEF EncClose, EncInv, ReserveKept
  <2>3. CASE encErr = "none"
    <3>1. /\ wire' = (wire \o EndMark) \o Checksum(hashed)
          /\ encVerdict' = "ok" /\ encClosed' = TRUE /\ encPc' = "out"
          /\ UNCHANGED <<job, sent, rest, staged, hashed, encErr>>
      BY <1>0, <1>5, <2>1, <2>3 DEF EncClose
    <3>2. Checksum(hashed) \in Seq(Byte) /\ Len(Checksum(hashed)) = 4
      BY ChecksumType DEF EncInv
    <3>3. wire \o EndMark \in Seq(Byte) /\ Len(wire \o EndMark) = Len(wire) + 4
      <4>1. wire \in Seq(Byte) /\ EndMark \in Seq(Byte)
        BY <1>0, EndMarkType
      <4>2. Len(wire \o EndMark) = Len(wire) + Len(EndMark) /\ wire \o EndMark \in Seq(Byte)
        BY <4>1, Behind
      <4> QED
        BY <4>2, EndMarkType
    <3>4. wire' \in Seq(Byte) /\ Len(wire') = Len(wire) + 8
      <4> DEFINE w == wire \o EndMark
                 c == Checksum(hashed)
      <4>1. w \in Seq(Byte) /\ c \in Seq(Byte) /\ Len(w) = Len(wire) + 4 /\ Len(c) = 4
        BY <3>2, <3>3
      <4>2. wire' = w \o c
        BY <3>1
      <4> HIDE DEF w, c
      <4>3. Len(w \o c) = Len(w) + Len(c) /\ w \o c \in Seq(Byte)
        BY <4>1, Behind
      <4> QED
        BY <1>0, <4>1, <4>2, <4>3
    <3>5. Len(wire') <= job.cap
      BY <2>1, <3>4
    <3> QED
      BY <2>1, <3>1, <3>4, <3>5 DEF EncInv, ReserveKept
  <2> QED
    BY <2>2, <2>3
<1> QED
  BY <1>1, <1>2, <1>3, <1>4, <1>5 DEF EncNext

-----------------------------------------------------------------------------
(* The decoder.                                                            *)

LEMMA FieldSizes ==
    /\ DOMAIN FieldSize = {"MAGIC", "FLG", "BD", "CONTENT_SIZE", "DICT_ID", "HC", "BLOCK_SIZE",
                           "BLOCK_CHECKSUM", "CONTENT_CHECKSUM"}
    /\ \A s \in DOMAIN FieldSize : FieldSize[s] \in Nat /\ FieldSize[s] > 0
    /\ FieldSize["MAGIC"] = 4 /\ FieldSize["FLG"] = 1 /\ FieldSize["BD"] = 1
    /\ FieldSize["CONTENT_SIZE"] = 8 /\ FieldSize["DICT_ID"] = 4 /\ FieldSize["BLOCK_SIZE"] = 4
  BY DEF FieldSize

LEMMA StateNames ==
    States = {"MAGIC", "FLG", "BD", "CONTENT_SIZE", "DICT_ID", "HC", "BLOCK_SIZE",
              "BLOCK_CHECKSUM", "CONTENT_CHECKSUM", "BLOCK_DATA", "DONE", "CLOSED"}
  BY FieldSizes DEF States

LEMMA DecInitInv ==
    ASSUME DecInit
    PROVE  DecInv
<1>1. SmallBlock \in Nat
  BY Lz4FrameAssumption, SMTT(30)
<1>2. <<>> \in Seq(Byte) /\ Len(<<>>) = 0
  OBVIOUS
<1> QED
  BY <1>1, <1>2, FieldSizes, StateNames DEF DecInit, DecInv, DescriptorRead

LEMMA OpenedInv ==
    ASSUME NEW f \in Seq(Byte), NEW r, Opened(f, r)
    PROVE  DecInv'
<1>1. SmallBlock \in Nat
  BY Lz4FrameAssumption
<1>2. <<>> \in Seq(Byte) /\ Len(<<>>) = 0 /\ Len(f) \in Nat
  OBVIOUS
<1> QED
  BY <1>1, <1>2, FieldSizes, StateNames DEF Opened, DecInv, DescriptorRead

\* Inside a write there is something to wait for, and not more than is missing
\* is taken.
LEMMA MissingType ==
    ASSUME DecInv, pc = "in"
    PROVE  /\ Missing \in Nat /\ Left \in Nat
           /\ state = "BLOCK_DATA" => Missing = size - Len(block)
           /\ state # "BLOCK_DATA" => state \in DOMAIN FieldSize /\ Missing = FieldSize[state] - Len(field)
<1>1. cp \in Nat /\ end \in Nat /\ cp <= end
  BY DEF DecInv
<1>2. CASE state = "BLOCK_DATA"
  BY <1>1, <1>2 DEF DecInv, Missing, Left
<1>3. CASE state # "BLOCK_DATA"
  <2>1. state \in DOMAIN FieldSize
    BY <1>3, FieldSizes, StateNames DEF DecInv
  <2>2. FieldSize[state] \in Nat /\ Len(field) \in Nat /\ Len(field) < FieldSize[state]
    BY <2>1, FieldSizes DEF DecInv
  <2> QED
    BY <1>1, <1>3, <2>1, <2>2 DEF Missing, Left
<1> QED
  BY <1>2, <1>3

LEMMA ComingType ==
    ASSUME DecInv, NEW n \in Nat, n <= Left
    PROVE  Coming(n) \in Seq(Byte) /\ Len(Coming(n)) = n /\ cp + n \in 0 .. end
<1>1. cp \in Nat /\ end \in Nat /\ frame \in Seq(Byte) /\ cp + n <= end /\ end <= Len(frame)
  BY DEF DecInv, Left
<1>2. cp + n <= Len(frame)
  BY <1>1
<1> QED
  BY <1>1, <1>2, Stretch DEF Coming

\* A turn that has the whole field.
LEMMA WholeType ==
    ASSUME DecInv, NEW s \in DOMAIN FieldSize, In(s)
    PROVE  /\ pc = "in" /\ err = "none" /\ state = s /\ cp' \in 0 .. end
           /\ Whole \in Seq(Byte) /\ Len(Whole) = FieldSize[s]
           /\ Coming(Missing) \in Seq(Byte) /\ Len(Coming(Missing)) = FieldSize[s] - Len(field)
<1>1. pc = "in" /\ err = "none" /\ state = s /\ ~Short /\ cp' = cp + Missing
  BY DEF In, DecInv
<1>2. s # "BLOCK_DATA"
  BY FieldSizes
<1>3. Missing \in Nat /\ Missing = FieldSize[s] - Len(field) /\ Missing <= Left
  BY <1>1, <1>2, MissingType DEF Short
<1>4. Coming(Missing) \in Seq(Byte) /\ Len(Coming(Missing)) = Missing /\ cp' \in 0 .. end
  BY <1>1, <1>3, ComingType
<1>5. field \in Seq(Byte) /\ Len(field) \in Nat /\ FieldSize[s] \in Nat
  <2>1. field \in Seq(Byte) /\ Len(field) \in Nat
    BY DEF DecInv
  <2>2. FieldSize[s] \in Nat
    BY FieldSizes, Zenon
  <2> QED
    BY <2>1, <2>2
<1>6. Whole \in Seq(Byte) /\ Len(Whole) = Len(field) + Len(Coming(Missing))
  BY <1>4, <1>5, Behind DEF Whole
<1> QED
  BY <1>1, <1>3, <1>4, <1>5, <1>6
\* The descriptor while an optional field comes in.
LEMMA DescribedType ==
    ASSUME DecInv, err = "none", NEW n \in Nat, Coming(n) \in Seq(Byte), Len(Coming(n)) = n
    PROVE  /\ Described(n) \in Seq(Byte)
           /\ state \notin {"CONTENT_SIZE", "DICT_ID"} => Described(n) = desc
           /\ state = "CONTENT_SIZE" => Len(Described(n)) = 2 + Len(field) + n
           /\ state = "DICT_ID" => Len(Described(n)) <= 10 + Len(field) + n
<1>1. desc \in Seq(Byte) /\ Len(desc) \in Nat /\ Len(field) \in Nat /\ DescriptorRead
  BY DEF DecInv
<1>2. CASE state \in {"CONTENT_SIZE", "DICT_ID"}
  <2>1. Described(n) = desc \o Coming(n)
    BY <1>2 DEF Described
  <2>2. desc \o Coming(n) \in Seq(Byte) /\ Len(desc \o Coming(n)) = Len(desc) + Len(Coming(n))
    BY <1>1, Behind
  <2>3. Described(n) \in Seq(Byte) /\ Len(Described(n)) = Len(desc) + n
    <3> HIDE DEF Described
    <3> QED
      BY <2>1, <2>2, Zenon
  <2>4. CASE state = "CONTENT_SIZE"
    <3>1. Len(desc) = 2 + Len(field)
      BY <1>1, <2>4 DEF DescriptorRead
    <3> QED
      BY <1>1, <2>3, <2>4, <3>1
  <2>5. CASE state = "DICT_ID"
    <3>1. Len(desc) <= 10 + Len(field)
      BY <1>1, <2>5 DEF DescriptorRead
    <3> QED
      BY <1>1, <2>3, <2>5, <3>1
  <2> QED
    BY <1>2, <2>4, <2>5
<1>3. CASE state \notin {"CONTENT_SIZE", "DICT_ID"}
  BY <1>1, <1>3 DEF Described
<1> QED
  BY <1>2, <1>3

\* A turn that runs out of input keeps what it read, which is less than it needs.
LEMMA SuspendInv ==
    ASSUME DecInv, Suspend
    PROVE  DecInv'
<1>1. /\ pc = "in" /\ Left < Missing /\ cp' = end /\ pc' = "out"
      /\ UNCHANGED <<frame, end, state, max, size, err>>
      /\ IF state = "BLOCK_DATA" THEN block' = block \o Coming(Left) /\ field' = field
                                 ELSE field' = field \o Coming(Left) /\ block' = block
      /\ desc' = Described(Left)
  BY DEF Suspend, Short, caller
<1>2. err = "none" /\ Left \in Nat /\ Missing \in Nat
  BY <1>1, MissingType DEF DecInv
<1>3. Coming(Left) \in Seq(Byte) /\ Len(Coming(Left)) = Left
  BY <1>2, ComingType
<1>4. cp' \in 0 .. end
  BY <1>1 DEF DecInv
<1>5. CASE state = "BLOCK_DATA"
  <2>1. Missing = size - Len(block) /\ size \in Nat /\ size <= max /\ max \in Nat
    BY <1>1, <1>5, MissingType DEF DecInv
  <2>2. block' \in Seq(Byte) /\ Len(block') = Len(block) + Left /\ Len(block) \in Nat
    <3>1. block \in Seq(Byte)
      BY DEF DecInv
    <3>2. /\ block \o Coming(Left) \in Seq(Byte) /\ Len(block) \in Nat
          /\ Len(block \o Coming(Left)) = Len(block) + Len(Coming(Left))
      BY <1>3, <3>1, Behind
    <3>3. block' = block \o Coming(Left)
      BY <1>1, <1>5
    <3> QED
      BY <1>3, <3>2, <3>3, Zenon
  <2>3. Len(block') <= size /\ Len(block') <= max
    BY <1>1, <1>2, <2>1, <2>2
  <2>4. desc' = desc /\ field' = field
    BY <1>1, <1>2, <1>3, <1>5, DescribedType
  <2> QED
    BY <1>1, <1>4, <1>5, <2>2, <2>3, <2>4 DEF DecInv, DescriptorRead
<1>6. CASE state # "BLOCK_DATA"
  <2>1. state \in DOMAIN FieldSize /\ Missing = FieldSize[state] - Len(field)
        /\ FieldSize[state] \in Nat
    BY <1>1, <1>6, MissingType, FieldSizes
  <2>2. field' \in Seq(Byte) /\ Len(field') = Len(field) + Left /\ Len(field) \in Nat
    BY <1>1, <1>3, <1>6, Behind DEF DecInv
  <2>3. Len(field') < FieldSize[state]
    BY <1>1, <1>2, <2>1, <2>2
  <2>4. desc' \in Seq(Byte) /\ Len(desc') <= 14
        /\ (state = "CONTENT_SIZE" => Len(desc') = 2 + Len(field'))
        /\ (state = "DICT_ID" => Len(desc') <= 10 + Len(field'))
        /\ (state \notin {"CONTENT_SIZE", "DICT_ID"} => desc' = desc)
    <3>1. /\ Described(Left) \in Seq(Byte)
          /\ state \notin {"CONTENT_SIZE", "DICT_ID"} => Described(Left) = desc
          /\ state = "CONTENT_SIZE" => Len(Described(Left)) = 2 + Len(field) + Left
          /\ state = "DICT_ID" => Len(Described(Left)) <= 10 + Len(field) + Left
      BY <1>2, <1>3, DescribedType
    <3>2. Len(desc') \in Nat
      BY <1>1, <3>1
    <3>3. Len(field) + Left = Len(field') /\ Len(field') \in Nat
      BY <2>2
    <3>4. CASE state = "CONTENT_SIZE"
      BY <1>1, <1>2, <2>2, <2>3, <3>1, <3>2, <3>3, <3>4, FieldSizes
    <3>5. CASE state = "DICT_ID"
      BY <1>1, <1>2, <2>2, <2>3, <3>1, <3>2, <3>3, <3>5, FieldSizes
    <3>6. CASE state \notin {"CONTENT_SIZE", "DICT_ID"}
      BY <1>1, <3>1, <3>6 DEF DecInv
    <3> QED
      BY <3>4, <3>5, <3>6
  <2> QED
    BY <1>1, <1>2, <1>4, <1>6, <2>1, <2>2, <2>3, <2>4 DEF DecInv, DescriptorRead
<1> QED
  BY <1>5, <1>6

\* The fields of the header.  What a field leaves alone is settled once: a turn
\* ends in an error, or with the next state and an empty field.
Settled ==
    /\ UNCHANGED <<frame, end, max, block, size>>
    /\ \/ err' # "none" /\ pc' = "out" /\ UNCHANGED <<state, field>>
       \/ /\ field' = <<>> /\ UNCHANGED <<err, pc>>
          /\ state' \in DOMAIN FieldSize

LEMMA SettledInv ==
    ASSUME DecInv, pc = "in", cp' \in 0 .. end, Settled,
           desc' \in Seq(Byte), Len(desc') <= 14, err' = "none" => DescriptorRead'
    PROVE  DecInv'
<1>1. state # "BLOCK_DATA" => state' # "BLOCK_DATA"
  BY FieldSizes DEF Settled
<1>2. <<>> \in Seq(Byte) /\ Len(<<>>) = 0
  OBVIOUS
<1>3. CASE err' # "none" /\ pc' = "out" /\ UNCHANGED <<state, field>>
  BY <1>3 DEF DecInv, Settled
<1>4. CASE field' = <<>> /\ UNCHANGED <<err, pc>> /\ state' \in DOMAIN FieldSize
  <2>1. state' \in States /\ state' \notin {"DONE", "CLOSED", "BLOCK_DATA"}
    BY <1>4, FieldSizes, StateNames
  <2>2. Len(field') < FieldSize[state'] /\ field' \in Seq(Byte)
    BY <1>2, <1>4, FieldSizes
  <2> QED
    BY <1>4, <2>1, <2>2 DEF DecInv, Settled
<1> QED
  BY <1>3, <1>4 DEF Settled
LEMMA ReadMagicInv ==
    ASSUME DecInv, ReadMagic
    PROVE  DecInv'
<1>1. state = "MAGIC" /\ pc = "in" /\ err = "none" /\ cp' \in 0 .. end
  BY WholeType, FieldSizes DEF ReadMagic
<1>2. desc' = desc /\ Settled /\ (err' = "none" => state' = "FLG")
  BY <1>1, FieldSizes DEF ReadMagic, Settled, Poison, GoTo, caller, reading
<1>3. Len(desc) = 0
  BY <1>1 DEF DecInv, DescriptorRead
<1>4. err' = "none" => DescriptorRead'
  BY <1>2, <1>3 DEF DescriptorRead
<1> QED
  BY <1>1, <1>2, <1>4, SettledInv DEF DecInv

LEMMA ReadFlgInv ==
    ASSUME DecInv, ReadFlg
    PROVE  DecInv'
<1>1. /\ state = "FLG" /\ pc = "in" /\ err = "none" /\ cp' \in 0 .. end
      /\ Whole \in Seq(Byte) /\ Len(Whole) = 1
  BY WholeType, FieldSizes DEF ReadFlg
<1>2. desc \in Seq(Byte) /\ Len(desc) = 0
  BY <1>1 DEF DecInv, DescriptorRead
<1>3. CASE FlgFault(Whole[1]) # "none"
  <2>1. desc' = desc /\ Settled /\ err' # "none"
    BY <1>3 DEF ReadFlg, Settled, Poison, caller, reading
  <2> QED
    BY <1>1, <2>1, SettledInv DEF DecInv
<1>4. CASE FlgFault(Whole[1]) = "none"
  <2>1. desc' = desc \o Whole /\ Settled /\ state' = "BD"
    BY <1>4, FieldSizes DEF ReadFlg, Settled, GoTo, caller, reading
  <2>2. desc \o Whole \in Seq(Byte) /\ Len(desc \o Whole) = Len(desc) + Len(Whole)
    BY <1>1, <1>2, Behind
  <2>3. desc' \in Seq(Byte) /\ Len(desc') = Len(desc) + Len(Whole)
    BY <2>1, <2>2, Zenon
  <2>4. Len(desc') = 1
    BY <1>1, <1>2, <2>3
  <2>5. DescriptorRead'
    BY <2>1, <2>4 DEF DescriptorRead
  <2> QED
    BY <1>1, <2>1, <2>3, <2>4, <2>5, SettledInv
<1> QED
  BY <1>3, <1>4

\* The two optional fields of the descriptor.
LEMMA ReadContentSizeInv ==
    ASSUME DecInv, ReadContentSize
    PROVE  DecInv'
<1>1. In("CONTENT_SIZE") /\ "CONTENT_SIZE" \in DOMAIN FieldSize /\ FieldSize["CONTENT_SIZE"] = 8
  BY FieldSizes DEF ReadContentSize
<1>2. /\ state = "CONTENT_SIZE" /\ pc = "in" /\ err = "none" /\ cp' \in 0 .. end
      /\ Coming(Missing) \in Seq(Byte) /\ Len(Coming(Missing)) = 8 - Len(field)
  BY <1>1, WholeType
<1>3. Missing = 8 - Len(field) /\ Missing \in Nat /\ Len(field) \in Nat
  BY <1>1, <1>2, MissingType DEF DecInv
<1>4. desc' = Described(Missing) /\ Settled /\ field' = <<>> /\ state' \in {"DICT_ID", "HC"}
  BY FieldSizes DEF ReadContentSize, Settled, GoTo, AfterBd, caller, reading
<1>5. desc' \in Seq(Byte) /\ Len(desc') = 10
  <2>1. Len(Coming(Missing)) = Missing
    BY <1>2, <1>3
  <2>2. Described(Missing) \in Seq(Byte) /\ Len(Described(Missing)) = 2 + Len(field) + Missing
    BY <1>2, <1>3, <2>1, DescribedType
  <2>3. 2 + Len(field) + Missing = 10
    BY <1>3
  <2> QED
    BY <1>4, <2>2, <2>3, Zenon
<1>6. DescriptorRead'
  <2>1. Len(field') = 0
    BY <1>4
  <2> QED
    BY <1>4, <1>5, <2>1 DEF DescriptorRead
<1> QED
  BY <1>2, <1>4, <1>5, <1>6, SettledInv

LEMMA ReadDictIdInv ==
    ASSUME DecInv, ReadDictId
    PROVE  DecInv'
<1>1. In("DICT_ID") /\ "DICT_ID" \in DOMAIN FieldSize /\ FieldSize["DICT_ID"] = 4
  BY FieldSizes DEF ReadDictId
<1>2. /\ state = "DICT_ID" /\ pc = "in" /\ err = "none" /\ cp' \in 0 .. end
      /\ Coming(Missing) \in Seq(Byte) /\ Len(Coming(Missing)) = 4 - Len(field)
  BY <1>1, WholeType
<1>3. Missing = 4 - Len(field) /\ Missing \in Nat /\ Len(field) \in Nat
  BY <1>1, <1>2, MissingType DEF DecInv
<1>4. desc' = Described(Missing) /\ Settled /\ field' = <<>> /\ state' = "HC"
  BY FieldSizes DEF ReadDictId, Settled, GoTo, AfterBd, caller, reading
<1>5. desc' \in Seq(Byte) /\ Len(desc') <= 14
  <2>1. Len(Coming(Missing)) = Missing
    BY <1>2, <1>3
  <2> QED
    BY <1>2, <1>3, <1>4, <2>1, DescribedType
<1>6. DescriptorRead'
  BY <1>4 DEF DescriptorRead
<1> QED
  BY <1>2, <1>4, <1>5, <1>6, SettledInv

LEMMA ReadHcInv ==
    ASSUME DecInv, ReadHc
    PROVE  DecInv'
<1>1. state = "HC" /\ pc = "in" /\ err = "none" /\ cp' \in 0 .. end
  BY WholeType, FieldSizes DEF ReadHc
<1>2. desc' = desc /\ Settled /\ (err' = "none" => state' = "BLOCK_SIZE")
  BY <1>1, FieldSizes DEF ReadHc, Settled, Poison, GoTo, caller, reading
<1>3. err' = "none" => DescriptorRead'
  BY <1>2 DEF DescriptorRead
<1> QED
  BY <1>1, <1>2, <1>3, SettledInv DEF DecInv
LEMMA FirstType ==
    ASSUME NEW s \in Seq(Byte), Len(s) = 1
    PROVE  s[1] \in Byte /\ s[1] \in Nat
<1>1. 1 \in 1 .. Len(s)
  OBVIOUS
<1> QED
  BY <1>1, ElementOfSeq, ByteIsNumber

\* The block buffer only grows, to a block maximum.
LEMMA ReadBdInv ==
    ASSUME DecInv, ReadBd
    PROVE  DecInv'
<1>1. /\ state = "BD" /\ pc = "in" /\ err = "none" /\ cp' \in 0 .. end
      /\ Whole \in Seq(Byte) /\ Len(Whole) = 1
  BY WholeType, FieldSizes DEF ReadBd
<1>2. desc \in Seq(Byte) /\ Len(desc) = 1
  BY <1>1 DEF DecInv, DescriptorRead
<1>3. desc \o Whole \in Seq(Byte) /\ Len(desc \o Whole) = 2
  <2>1. desc \o Whole \in Seq(Byte) /\ Len(desc \o Whole) = Len(desc) + Len(Whole)
    BY <1>1, <1>2, Behind
  <2> QED
    BY <1>1, <1>2, <2>1
<1>4. CASE err' # "none"
  <2>1. UNCHANGED <<frame, end, state, field, max, block, size>> /\ pc' = "out"
        /\ desc' \in {desc, desc \o Whole}
    BY <1>1, <1>4 DEF ReadBd, Poison, GoTo, caller
  <2>2. desc' \in Seq(Byte) /\ Len(desc') \in {1, 2}
    BY <1>2, <1>3, <2>1, Zenon
  <2>3. Settled
    BY <1>4, <2>1 DEF Settled
  <2>4. Len(desc') <= 14
    <3>1. \A k \in {1, 2} : k <= 14
      OBVIOUS
    <3> QED
      BY <2>2, <3>1, Zenon
  <2> QED
    BY <1>1, <1>4, <2>2, <2>3, <2>4, SettledInv, Zenon
<1>5. CASE err' = "none"
  <2> DEFINE b == Whole[1]
  <2>1. /\ BdFault(b) = "none" /\ GoTo(AfterBd({}))
        /\ max' = IF BlockMax(b \div 16) > max THEN BlockMax(b \div 16) ELSE max
        /\ desc' = desc \o Whole
        /\ UNCHANGED <<frame, end, block, size>>
    <3>1. ~Poison("CORRUPT_DATA") /\ ~Poison("BUFFER_TOO_SMALL")
      BY <1>5 DEF Poison
    <3> QED
      BY <3>1, Zenon DEF ReadBd, caller
  <2>2. b \in Nat /\ b \div 16 \in 4 .. 7
    <3>1. b \in Nat
      BY <1>1, FirstType
    <3>2. b < 128 /\ ~(b \div 16 < 4)
      <4> HIDE DEF b
      <4> QED
        BY <2>1, <3>1 DEF BdFault
    <3> HIDE DEF b
    <3> QED
      BY <3>1, <3>2
  <2>3. max' \in Nat /\ max' >= max
    <3> HIDE DEF b
    <3>1. BlockMax(b \div 16) \in Nat /\ max \in Nat
      BY <2>2, BlockMaxType, SMTT(30) DEF DecInv
    <3> QED
      BY <2>1, <3>1
  <2>4. /\ field' = <<>> /\ UNCHANGED <<err, pc>>
        /\ state' \in {"CONTENT_SIZE", "DICT_ID", "HC"}
    BY <2>1 DEF GoTo, AfterBd
  <2>5. desc' \in Seq(Byte) /\ Len(desc') = 2 /\ field' \in Seq(Byte) /\ Len(field') = 0
    BY <1>3, <2>1, <2>4
  <2>6. DescriptorRead'
    BY <2>4, <2>5 DEF DescriptorRead
  <2>7. block' \in Seq(Byte) /\ Len(block') <= max' /\ size' \in 0 .. max' /\ max' >= SmallBlock
    <3>1. block \in Seq(Byte) /\ Len(block) <= max /\ size \in 0 .. max /\ max >= SmallBlock
          /\ max \in Nat /\ SmallBlock \in Nat /\ Len(block) \in Nat
      BY Lz4FrameAssumption, SMTT(30) DEF DecInv
    <3>2. block' = block /\ size' = size
      BY <2>1
    <3> QED
      BY <2>3, <3>1, <3>2
  <2>8. state' \in States /\ state' \notin {"DONE", "CLOSED", "BLOCK_DATA"}
        /\ Len(field') < FieldSize[state']
    BY <2>4, <2>5, FieldSizes, StateNames
  <2> QED
    BY <1>1, <2>1, <2>3, <2>4, <2>5, <2>6, <2>7, <2>8 DEF DecInv
<1> QED
  BY <1>4, <1>5

LEMMA SizeOfType ==
    ASSUME NEW f \in Seq(Byte), Len(f) = 4
    PROVE  SizeOf(f) \in Nat
<1>1. f[1] \in Nat /\ f[2] \in Nat /\ f[3] \in Nat /\ f[4] \in Nat
  <2>1. 1 \in 1 .. Len(f) /\ 2 \in 1 .. Len(f) /\ 3 \in 1 .. Len(f) /\ 4 \in 1 .. Len(f)
    OBVIOUS
  <2> QED
    BY <2>1, ElementOfSeq, ByteIsNumber
<1>2. f[4] % 128 \in Nat
  BY <1>1
<1> DEFINE a == f[1]
           b == f[2]
           c == f[3]
           d == f[4] % 128
<1>3. a \in Nat /\ b \in Nat /\ c \in Nat /\ d \in Nat
  BY <1>1, <1>2
<1>4. SizeOf(f) = a + 256 * b + 65536 * c + 16777216 * d
  BY DEF SizeOf
<1> HIDE DEF a, b, c, d
<1> QED
  BY <1>3, <1>4

\* A block is no larger than the buffer, or it is refused.
LEMMA ReadBlockSizeInv ==
    ASSUME DecInv, ReadBlockSize
    PROVE  DecInv'
<1>1. /\ state = "BLOCK_SIZE" /\ pc = "in" /\ err = "none" /\ cp' \in 0 .. end
      /\ Whole \in Seq(Byte) /\ Len(Whole) = 4
  BY WholeType, FieldSizes DEF ReadBlockSize
<1>2. CASE TooLarge
  <2>1. desc' = desc /\ Settled /\ err' # "none"
    BY <1>2 DEF ReadBlockSize, Settled, Poison, caller, reading
  <2> QED
    BY <1>1, <2>1, SettledInv DEF DecInv
<1>3. CASE ~TooLarge
  <2>1. /\ state' = "BLOCK_DATA" /\ field' = <<>> /\ block' = <<>> /\ size' = SizeOf(Whole)
        /\ UNCHANGED <<frame, end, err, pc, max, desc>>
    BY <1>3 DEF ReadBlockSize, GoTo, caller
  <2>2. size' \in 0 .. max
    <3>1. SizeOf(Whole) \in Nat /\ max \in Nat /\ ~(SizeOf(Whole) > max)
      BY <1>1, <1>3, SizeOfType DEF TooLarge, DecInv
    <3> QED
      BY <2>1, <3>1
  <2>3. field' \in Seq(Byte) /\ block' \in Seq(Byte) /\ Len(block') = 0
    BY <2>1
  <2>4. state' \in States /\ state' \notin DOMAIN FieldSize
    BY <2>1, FieldSizes, StateNames
  <2>5. Len(block') <= max /\ Len(block') <= size'
    BY <2>2, <2>3 DEF DecInv
  <2> QED
    BY <1>1, <2>1, <2>2, <2>3, <2>4, <2>5 DEF DecInv, DescriptorRead
<1> QED
  BY <1>2, <1>3
\* The end mark, and the checksum of the content.
LEMMA EndInv ==
    ASSUME DecInv, ReadEndMark \/ ReadContentChecksum
    PROVE  DecInv'
<1>1. /\ state \in {"BLOCK_SIZE", "CONTENT_CHECKSUM"} /\ pc = "in" /\ err = "none"
      /\ cp' \in 0 .. end
  BY WholeType, FieldSizes DEF ReadEndMark, ReadContentChecksum
<1>2. UNCHANGED <<frame, end, max, block, size, desc>>
  BY DEF ReadEndMark, ReadContentChecksum, caller, reading
<1>3. \/ Settled
      \/ state' = "DONE" /\ field' = <<>> /\ pc' = "out" /\ UNCHANGED err
  BY <1>2, FieldSizes DEF ReadEndMark, ReadContentChecksum, Settled, Poison, GoTo
<1>4. state' \notin {"MAGIC", "FLG", "BD", "CONTENT_SIZE", "DICT_ID"}
  BY <1>1 DEF ReadEndMark, ReadContentChecksum, Poison, GoTo
<1>5. DescriptorRead'
  BY <1>4 DEF DescriptorRead
<1>6. CASE Settled
  BY <1>1, <1>2, <1>5, <1>6, SettledInv DEF DecInv
<1>7. CASE state' = "DONE" /\ field' = <<>> /\ pc' = "out" /\ UNCHANGED err
  <2>1. state' \in States /\ state' \notin DOMAIN FieldSize /\ field' \in Seq(Byte)
    BY <1>7, FieldSizes, StateNames
  <2> QED
    BY <1>1, <1>2, <1>5, <1>7, <2>1 DEF DecInv
<1> QED
  BY <1>3, <1>6, <1>7

\* The data of a block, with or without a checksum behind it.
LEMMA EmitDecodedEffect ==
    ASSUME NEW data, EmitDecoded(data)
    PROVE  \/ pc' = "out" /\ UNCHANGED <<state, field>>
              /\ err' = Decoded(data).err /\ Decoded(data).err # "none"
           \/ state' = "BLOCK_SIZE" /\ field' = <<>> /\ UNCHANGED <<err, pc>>
  BY Zenon DEF EmitDecoded, Poison, GoTo

LEMMA ReadBlockDataInv ==
    ASSUME DecInv, ReadBlockData
    PROVE  DecInv'
<1>1. /\ state = "BLOCK_DATA" /\ pc = "in" /\ err = "none" /\ ~Short /\ cp' = cp + Missing
      /\ UNCHANGED <<frame, end, max, size, desc>>
      /\ block' = block \o Coming(Missing)
  BY DEF ReadBlockData, In, DecInv, caller
<1>2. Missing \in Nat /\ Missing <= Left /\ Missing = size - Len(block)
  BY <1>1, MissingType DEF Short
<1>3. Coming(Missing) \in Seq(Byte) /\ Len(Coming(Missing)) = Missing /\ cp' \in 0 .. end
  BY <1>1, <1>2, ComingType
<1>4. block \in Seq(Byte) /\ Len(block) \in Nat /\ size \in Nat /\ size <= max /\ max \in Nat
  BY DEF DecInv
<1>5. block' \in Seq(Byte) /\ Len(block') = size
  <2>1. /\ block \o Coming(Missing) \in Seq(Byte)
        /\ Len(block \o Coming(Missing)) = Len(block) + Len(Coming(Missing))
    BY <1>3, <1>4, Behind
  <2>2. Len(block) + Len(Coming(Missing)) = size
    BY <1>2, <1>3, <1>4
  <2> QED
    BY <1>1, <2>1, <2>2, Zenon
<1>6. \/ err' # "none" /\ pc' = "out" /\ UNCHANGED <<state, field>>
      \/ state' \in {"BLOCK_SIZE", "BLOCK_CHECKSUM"} /\ field' = <<>> /\ UNCHANGED <<err, pc>>
  BY EmitDecodedEffect, Zenon DEF ReadBlockData, GoTo
<1>7. Len(block') <= max /\ Len(block') <= size
  BY <1>4, <1>5
<1>8. CASE err' # "none" /\ pc' = "out" /\ UNCHANGED <<state, field>>
  BY <1>1, <1>3, <1>5, <1>7, <1>8 DEF DecInv
<1>9. CASE state' \in {"BLOCK_SIZE", "BLOCK_CHECKSUM"} /\ field' = <<>> /\ UNCHANGED <<err, pc>>
  <2>1. /\ state' \in States /\ state' \notin {"DONE", "CLOSED", "BLOCK_DATA"}
        /\ field' \in Seq(Byte) /\ Len(field') < FieldSize[state']
    BY <1>9, FieldSizes, StateNames
  <2>2. DescriptorRead'
    BY <1>9 DEF DescriptorRead
  <2> QED
    BY <1>1, <1>3, <1>5, <1>7, <1>9, <2>1, <2>2 DEF DecInv
<1> QED
  BY <1>6, <1>8, <1>9

LEMMA ReadBlockChecksumInv ==
    ASSUME DecInv, ReadBlockChecksum
    PROVE  DecInv'
<1>1. state = "BLOCK_CHECKSUM" /\ pc = "in" /\ err = "none" /\ cp' \in 0 .. end
  BY WholeType, FieldSizes DEF ReadBlockChecksum
<1>2. UNCHANGED <<frame, end, max, block, size, desc>>
  BY DEF ReadBlockChecksum, caller, reading
<1>3. \/ err' # "none" /\ pc' = "out" /\ UNCHANGED <<state, field>>
      \/ state' = "BLOCK_SIZE" /\ field' = <<>> /\ UNCHANGED <<err, pc>>
  <2>1. CASE Poison("CHECKSUM_MISMATCH") /\ UNCHANGED field
    BY <2>1 DEF Poison
  <2>2. CASE EmitDecoded(block)
    BY <2>2, EmitDecodedEffect, Zenon
  <2> QED
    BY <2>1, <2>2 DEF ReadBlockChecksum
<1>4. Settled
  BY <1>2, <1>3, FieldSizes DEF Settled
<1>5. err' = "none" => DescriptorRead'
  BY <1>3 DEF DescriptorRead
<1> QED
  BY <1>1, <1>2, <1>4, <1>5, SettledInv DEF DecInv
-----------------------------------------------------------------------------
(* Both.                                                                   *)

LEMMA DecStepInv ==
    ASSUME DecInv, DecStep
    PROVE  DecInv'
  BY SuspendInv, ReadMagicInv, ReadFlgInv, ReadBdInv, ReadContentSizeInv, ReadDictIdInv,
     ReadHcInv, EndInv, ReadBlockSizeInv, ReadBlockDataInv, ReadBlockChecksumInv DEF DecStep

\* What the caller does, and the turns of a write.
LEMMA DecNextInv ==
    ASSUME DecInv, DecNext
    PROVE  DecInv'
<1>1. ASSUME NEW n \in 1 .. Len(frame), DecWrite(n)
      PROVE  DecInv'
  <2>1. /\ end' = cp + n /\ pc' = "in" /\ err = "none" /\ state \notin {"DONE", "CLOSED"}
        /\ n \in 1 .. Len(frame) - cp
        /\ UNCHANGED <<frame, cp, state, desc, field, max, block, size, err>>
    BY <1>1 DEF DecWrite, reading
  <2>2. end' \in 0 .. Len(frame) /\ cp \in 0 .. end'
    <3>1. cp \in Nat /\ Len(frame) \in Nat /\ n \in Nat /\ cp + n <= Len(frame)
      BY <2>1 DEF DecInv
    <3> QED
      BY <2>1, <3>1
  <2> QED
    BY <2>1, <2>2 DEF DecInv, DescriptorRead
<1>2. CASE DecMisuse
  BY <1>2 DEF DecMisuse, DecInv, caller, reading
<1>3. CASE DecFinish
  <2>1. /\ pc = "out" /\ state' = "CLOSED"
        /\ UNCHANGED <<frame, end, cp, pc, desc, field, max, block, size, err>>
    BY <1>3 DEF DecFinish, reading
  <2>2. state' \in States /\ state' \notin DOMAIN FieldSize
    BY <2>1, FieldSizes, StateNames
  <2> QED
    BY <2>1, <2>2 DEF DecInv, DescriptorRead
<1>4. CASE DecStep
  BY <1>4, DecStepInv
<1> QED
  BY <1>1, <1>2, <1>3, <1>4 DEF DecNext

LEMMA EncUnchanged ==
    ASSUME EncInv, UNCHANGED encVars
    PROVE  EncInv'
  BY DEF EncInv, encVars, ReserveKept, Full

LEMMA DecUnchanged ==
    ASSUME DecInv, UNCHANGED decVars
    PROVE  DecInv'
  BY DEF DecInv, decVars, DescriptorRead

\* A decoder begins with the encoder's bytes, or with others.
LEMMA DecodeInv ==
    ASSUME EncInv, Decode
    PROVE  DecInv'
<1>1. CASE FromEncoder
  BY <1>1, OpenedInv DEF FromEncoder, EncInv
<1>2. CASE FromElsewhere
  <2>1. PICK f \in Frames : Opened(f.bytes, f.room)
    BY <1>2 DEF FromElsewhere
  <2>2. f.bytes \in Seq(Byte) /\ Byte \subseteq Nat
    BY Lz4fAssumption DEF Byte
  <2>3. f.bytes \in Seq(Byte)
    BY <2>2, SeqMonotonic
  <2> QED
    BY <2>1, <2>3, OpenedInv
<1> QED
  BY <1>1, <1>2 DEF Decode

\* Encoder and decoder together keep their invariants.
THEOREM Invariance ==
    ASSUME Typed
    PROVE  Spec => [](EncInv /\ DecInv)
<1>1. Init => EncInv /\ DecInv
  BY EncInitInv, DecInitInv DEF Init
<1>2. EncInv /\ DecInv /\ [Next]_vars => EncInv' /\ DecInv'
  <2> SUFFICES ASSUME EncInv, DecInv, [Next]_vars
               PROVE  EncInv' /\ DecInv'
    OBVIOUS
  <2>1. CASE EncNext /\ UNCHANGED decVars
    BY <2>1, EncStep, DecUnchanged
  <2>2. CASE Decode
    BY <2>2, DecodeInv, EncUnchanged DEF Decode
  <2>3. CASE DecNext /\ UNCHANGED encVars
    BY <2>3, DecNextInv, EncUnchanged
  <2>4. CASE UNCHANGED vars
    BY <2>4, EncUnchanged, DecUnchanged DEF vars
  <2> QED
    BY <2>1, <2>2, <2>3, <2>4 DEF Next
<1> QED
  BY <1>1, <1>2, PTL DEF Spec

\* What the encoder has written always leaves room for the end mark and the content
\* checksum, so that lz4f_enc_finish never fails for want of space unless a write did.
THEOREM ReserveIsKept ==
    ASSUME Typed
    PROVE  Spec => []ReserveKept
<1>1. EncInv /\ DecInv => ReserveKept
  BY DEF EncInv
<1> QED
  BY <1>1, Invariance, PTL

\* Whatever the encoder has collected, the block it makes of it ends as the format
\* asks: in literals, LastLiterals of them at least, and MfLimit behind the place
\* where the last match begins.
THEOREM BlocksEndInLiterals ==
    ASSUME Typed
    PROVE  Spec => []EndsInLiterals
<1>1. EncInv /\ DecInv => EndsInLiterals
  <2> SUFFICES ASSUME EncInv, NEW seqs, seqs = SequencesOf(staged), NEW n, n = Len(seqs), n > 1
               PROVE  /\ seqs[n].len = 0 /\ Len(seqs[n].lits) >= LastLiterals
                      /\ seqs[n - 1].len + Len(seqs[n].lits) >= MfLimit
    BY DEF EndsInLiterals
  <2>1. staged \in Seq(Byte)
    BY DEF EncInv
  <2>2. n \in Nat
    <3>1. \E at : SequencesTell(seqs, staged, at)
      BY <2>1, SequencesOfText
    <3>2. seqs \in Seq(Sequence)
      BY <3>1 DEF SequencesTell
    <3> QED
      BY <3>2
  <2> QED
    BY <2>1, <2>2, HowABlockEnds
<1> QED
  BY <1>1, Invariance, PTL

\* The decoder never writes beyond its descriptor and block buffers, whatever bytes
\* the frame consists of and however it is cut into writes.
THEOREM BuffersAreHeld ==
    ASSUME Typed
    PROVE  Spec => []BuffersHold
<1>1. EncInv /\ DecInv => BuffersHold
  BY DEF DecInv, BuffersHold
<1> QED
  BY <1>1, Invariance, PTL

-----------------------------------------------------------------------------
(* What the encoder has written, as the decoder will read it.              *)

\* A block as it is written: its body, the data or what they are compressed to.
IsStored(data) == Len(Compressed(data)) >= Len(data)
BodyOf(data)   == IF IsStored(data) THEN data ELSE Compressed(data)
Written(data, sums) == BlockBytes(Compressed(data), data, sums)
SumOf(data, sums)   == IF sums THEN Checksum(BodyOf(data)) ELSE <<>>

\* What a block may have: the top bit of its size field says that it is stored raw.
Sized(data) == Len(data) < 1073741824

\* A block as written: its size field, its body, which is no longer than the data, and,
\* with block checksums, the body's.
LEMMA WrittenIs ==
    ASSUME Typed, NEW data \in Seq(Byte), Sized(data), NEW sums \in BOOLEAN,
           NEW f, f = SizeField(Len(BodyOf(data)), IsStored(data))
    PROVE  /\ BodyOf(data) \in Seq(Byte) /\ Len(BodyOf(data)) <= Len(data)
           /\ Len(BodyOf(data)) \in Nat
           /\ IsStored(data) \in BOOLEAN
           /\ f \in Seq(Byte) /\ Len(f) = 4 /\ SizeOf(f) = Len(BodyOf(data))
           /\ IsStored(data) => IsRaw(f)
           /\ ~IsStored(data) => ~IsRaw(f)
           /\ SumOf(data, sums) \in Seq(Byte) /\ Len(SumOf(data, sums)) = SumBytes(sums)
           /\ Written(data, sums) = (f \o BodyOf(data)) \o SumOf(data, sums)
           /\ Written(data, sums) \in Seq(Byte)
           /\ Len(Written(data, sums)) = 4 + Len(BodyOf(data)) + SumBytes(sums)
<1> DEFINE b == BodyOf(data)
           t == SumOf(data, sums)
<1>1. Compressed(data) \in Seq(Byte) /\ Len(Compressed(data)) \in Nat /\ Len(data) \in Nat
  BY CompressedParts
<1>2. b \in Seq(Byte) /\ Len(b) <= Len(data) /\ Len(b) \in Nat /\ IsStored(data) \in BOOLEAN
  BY <1>1 DEF BodyOf, IsStored
<1>4. Written(data, sums) = (f \o b) \o t
  BY DEF Written, BlockBytes, BodyOf, IsStored, SumOf
<1> HIDE DEF b
<1>5. /\ f \in Seq(Byte) /\ Len(f) = 4 /\ SizeOf(f) = Len(b)
      /\ IsStored(data) => IsRaw(f)
      /\ ~IsStored(data) => ~IsRaw(f)
  <2>0. PICK r \in BOOLEAN : r = IsStored(data)
    BY <1>2
  <2>1. f = SizeField(Len(b), r)
    BY <2>0 DEF b
  <2>3. Len(b) < 1073741824
    BY <1>1, <1>2, SMT DEF Sized
  <2>2. /\ f \in Seq(Byte) /\ Len(f) = 4 /\ SizeOf(f) = Len(b)
        /\ r => IsRaw(f)
        /\ ~r => ~IsRaw(f)
    BY <1>2, <2>1, <2>3, SizeFieldRead
  <2> QED
    BY <2>0, <2>2
<1>6. t \in Seq(Byte) /\ Len(t) = SumBytes(sums)
  <2>1. CASE sums = TRUE
    BY <1>2, <2>1, ChecksumType DEF SumBytes, SumOf, b
  <2>2. CASE sums = FALSE
    BY <2>2 DEF SumBytes, SumOf
  <2> QED
    BY <2>1, <2>2
<1> HIDE DEF t
<1>7. f \o b \in Seq(Byte) /\ Len(f \o b) = 4 + Len(b)
  <2>1. f \o b \in Seq(Byte) /\ Len(f \o b) = Len(f) + Len(b)
    BY <1>2, <1>5, Behind
  <2> QED
    BY <1>5, <2>1
<1>8. (f \o b) \o t \in Seq(Byte) /\ Len((f \o b) \o t) = Len(f \o b) + Len(t)
  BY <1>6, <1>7, Behind
<1>9. Written(data, sums) \in Seq(Byte) /\ Len(Written(data, sums)) = 4 + Len(b) + SumBytes(sums)
  BY <1>4, <1>6, <1>7, <1>8
<1> QED
  BY <1>2, <1>4, <1>5, <1>6, <1>9 DEF b, t

\* A block that lies in a frame is read back part by part.
LEMMA WrittenLies ==
    ASSUME Typed, NEW data \in Seq(Byte), Sized(data), NEW sums \in BOOLEAN,
           NEW f, f = SizeField(Len(BodyOf(data)), IsStored(data)),
           NEW w \in Seq(Byte), NEW p \in Nat, Lies(Written(data, sums), w, p)
    PROVE  /\ p + 4 + Len(BodyOf(data)) + SumBytes(sums) <= Len(w)
           /\ SubSeq(w, p + 1, p + 4) = f
           /\ SubSeq(w, p + 4 + 1, p + 4 + Len(BodyOf(data))) = BodyOf(data)
           /\ SubSeq(w, p + 4 + Len(BodyOf(data)) + 1, p + 4 + Len(BodyOf(data)) + SumBytes(sums))
                = SumOf(data, sums)
<1> DEFINE b == BodyOf(data)
           t == SumOf(data, sums)
<1>1. /\ b \in Seq(Byte) /\ Len(b) \in Nat /\ f \in Seq(Byte) /\ Len(f) = 4
      /\ t \in Seq(Byte) /\ Len(t) = SumBytes(sums)
      /\ Written(data, sums) = (f \o b) \o t
      /\ Len(Written(data, sums)) = 4 + Len(b) + SumBytes(sums)
  BY WrittenIs
<1>2. SumBytes(sums) \in Nat /\ Len(w) \in Nat
  BY DEF SumBytes
<1>3. p + (4 + Len(b) + SumBytes(sums)) <= Len(w)
  BY <1>1 DEF Lies
<1> HIDE DEF b, t
<1>4. f \o b \in Seq(Byte) /\ Len(f \o b) = 4 + Len(b)
  <2>1. f \o b \in Seq(Byte) /\ Len(f \o b) = Len(f) + Len(b)
    BY <1>1, Behind
  <2> QED
    BY <1>1, <2>1
<1>5. Lies(f \o b, w, p) /\ Lies(t, w, p + Len(f \o b))
  BY <1>1, <1>4, LiesConcat
<1>6. Lies(f, w, p) /\ Lies(b, w, p + Len(f))
  BY <1>1, <1>5, LiesConcat
<1>7. PICK p1 \in Nat : p1 = p + 4
  OBVIOUS
<1>8. PICK p2 \in Nat : p2 = p + 4 + Len(b)
  BY <1>1
<1>9. Lies(b, w, p1) /\ Lies(t, w, p2)
  BY <1>1, <1>4, <1>5, <1>6, <1>7, <1>8
<1>10. SubSeq(w, p + 1, p + Len(f)) = f /\ SubSeq(w, p1 + 1, p1 + Len(b)) = b
       /\ SubSeq(w, p2 + 1, p2 + Len(t)) = t
  BY <1>1, <1>6, <1>9, LiesStretch
<1>11. p + 4 + Len(b) + SumBytes(sums) <= Len(w)
  BY <1>1, <1>2, <1>3
<1> QED
  BY <1>1, <1>7, <1>8, <1>10, <1>11 DEF b, t

-----------------------------------------------------------------------------
(* The frame that the encoder has written: blocks that cover the text.     *)

\* A stretch of the text is a block at position p of w, which ends at q: it was compressed
\* in the room that there was.
Piece(j, t, u) == SubSeq(j.bytes, t + 1, u)

IsBlock(j, w, p, t, q, u) ==
    /\ t < u /\ u <= t + BlockMax(j.id) /\ u <= Len(j.bytes)
    /\ Lies(Written(Piece(j, t, u), j.sums), w, p)
    /\ q = p + Len(Written(Piece(j, t, u), j.sums))
    /\ Fits(Compressed(Piece(j, t, u)), Piece(j, t, u), j.sums, j.cap - p)

\* The first m blocks are full.
Even(j, m, to) == \A k \in 1 .. m : to[k] = to[k - 1] + BlockMax(j.id)

\* Behind its header w begins with n blocks, of which all but the last are full; the k-th
\* ends at at[k], and at to[k] in the text.
Blocks(j, w, n, at, to) ==
    /\ n \in Nat /\ at \in [0 .. n -> Nat] /\ to \in [0 .. n -> Nat]
    /\ at[0] = 7 /\ to[0] = 0 /\ at[n] <= Len(w) /\ to[n] <= Len(j.bytes)
    /\ Lies(Header(j.id, j.sums), w, 0)
    /\ \A k \in 1 .. n : IsBlock(j, w, at[k - 1], to[k - 1], at[k], to[k])
    /\ Even(j, n - 1, to) /\ \A k \in 0 .. n : to[k] <= to[n]

\* A stretch of the text that is no longer than a block.
LEMMA PieceIs ==
    ASSUME NEW j \in Jobs, NEW t \in Nat, NEW u \in Nat, t < u, u <= t + BlockMax(j.id),
           u <= Len(j.bytes)
    PROVE  /\ Piece(j, t, u) \in Seq(Byte) /\ Len(Piece(j, t, u)) = u - t
           /\ Sized(Piece(j, t, u)) /\ Piece(j, t, u) # <<>>
<1>1. j.bytes \in Seq(Byte) /\ BlockMax(j.id) \in Nat /\ BlockMax(j.id) < 1073741824
  BY JobFacts
<1>2. PICK n \in Nat : n = u - t
  OBVIOUS
<1>3. Piece(j, t, u) = SubSeq(j.bytes, t + 1, t + n)
  BY <1>2 DEF Piece
<1>4. Piece(j, t, u) \in Seq(Byte) /\ Len(Piece(j, t, u)) = n
  BY <1>1, <1>2, <1>3, Stretch
<1>5. n < 1073741824 /\ n > 0
  BY <1>1, <1>2, SMT
<1>6. Sized(Piece(j, t, u))
  BY <1>4, <1>5 DEF Sized
<1> HIDE DEF Piece
<1>7. Piece(j, t, u) # <<>>
  BY <1>2, <1>4, SMT
<1> QED
  BY <1>2, <1>4, <1>6, <1>7

\* What is appended to a frame leaves its blocks alone.
LEMMA IsBlockLonger ==
    ASSUME Typed, NEW j \in Jobs, NEW w \in Seq(Byte), NEW x \in Seq(Byte),
           NEW p \in Nat, NEW t \in Nat, NEW q \in Nat, NEW u \in Nat, IsBlock(j, w, p, t, q, u)
    PROVE  IsBlock(j, w \o x, p, t, q, u)
<1>1. PICK d : d = Piece(j, t, u)
  OBVIOUS
<1>2. t < u /\ u <= t + BlockMax(j.id) /\ u <= Len(j.bytes)
  BY DEF IsBlock
<1>3. d \in Seq(Byte) /\ Sized(d) /\ j.sums \in BOOLEAN
  BY <1>1, <1>2, PieceIs, JobFacts
<1>4. Written(d, j.sums) \in Seq(Byte)
  BY <1>3, WrittenIs
<1>5. Lies(Written(d, j.sums), w, p)
  BY <1>1 DEF IsBlock
<1>6. Lies(Written(d, j.sums), w \o x, p)
  BY <1>4, <1>5, LiesFirst
<1> QED
  BY <1>1, <1>6 DEF IsBlock

FlgOf(j) == IF j.sums THEN 116 ELSE 100
BdOf(j)  == j.id * 16

\* The header: the magic number, the descriptor, its checksum (seven bytes).
LEMMA HeaderParts ==
    ASSUME Typed, NEW j \in Jobs
    PROVE  /\ FlgOf(j) \in Byte /\ BdOf(j) \in Byte /\ HeaderSum(<<FlgOf(j), BdOf(j)>>) \in Byte
           /\ Header(j.id, j.sums) =
                (Magic \o <<FlgOf(j), BdOf(j)>>) \o <<HeaderSum(<<FlgOf(j), BdOf(j)>>)>>
           /\ Magic \in Seq(Byte) /\ Len(Magic) = 4
<1>1. FlgOf(j) \in Byte
  BY DEF FlgOf, Byte
<1>2. BdOf(j) \in Byte
  <2>1. \A i \in 4 .. 7 : i * 16 \in 0 .. 255
    OBVIOUS
  <2>2. j.id \in 4 .. 7
    BY JobFacts
  <2> QED
    BY <2>1, <2>2 DEF BdOf, Byte
<1>3. Magic \in Seq(Byte) /\ Len(Magic) = 4
  <2>1. Byte = 0 .. 255
    BY DEF Byte
  <2> QED
    BY <2>1 DEF Magic
<1>4. PICK d : d = <<FlgOf(j), BdOf(j)>>
  OBVIOUS
<1>5. d \in Seq(Byte) /\ Len(d) = 2
  BY <1>1, <1>2, <1>4
<1>6. HeaderSum(d) \in Byte
  BY <1>5 DEF HeaderSum, Typed
<1>7. Header(j.id, j.sums) = (Magic \o d) \o <<HeaderSum(d)>>
  BY <1>4 DEF Header, FlgOf, BdOf
<1> QED
  BY <1>1, <1>2, <1>3, <1>4, <1>6, <1>7

LEMMA HeaderType ==
    ASSUME Typed, NEW j \in Jobs
    PROVE  Header(j.id, j.sums) \in Seq(Byte) /\ Len(Header(j.id, j.sums)) = 7
<1>1. PICK a \in Byte : a = FlgOf(j)
  BY HeaderParts
<1>2. PICK b \in Byte : b = BdOf(j)
  BY HeaderParts
<1>3. PICK c \in Byte : c = HeaderSum(<<FlgOf(j), BdOf(j)>>)
  BY HeaderParts
<1>4. PICK h : h = Header(j.id, j.sums)
  OBVIOUS
<1>5. h = (Magic \o <<a, b>>) \o <<c>> /\ Magic \in Seq(Byte) /\ Len(Magic) = 4
  BY <1>1, <1>2, <1>3, <1>4, HeaderParts
<1>6. <<a, b>> \in Seq(Byte) /\ Len(<<a, b>>) = 2 /\ <<c>> \in Seq(Byte) /\ Len(<<c>>) = 1
  OBVIOUS
<1>7. PICK x : x = Magic \o <<a, b>>
  OBVIOUS
<1>8. x \in Seq(Byte) /\ Len(x) = 6
  <2>1. x \in Seq(Byte) /\ Len(x) = Len(Magic) + Len(<<a, b>>)
    BY <1>5, <1>6, <1>7, Behind
  <2> QED
    BY <1>5, <1>6, <2>1
<1>9. h \in Seq(Byte) /\ Len(h) = 7
  <2>1. h \in Seq(Byte) /\ Len(h) = Len(x) + Len(<<c>>)
    BY <1>5, <1>6, <1>7, <1>8, Behind
  <2> QED
    BY <1>6, <1>8, <2>1
<1> QED
  BY <1>4, <1>9

LEMMA BlocksLonger ==
    ASSUME Typed, NEW j \in Jobs, NEW w \in Seq(Byte), NEW x \in Seq(Byte),
           NEW n, NEW at, NEW to, Blocks(j, w, n, at, to)
    PROVE  Blocks(j, w \o x, n, at, to)
<1>1. n \in Nat /\ at \in [0 .. n -> Nat] /\ to \in [0 .. n -> Nat]
  BY DEF Blocks
<1>2. ASSUME NEW k \in 1 .. n
      PROVE  IsBlock(j, w \o x, at[k - 1], to[k - 1], at[k], to[k])
  <2>1. k - 1 \in 0 .. n /\ k \in 0 .. n
    BY <1>1
  <2>2. at[k - 1] \in Nat /\ to[k - 1] \in Nat /\ at[k] \in Nat /\ to[k] \in Nat
    BY <1>1, <2>1
  <2>3. IsBlock(j, w, at[k - 1], to[k - 1], at[k], to[k])
    BY DEF Blocks
  <2> QED
    BY <2>2, <2>3, IsBlockLonger
<1>3. Lies(Header(j.id, j.sums), w \o x, 0)
  <2>1. Lies(Header(j.id, j.sums), w, 0) /\ Header(j.id, j.sums) \in Seq(Byte) /\ 0 \in Nat
    BY HeaderType DEF Blocks
  <2> QED
    BY <2>1, LiesFirst, Zenon
<1>4. at[n] <= Len(w \o x)
  <2>1. at[n] <= Len(w) /\ at[n] \in Nat
    BY <1>1 DEF Blocks
  <2> QED
    BY <2>1, Behind
<1> QED
  BY <1>1, <1>2, <1>3, <1>4, Zenon DEF Blocks

\* The text from t to u can be the next block; it fills it.
Reaches(j, t, u) == /\ t \in Nat /\ u \in Nat /\ t < u /\ u <= t + BlockMax(j.id)
                    /\ u <= Len(j.bytes)
Fills(j, t, u)   == u = t + BlockMax(j.id)
LeftIn(j, w)     == j.cap - Len(w)

\* w is the header and the first t bytes of the text in blocks; all of them full.
Cut(j, w, t) == \E n, at, to : Blocks(j, w, n, at, to) /\ at[n] = Len(w) /\ to[n] = t
EvenlyCut(j, w, t) ==
    \E n, at, to : Blocks(j, w, n, at, to) /\ at[n] = Len(w) /\ to[n] = t /\ Even(j, n, to)

\* One block more.
LEMMA BlocksMore ==
    ASSUME Typed, NEW j \in Jobs, NEW w \in Seq(Byte), NEW t, NEW u, EvenlyCut(j, w, t),
           Reaches(j, t, u), Fits(Compressed(Piece(j, t, u)), Piece(j, t, u), j.sums, LeftIn(j, w))
    PROVE  /\ Cut(j, w \o Written(Piece(j, t, u), j.sums), u)
           /\ Fills(j, t, u) => EvenlyCut(j, w \o Written(Piece(j, t, u), j.sums), u)
<1>01. PICK n, at, to : /\ Blocks(j, w, n, at, to) /\ at[n] = Len(w) /\ to[n] = t
                       /\ Even(j, n, to)
  BY DEF EvenlyCut
<1>02. PICK d : d = Piece(j, t, u)
  OBVIOUS
<1>03. PICK w2 : w2 = w \o Written(d, j.sums)
  OBVIOUS
<1>1. n \in Nat /\ at \in [0 .. n -> Nat] /\ to \in [0 .. n -> Nat] /\ at[0] = 7 /\ to[0] = 0
  BY <1>01 DEF Blocks
<1>2. PICK p \in Nat : p = Len(w)
  OBVIOUS
<1>3. t \in Nat /\ u \in Nat
  BY DEF Reaches
<1>4. t < u /\ u <= t + BlockMax(j.id) /\ u <= Len(j.bytes)
  BY DEF Reaches
<1>5. d \in Seq(Byte) /\ Sized(d) /\ j.sums \in BOOLEAN
  BY <1>02, <1>3, <1>4, PieceIs, JobFacts
<1>6. PICK x \in Seq(Byte) : x = Written(d, j.sums)
  BY <1>5, WrittenIs
<1>7. w2 = w \o x /\ w2 \in Seq(Byte) /\ Len(w2) = p + Len(x) /\ Len(x) \in Nat
  BY <1>03, <1>2, <1>6, Behind
<1>8. PICK q \in Nat : q = Len(w2)
  BY <1>7
<1>9. IsBlock(j, w2, p, t, q, u)
  <2>1. Lies(x, w2, p)
    BY <1>2, <1>7, LiesSecond
  <2>2. q = p + Len(x)
    BY <1>7, <1>8
  <2> QED
    BY <1>02, <1>2, <1>4, <1>6, <2>1, <2>2 DEF IsBlock, LeftIn
<1>10. Blocks(j, w2, n, at, to)
  BY <1>01, <1>7, BlocksLonger
<1> DEFINE at2 == [k \in 0 .. n + 1 |-> IF k = n + 1 THEN q ELSE at[k]]
           to2 == [k \in 0 .. n + 1 |-> IF k = n + 1 THEN u ELSE to[k]]
<1>11. /\ at2 \in [0 .. n + 1 -> Nat] /\ to2 \in [0 .. n + 1 -> Nat]
       /\ at2[n + 1] = q /\ to2[n + 1] = u
       /\ \A k \in 0 .. n : at2[k] = at[k] /\ to2[k] = to[k]
  <2>1. \A k \in 0 .. n + 1 : k # n + 1 => k \in 0 .. n
    BY <1>1
  <2>2. \A k \in 0 .. n : k \in 0 .. n + 1 /\ k # n + 1
    BY <1>1
  <2>3. n + 1 \in 0 .. n + 1
    BY <1>1
  <2> QED
    BY <1>1, <1>3, <2>1, <2>2, <2>3
<1> HIDE DEF at2, to2
<1>12. ASSUME NEW k \in 1 .. n + 1
       PROVE  IsBlock(j, w2, at2[k - 1], to2[k - 1], at2[k], to2[k])
  <2>1. CASE k = n + 1
    <3>1. k - 1 = n /\ n \in 0 .. n
      BY <1>1, <2>1
    <3>2. at2[k - 1] = p /\ to2[k - 1] = t /\ at2[k] = q /\ to2[k] = u
      BY <1>01, <1>2, <1>11, <2>1, <3>1
    <3> QED
      BY <1>9, <3>2
  <2>2. CASE k # n + 1
    <3>1. k \in 1 .. n /\ k \in 0 .. n /\ k - 1 \in 0 .. n
      BY <1>1, <2>2
    <3>2. IsBlock(j, w2, at[k - 1], to[k - 1], at[k], to[k])
      BY <1>10, <3>1 DEF Blocks
    <3> QED
      BY <1>11, <3>1, <3>2
  <2> QED
    BY <2>1, <2>2
<1>13. /\ n + 1 \in Nat /\ at2[0] = 7 /\ to2[0] = 0 /\ at2[n + 1] <= Len(w2)
       /\ to2[n + 1] <= Len(j.bytes)
  <2>1. n + 1 \in Nat /\ 0 \in 0 .. n /\ q <= Len(w2)
    BY <1>1, <1>8
  <2> QED
    BY <1>1, <1>3, <1>4, <1>11, <2>1
<1>14. Even(j, n, to2)
  <2> SUFFICES ASSUME NEW k \in 1 .. n PROVE to2[k] = to2[k - 1] + BlockMax(j.id)
    BY DEF Even
  <2>1. k \in 0 .. n /\ k - 1 \in 0 .. n
    BY <1>1
  <2>2. to[k] = to[k - 1] + BlockMax(j.id)
    BY <1>01 DEF Even
  <2> QED
    BY <1>11, <2>1, <2>2
<1>15. Blocks(j, w2, n + 1, at2, to2)
  <2>1. Lies(Header(j.id, j.sums), w2, 0)
    BY <1>10 DEF Blocks
  <2>2. (n + 1) - 1 = n
    BY <1>1
  <2>3. Even(j, (n + 1) - 1, to2)
    BY <1>14, <2>2
  <2>4. \A k \in 0 .. n + 1 : to2[k] <= to2[n + 1]
    <3> SUFFICES ASSUME NEW k \in 0 .. n + 1 PROVE to2[k] <= to2[n + 1]
      OBVIOUS
    <3>1. CASE k = n + 1
      BY <1>3, <1>11, <3>1
    <3>2. CASE k # n + 1
      <4>1. k \in 0 .. n
        BY <1>1, <3>2
      <4>2. to2[k] = to[k] /\ to[k] <= t /\ to[k] \in Nat
        BY <1>01, <1>1, <1>11, <4>1 DEF Blocks
      <4> QED
        BY <1>3, <1>4, <1>11, <4>2
    <3> QED
      BY <3>1, <3>2
  <2> QED
    BY <1>11, <1>12, <1>13, <2>1, <2>3, <2>4, Zenon DEF Blocks
<1>16. ASSUME Fills(j, t, u) PROVE Even(j, n + 1, to2)
  <2> SUFFICES ASSUME NEW k \in 1 .. n + 1 PROVE to2[k] = to2[k - 1] + BlockMax(j.id)
    BY DEF Even
  <2>1. CASE k = n + 1
    <3>1. k - 1 = n /\ n \in 0 .. n
      BY <1>1, <2>1
    <3> QED
      BY <1>01, <1>11, <1>16, <2>1, <3>1 DEF Fills
  <2>2. CASE k # n + 1
    <3>1. k \in 1 .. n
      BY <1>1, <2>2
    <3> QED
      BY <1>14, <3>1 DEF Even
  <2> QED
    BY <2>1, <2>2
<1>17. at2[n + 1] = Len(w2) /\ to2[n + 1] = u
  BY <1>8, <1>11
<1>18. Cut(j, w2, u) /\ (Fills(j, t, u) => EvenlyCut(j, w2, u))
  BY <1>15, <1>16, <1>17, Zenon DEF Cut, EvenlyCut
<1> QED
  BY <1>02, <1>03, <1>18, Zenon

-----------------------------------------------------------------------------
(* That invariant of the encoder.                                          *)

\* Two stretches of a text that meet are one.
LEMMA StretchesMeet ==
    ASSUME NEW S, NEW text \in Seq(S), NEW a \in Nat, NEW b \in Nat, NEW c \in Nat,
           a <= b, b <= c, c <= Len(text)
    PROVE  SubSeq(text, a + 1, b) \o SubSeq(text, b + 1, c) = SubSeq(text, a + 1, c)
<1> DEFINE x == SubSeq(text, a + 1, b)
           y == SubSeq(text, b + 1, c)
           z == SubSeq(text, a + 1, c)
<1>1. ASSUME NEW m \in Nat, NEW n \in Nat, m <= n, n <= Len(text), NEW s, s = SubSeq(text, m + 1, n)
      PROVE  s \in Seq(S) /\ Len(s) = n - m /\ \A i \in 1 .. n - m : s[i] = text[m + i]
  <2>1. \A i \in m + 1 .. n : text[i] \in S
    BY <1>1
  <2>2. n - (m + 1) + 1 = n - m /\ \A i \in 1 .. n - m : m + 1 + i - 1 = m + i
    BY <1>1
  <2>3. s \in Seq(S)
    BY <1>1, <2>1, SubSeqProperties
  <2>4. Len(s) = n - m
    BY <1>1, <2>1, SubSeqProperties
  <2>5. \A i \in 1 .. n - m : s[i] = text[m + 1 + i - 1]
    BY <1>1, <2>1, SubSeqProperties
  <2> QED
    BY <2>2, <2>3, <2>4, <2>5
<1>2. x \in Seq(S) /\ Len(x) = b - a /\ \A i \in 1 .. b - a : x[i] = text[a + i]
  <2>1. b <= Len(text)
    OBVIOUS
  <2> QED
    BY <1>1, <2>1
<1>3. y \in Seq(S) /\ Len(y) = c - b /\ \A i \in 1 .. c - b : y[i] = text[b + i]
  BY <1>1
<1>4. z \in Seq(S) /\ Len(z) = c - a /\ \A i \in 1 .. c - a : z[i] = text[a + i]
  <2>1. a <= c
    OBVIOUS
  <2> QED
    BY <1>1, <2>1
<1> HIDE DEF x, y, z
<1>5. x \o y \in Seq(S) /\ Len(x \o y) = c - a
      /\ \A i \in 1 .. c - a : (x \o y)[i] = IF i <= b - a THEN x[i] ELSE y[i - (b - a)]
  <2>1. Len(x) + Len(y) = c - a
    BY <1>2, <1>3
  <2>2. x \o y \in Seq(S) /\ Len(x \o y) = Len(x) + Len(y)
        /\ \A i \in 1 .. Len(x) + Len(y) : (x \o y)[i] = IF i <= Len(x) THEN x[i] ELSE y[i - Len(x)]
    BY <1>2, <1>3, ConcatProperties
  <2> QED
    BY <1>2, <2>1, <2>2
<1>6. ASSUME NEW i \in 1 .. c - a PROVE (x \o y)[i] = z[i]
  <2>1. CASE i <= b - a
    <3>1. i \in 1 .. b - a
      BY <2>1
    <3>2. x[i] = text[a + i] /\ z[i] = text[a + i]
      BY <1>2, <1>4, <3>1
    <3> QED
      BY <1>5, <2>1, <3>2
  <2>2. CASE i > b - a
    <3>1. i - (b - a) \in 1 .. c - b /\ b + (i - (b - a)) = a + i
      BY <2>2
    <3>2. y[i - (b - a)] = text[a + i]
      BY <1>3, <3>1
    <3> QED
      BY <1>4, <1>5, <2>2, <3>2
  <2>3. i <= b - a \/ i > b - a
    OBVIOUS
  <2> QED
    BY <2>1, <2>2, <2>3
<1>7. x \o y = z
  BY <1>4, <1>5, <1>6, SeqEqual
<1> QED
  BY <1>7 DEF x, y, z

\* A stretch that ends where it begins is empty.
LEMMA NoPiece ==
    ASSUME NEW S, NEW text \in Seq(S), NEW a \in Nat, a <= Len(text)
    PROVE  SubSeq(text, a + 1, a) = <<>>
<1>1. \A i \in a + 1 .. a : text[i] \in S
  OBVIOUS
<1>2. SubSeq(text, a + 1, a) \in Seq(S) /\ Len(SubSeq(text, a + 1, a)) = 0
  BY <1>1, SubSeqProperties
<1> QED
  BY <1>2, SMT

\* How much of the text is in blocks.
Taken == sent - rest - Len(staged)

\* The block that did not fit is the next one of the text, behind its first t bytes.
Refused(t) ==
    /\ Reaches(job, t, t + Len(staged)) /\ t + Len(staged) <= sent
    /\ Fills(job, t, t + Len(staged)) \/ t + Len(staged) = sent
    /\ staged = Piece(job, t, t + Len(staged))
    /\ ~Fits(Compressed(staged), staged, job.sums, LeftIn(job, wire))

\* A whole frame: the first m bytes of the text in blocks, the end mark, their checksum.
Framed(j, w, m) ==
    \E v \in Seq(Byte) :
        Cut(j, v, m) /\ w = (v \o EndMark) \o Checksum(SubSeq(j.bytes, 1, m))

EncRound ==
    /\ hashed = Given
    /\ encPc # "in" => rest = 0
    /\ encPc = "close" /\ encErr = "none" => staged = <<>>
    /\ encPc # "out" => ~encClosed
    /\ encErr = "none" => encVerdict \in {"open", "ok"}
    /\ encErr = "none" => Taken \in Nat /\ staged = Piece(job, Taken, sent - rest)
    /\ encErr = "none" /\ encVerdict = "open" =>
         Cut(job, wire, Taken) /\ (encPc # "close" => EvenlyCut(job, wire, Taken))
    /\ encErr # "none" =>
         /\ encVerdict # "ok"
         /\ \E t : EvenlyCut(job, wire, t) /\ Refused(t)
    /\ encVerdict = "ok" => Framed(job, wire, sent)

\* EncRound at first.
LEMMA EncInitRound ==
    ASSUME Typed, EncInit
    PROVE  EncRound
<1>1. job \in Jobs /\ job.bytes \in Seq(Byte) /\ BlockMax(job.id) \in Nat
  BY JobFacts DEF EncInit
<1>2. Piece(job, 0, 0) = <<>> /\ SubSeq(job.bytes, 1, 0) = <<>>
  <2>1. PICK z \in Nat : z = 0
    OBVIOUS
  <2>2. SubSeq(job.bytes, z + 1, z) = <<>>
    BY <1>1, <2>1, NoPiece
  <2> QED
    BY <2>1, <2>2 DEF Piece
<1>3. Taken = 0 /\ sent - rest = 0
  <2>1. sent = 0 /\ rest = 0 /\ Len(staged) = 0
    BY DEF EncInit
  <2> QED
    BY <2>1 DEF Taken
<1>4. hashed = Given /\ staged = Piece(job, Taken, sent - rest)
  BY <1>2, <1>3 DEF EncInit, Given
<1>5. wire \in Seq(Byte) /\ Len(wire) = 7 /\ wire = Header(job.id, job.sums)
  BY <1>1, HeaderType DEF EncInit
<1>6. PICK n \in Nat : n = 0
  OBVIOUS
<1>7. PICK at \in [0 .. n -> Nat] : at = [k \in 0 .. n |-> 7]
  OBVIOUS
<1>8. PICK to \in [0 .. n -> Nat] : to = [k \in 0 .. n |-> 0]
  OBVIOUS
<1>9. at[0] = 7 /\ to[0] = 0 /\ at[n] = 7 /\ to[n] = 0
  BY <1>6, <1>7, <1>8
<1>10. (\A k \in 1 .. n : FALSE) /\ (\A k \in 1 .. n - 1 : FALSE)
  BY <1>6
<1>11. Lies(Header(job.id, job.sums), wire, 0)
  <2>1. Lies(wire, wire, 0)
    BY <1>5 DEF Lies
  <2> QED
    BY <1>5, <2>1, Zenon
<1>12. Even(job, n - 1, to) /\ Even(job, n, to)
  BY <1>10, Zenon DEF Even
<1>13. at[n] <= Len(wire) /\ to[n] <= Len(job.bytes) /\ at[n] = Len(wire) /\ to[n] = Taken
  BY <1>1, <1>3, <1>5, <1>9
<1>14. Blocks(job, wire, n, at, to)
  <2>1. \A k \in 0 .. n : to[k] <= to[n]
    BY <1>6, <1>8
  <2> QED
    BY <1>9, <1>10, <1>11, <1>12, <1>13, <2>1, Zenon DEF Blocks
<1>15. Cut(job, wire, Taken) /\ EvenlyCut(job, wire, Taken)
  BY <1>12, <1>13, <1>14, Zenon DEF Cut, EvenlyCut
<1> QED
  BY <1>3, <1>4, <1>15 DEF EncRound, EncInit

\* What EncInv says of the types.
LEMMA EncFacts ==
    ASSUME EncInv
    PROVE  /\ job \in Jobs /\ job.bytes \in Seq(Byte) /\ Len(job.bytes) \in Nat
           /\ job.sums \in BOOLEAN /\ job.cap \in Nat
           /\ Full = BlockMax(job.id) /\ Full \in Nat /\ Full > 0
           /\ sent \in Nat /\ sent <= Len(job.bytes) /\ rest \in Nat /\ rest <= sent
           /\ staged \in Seq(Byte) /\ Len(staged) \in Nat /\ Len(staged) <= Full
           /\ wire \in Seq(Byte) /\ Len(wire) \in Nat
<1>1. /\ job \in Jobs /\ sent \in 0 .. Len(job.bytes) /\ rest \in 0 .. sent
      /\ staged \in Seq(Byte) /\ wire \in Seq(Byte) /\ Len(staged) <= Full
  BY DEF EncInv
<1>2. job.bytes \in Seq(Byte) /\ job.sums \in BOOLEAN /\ job.cap \in Nat
      /\ Full = BlockMax(job.id) /\ Full \in Nat /\ Full > 0
  BY <1>1, JobFacts DEF Full
<1> QED
  BY <1>1, <1>2

\* A block goes out, or is kept as the one that did not fit.
LEMMA EmitRound ==
    ASSUME Typed, EncInv, encErr = "none", NEW t, NEW u, EvenlyCut(job, wire, t),
           Reaches(job, t, u), u <= sent, Fills(job, t, u) \/ u = sent, EmitBlock(Piece(job, t, u)),
           UNCHANGED <<job, sent>>
    PROVE  \/ /\ encErr' = "none" /\ staged' = <<>>
              /\ Cut(job, wire', u) /\ (Fills(job, t, u) => EvenlyCut(job, wire', u))
           \/ encErr' # "none" /\ EvenlyCut(job, wire', t) /\ Refused(t)'
<1>1. job \in Jobs /\ wire \in Seq(Byte)
  BY EncFacts
<1>2. t \in Nat /\ u \in Nat /\ t < u /\ u <= t + BlockMax(job.id) /\ u <= Len(job.bytes)
  BY DEF Reaches
<1>3. PICK data : data = Piece(job, t, u)
  OBVIOUS
<1>4. data \in Seq(Byte) /\ Len(data) = u - t
  BY <1>1, <1>2, <1>3, PieceIs
<1>5. FitsHere(Compressed(data), data)
        <=> Fits(Compressed(data), data, job.sums, LeftIn(job, wire))
  BY DEF FitsHere, LeftIn
<1>6. CASE FitsHere(Compressed(data), data)
  <2>1. /\ wire' = wire \o Written(data, job.sums) /\ staged' = <<>> /\ encErr' = encErr
    BY <1>3, <1>6 DEF EmitBlock, Written
  <2>2. Cut(job, wire \o Written(data, job.sums), u)
        /\ (Fills(job, t, u) => EvenlyCut(job, wire \o Written(data, job.sums), u))
    BY <1>1, <1>3, <1>5, <1>6, BlocksMore
  <2> QED
    BY <2>1, <2>2
<1>7. CASE ~FitsHere(Compressed(data), data)
  <2>1. wire' = wire /\ staged' = data /\ encErr' = "BUFFER_TOO_SMALL"
    BY <1>3, <1>7 DEF EmitBlock
  <2>2. t + Len(data) = u
    BY <1>2, <1>4
  <2>3. Refused(t)'
    BY <1>3, <1>5, <1>7, <2>1, <2>2 DEF Refused
  <2> QED
    BY <2>1, <2>3
<1> QED
  BY <1>6, <1>7

\* Bytes are collected; a full block goes out (block_acc in lz4f_enc_write).
LEMMA StageRound ==
    ASSUME Typed, EncInv, EncRound, Stage
    PROVE  EncRound'
<1> DEFINE space == Full - Len(staged)
           take  == IF rest > space THEN space ELSE rest
           from  == sent - rest
           data  == staged \o SubSeq(job.bytes, from + 1, from + take)
<1>1. /\ job \in Jobs /\ job.bytes \in Seq(Byte) /\ Full = BlockMax(job.id) /\ Full \in Nat
      /\ sent \in Nat /\ sent <= Len(job.bytes) /\ rest \in Nat /\ rest <= sent
      /\ staged \in Seq(Byte) /\ Len(staged) \in Nat /\ Len(staged) <= Full
      /\ Len(job.bytes) \in Nat /\ Full > 0
  BY EncFacts
<1>2. /\ encPc = "in" /\ rest > 0 /\ encErr = "none" /\ encVerdict = "open" /\ ~encClosed
      /\ hashed = Given /\ Taken \in Nat /\ staged = Piece(job, Taken, from)
  BY DEF Stage, EncInv, EncRound
<1>3. EvenlyCut(job, wire, Taken) /\ Cut(job, wire, Taken)
  BY <1>2 DEF EncRound
<1>4. from \in Nat /\ take \in Nat /\ take <= rest /\ take <= space /\ from + take <= sent
      /\ Taken = from - Len(staged) /\ Taken <= from
  BY <1>1 DEF Taken
<1>5. PICK u \in Nat : u = from + take
  BY <1>4
<1>6. /\ rest' = rest - take
      /\ IF Len(data) = Full THEN EmitBlock(data) ELSE staged' = data /\ UNCHANGED <<wire, encErr>>
      /\ UNCHANGED <<job, sent, hashed, encClosed, encPc, encVerdict>>
  BY DEF Stage
<1>7. data \in Seq(Byte) /\ data = Piece(job, Taken, u) /\ Len(data) = u - Taken
  <2>1. PICK a \in Nat : a = Taken
    BY <1>2
  <2>2. PICK b \in Nat : b = from
    BY <1>4
  <2>3. a <= b /\ b <= u /\ u <= Len(job.bytes)
    BY <1>1, <1>4, <1>5, <2>1, <2>2, SMTT(30)
  <2>4. SubSeq(job.bytes, a + 1, b) \o SubSeq(job.bytes, b + 1, u) = SubSeq(job.bytes, a + 1, u)
    BY <1>1, <2>3, StretchesMeet
  <2>5. data = SubSeq(job.bytes, a + 1, b) \o SubSeq(job.bytes, b + 1, u)
    BY <1>2, <1>5, <2>1, <2>2 DEF Piece
  <2>6. data = SubSeq(job.bytes, a + 1, u)
    BY <2>4, <2>5
  <2> HIDE DEF data
  <2>7. PICK m \in Nat : m = u - a
    BY <2>3
  <2>8. a + m = u /\ a + m <= Len(job.bytes)
    BY <2>3, <2>7
  <2>9. data \in Seq(Byte) /\ Len(data) = m
    BY <1>1, <2>6, <2>8, Stretch
  <2> QED
    BY <2>1, <2>6, <2>7, <2>9 DEF Piece
<1>8. u \in Nat /\ u <= sent /\ Taken <= u
  BY <1>1, <1>2, <1>4, <1>5, SMTT(30)
<1>9. sent - rest' = u /\ u <= Taken + Full
  <2>1. sent - (rest - take) = u
    BY <1>1, <1>4, <1>5
  <2>2. rest' = rest - take
    BY <1>6
  <2>3. take <= Full - Len(staged)
    BY <1>4
  <2> HIDE DEF take, from
  <2> QED
    BY <1>1, <1>2, <1>4, <1>5, <2>1, <2>2, <2>3
<1> HIDE DEF space, take, from, data
<1>10. Given' = Given
  BY <1>6 DEF Given
<1>11. CASE Len(data) = Full
  <2>1. u = Taken + Full /\ Taken < u /\ u <= Len(job.bytes)
    BY <1>1, <1>2, <1>7, <1>8, <1>11, SMTT(30)
  <2>2. EmitBlock(Piece(job, Taken, u)) /\ Reaches(job, Taken, u) /\ Fills(job, Taken, u)
    BY <1>1, <1>2, <1>6, <1>7, <1>8, <1>11, <2>1 DEF Reaches, Fills
  <2>3. PICK t : t = Taken
    OBVIOUS
  <2>4. \/ /\ encErr' = "none" /\ staged' = <<>>
           /\ Cut(job, wire', u) /\ (Fills(job, t, u) => EvenlyCut(job, wire', u))
        \/ encErr' # "none" /\ EvenlyCut(job, wire', t) /\ Refused(t)'
    BY <1>2, <1>3, <1>6, <1>8, <2>2, <2>3, EmitRound
  <2>5. CASE encErr' = "none" /\ staged' = <<>>
    <3>1. Cut(job, wire', u) /\ EvenlyCut(job, wire', u)
      BY <2>2, <2>3, <2>4, <2>5
    <3>2. Taken' = u
      <4>1. Taken' = sent - rest' - 0
        BY <1>6, <2>5 DEF Taken
      <4> QED
        BY <1>9, <4>1
    <3>3. staged' = Piece(job, u, u)
      BY <1>1, <2>1, <2>5, NoPiece DEF Piece
    <3>4. Cut(job, wire, Taken)' /\ EvenlyCut(job, wire, Taken)'
      BY <1>6, <3>1, <3>2
    <3> QED
      BY <1>2, <1>6, <1>9, <1>10, <2>5, <3>2, <3>3, <3>4 DEF EncRound
  <2>6. CASE encErr' # "none"
    <3>1. EvenlyCut(job, wire, t)' /\ Refused(t)'
      BY <1>6, <2>4, <2>6
    <3> QED
      BY <1>2, <1>6, <1>10, <2>6, <3>1 DEF EncRound
  <2> QED
    BY <2>4, <2>5, <2>6
<1>12. CASE Len(data) # Full
  <2>1. staged' = data /\ wire' = wire /\ encErr' = encErr
    BY <1>6, <1>12
  <2>2. Taken' = Taken
    <3>1. Taken' = sent - rest' - Len(data)
      BY <1>6, <2>1 DEF Taken
    <3> QED
      BY <1>1, <1>2, <1>7, <1>8, <1>9, <3>1
  <2>3. Cut(job, wire, Taken)' /\ EvenlyCut(job, wire, Taken)'
    BY <1>3, <1>6, <2>1, <2>2
  <2>4. staged' = Piece(job, Taken', sent - rest')
    BY <1>7, <1>9, <2>1, <2>2
  <2> QED
    BY <1>2, <1>6, <1>10, <2>1, <2>2, <2>3, <2>4 DEF EncRound
<1> QED
  BY <1>11, <1>12

\* The caller's write, its return, and finish, which is the last block and the end mark.
LEMMA EncWriteRound ==
    ASSUME EncInv, EncRound, NEW n, EncWrite(n)
    PROVE  EncRound'
<1>1. /\ job.bytes \in Seq(Byte) /\ sent \in Nat /\ Len(job.bytes) \in Nat
      /\ Len(staged) \in Nat
  BY EncFacts
<1>2. /\ encPc = "out" /\ encErr = "none" /\ ~encClosed /\ n \in 1 .. Len(job.bytes) - sent
      /\ hashed' = hashed \o SubSeq(job.bytes, sent + 1, sent + n)
      /\ sent' = sent + n /\ rest' = n /\ encPc' = "in"
      /\ UNCHANGED <<job, staged, wire, encErr, encClosed, encVerdict>>
  BY DEF EncWrite
<1>3. rest = 0 /\ encVerdict = "open" /\ hashed = Given
  BY <1>2 DEF EncRound, EncInv
<1>4. n \in Nat /\ sent + n <= Len(job.bytes)
  BY <1>1, <1>2
<1>5. hashed' = Given'
  <2>1. PICK u \in Nat : u = sent + n
    BY <1>1, <1>4
  <2>2. SubSeq(job.bytes, 1, sent) \o SubSeq(job.bytes, sent + 1, u) = SubSeq(job.bytes, 1, u)
    BY <1>1, <1>4, <2>1, StretchesJoin
  <2> QED
    BY <1>2, <1>3, <2>1, <2>2 DEF Given
<1>6. Taken' = Taken /\ sent' - rest' = sent - rest
  <2>1. sent' - rest' = sent /\ sent - rest = sent /\ staged' = staged
    BY <1>1, <1>2, <1>3, <1>4
  <2> QED
    BY <2>1 DEF Taken
<1>7. /\ Taken \in Nat /\ staged = Piece(job, Taken, sent - rest)
      /\ Cut(job, wire, Taken) /\ EvenlyCut(job, wire, Taken)
  BY <1>2, <1>3 DEF EncRound
<1> QED
  BY <1>2, <1>3, <1>5, <1>6, <1>7 DEF EncRound

LEMMA EncReturnRound ==
    ASSUME EncInv, EncRound, EncReturn
    PROVE  EncRound'
<1>1. /\ encPc = "in" /\ (rest = 0 \/ encErr # "none") /\ encPc' = "out" /\ rest' = 0
      /\ UNCHANGED <<job, sent, staged, wire, hashed, encErr, encClosed, encVerdict>>
  BY DEF EncReturn
<1>2. Given' = Given
  BY <1>1 DEF Given
<1>3. encVerdict = "open"
  BY <1>1 DEF EncInv
<1>4. CASE encErr = "none"
  <2>1. Taken' = Taken /\ sent' - rest' = sent - rest
    BY <1>1, <1>4 DEF Taken
  <2>2. /\ Taken \in Nat /\ staged = Piece(job, Taken, sent - rest) /\ hashed = Given
        /\ Cut(job, wire, Taken) /\ EvenlyCut(job, wire, Taken)
    BY <1>1, <1>3, <1>4 DEF EncRound
  <2> QED
    BY <1>1, <1>2, <1>3, <1>4, <2>1, <2>2 DEF EncRound
<1>5. CASE encErr # "none"
  <2>1. hashed = Given /\ \E t : EvenlyCut(job, wire, t) /\ Refused(t)
    BY <1>5 DEF EncRound
  <2>2. PICK t : EvenlyCut(job, wire, t) /\ Refused(t)
    BY <2>1
  <2>3. EvenlyCut(job, wire, t)' /\ Refused(t)'
    BY <1>1, <2>2 DEF Refused
  <2> QED
    BY <1>1, <1>2, <1>3, <1>5, <2>1, <2>3 DEF EncRound
<1> QED
  BY <1>4, <1>5

LEMMA EncFlushLastRound ==
    ASSUME Typed, EncInv, EncRound, EncFlushLast
    PROVE  EncRound'
<1>1. /\ encPc = "out" /\ ~encClosed /\ LastBlock /\ encPc' = "close"
      /\ UNCHANGED <<job, sent, rest, hashed, encClosed, encVerdict>>
  BY DEF EncFlushLast
<1>2. encVerdict = "open" /\ rest = 0 /\ hashed = Given /\ Given' = Given
  BY <1>1 DEF EncInv, EncRound, Given
<1>3. /\ job.bytes \in Seq(Byte) /\ sent \in Nat /\ sent <= Len(job.bytes)
      /\ Len(job.bytes) \in Nat /\ staged \in Seq(Byte) /\ Len(staged) \in Nat
      /\ Len(staged) <= Full /\ Full = BlockMax(job.id) /\ Full \in Nat
  BY EncFacts
<1>4. encErr = "none" =>
        /\ Taken \in Nat /\ staged = Piece(job, Taken, sent) /\ Taken + Len(staged) = sent
        /\ Cut(job, wire, Taken) /\ EvenlyCut(job, wire, Taken)
  <2>1. encErr = "none" =>
          /\ Taken \in Nat /\ staged = Piece(job, Taken, sent - rest)
          /\ Cut(job, wire, Taken) /\ EvenlyCut(job, wire, Taken)
    BY <1>1, <1>2 DEF EncRound
  <2>2. Taken = sent - Len(staged) /\ sent - rest = sent
    BY <1>2, <1>3 DEF Taken
  <2> QED
    BY <1>3, <2>1, <2>2
<1>5. CASE encErr = "none" /\ staged # <<>>
  <2>1. PICK t : t = Taken
    OBVIOUS
  <2>2. t < sent
    <3>1. Len(staged) > 0
      BY <1>3, <1>5
    <3> QED
      BY <1>3, <1>4, <1>5, <2>1, <3>1
  <2>3. Reaches(job, t, sent)
    BY <1>3, <1>4, <1>5, <2>1, <2>2 DEF Reaches
  <2>4. EmitBlock(Piece(job, t, sent))
    BY <1>1, <1>4, <1>5, <2>1 DEF LastBlock
  <2>5. sent <= sent
    BY <1>3
  <2>6. \/ /\ encErr' = "none" /\ staged' = <<>>
           /\ Cut(job, wire', sent) /\ (Fills(job, t, sent) => EvenlyCut(job, wire', sent))
        \/ encErr' # "none" /\ EvenlyCut(job, wire', t) /\ Refused(t)'
    BY <1>1, <1>4, <1>5, <2>1, <2>3, <2>4, <2>5, EmitRound
  <2>7. CASE encErr' = "none" /\ staged' = <<>> /\ Cut(job, wire', sent)
    <3>1. Taken' = sent /\ sent' - rest' = sent
      <4>1. Taken' = sent - 0 - 0
        BY <1>1, <1>2, <2>7 DEF Taken
      <4> QED
        BY <1>1, <1>2, <1>3, <4>1
    <3>2. Piece(job, sent, sent) = <<>>
      BY <1>3, NoPiece DEF Piece
    <3>3. Cut(job, wire, Taken)' /\ staged' = Piece(job, Taken, sent - rest)'
      BY <1>1, <2>7, <3>1, <3>2
    <3> QED
      BY <1>1, <1>2, <1>3, <2>7, <3>1, <3>3 DEF EncRound
  <2>8. CASE encErr' # "none" /\ EvenlyCut(job, wire', t) /\ Refused(t)'
    <3>1. EvenlyCut(job, wire, t)'
      BY <1>1, <2>8
    <3> QED
      BY <1>1, <1>2, <2>8, <3>1 DEF EncRound
  <2> QED
    BY <2>6, <2>7, <2>8
<1>6. CASE encErr = "none" /\ staged = <<>>
  <2>1. UNCHANGED <<wire, staged, encErr>>
    BY <1>1, <1>6 DEF LastBlock
  <2>2. Taken' = Taken /\ sent' - rest' = sent
    <3>1. Taken' = Taken
      BY <1>1, <2>1 DEF Taken
    <3> QED
      BY <1>1, <1>2, <1>3, <3>1
  <2>3. Cut(job, wire, Taken)' /\ staged' = Piece(job, Taken, sent - rest)'
    BY <1>1, <1>4, <1>6, <2>1, <2>2
  <2> QED
    BY <1>1, <1>2, <1>4, <1>6, <2>1, <2>2, <2>3 DEF EncRound
<1>7. CASE encErr # "none"
  <2>1. UNCHANGED <<wire, staged, encErr>>
    BY <1>1, <1>7 DEF LastBlock
  <2>2. PICK t : EvenlyCut(job, wire, t) /\ Refused(t)
    BY <1>7 DEF EncRound
  <2>3. EvenlyCut(job, wire, t)' /\ Refused(t)'
    BY <1>1, <2>1, <2>2 DEF Refused
  <2> QED
    BY <1>1, <1>2, <1>7, <2>1, <2>3 DEF EncRound
<1> QED
  BY <1>5, <1>6, <1>7

LEMMA EncCloseRound ==
    ASSUME Typed, EncInv, EncRound, EncClose
    PROVE  EncRound'
<1>1. /\ encPc = "close" /\ encPc' = "out"
      /\ UNCHANGED <<job, sent, rest, staged, hashed, encErr>>
  BY DEF EncClose
<1>2. /\ rest = 0 /\ hashed = Given /\ Given' = Given /\ encVerdict = "open"
      /\ encErr = "none" => staged = <<>>
  BY <1>1 DEF EncRound, EncInv, Given
<1>3. sent \in Nat /\ Taken' = Taken /\ job \in Jobs /\ wire \in Seq(Byte)
  BY <1>1, EncFacts DEF Taken
<1>4. CASE encErr # "none"
  <2>1. encVerdict' = encErr /\ wire' = wire
    BY <1>4 DEF EncClose
  <2>2. encErr # "ok"
    BY DEF EncInv
  <2>3. PICK t : EvenlyCut(job, wire, t) /\ Refused(t)
    BY <1>4 DEF EncRound
  <2>4. EvenlyCut(job, wire, t)' /\ Refused(t)'
    BY <1>1, <2>1, <2>3 DEF Refused
  <2>5. encVerdict' # "open"
    BY <1>4, <2>1 DEF EncInv
  <2> QED
    BY <1>1, <1>2, <1>4, <2>1, <2>2, <2>4, <2>5 DEF EncRound
<1>5. CASE encErr = "none"
  <2>1. encVerdict' = "ok" /\ wire' = wire \o EndMark \o Checksum(hashed)
    <3>1. ~(Len(wire) + 8 > job.cap)
      <4>1. Len(wire) + 8 <= job.cap /\ job.cap \in Nat /\ Len(wire) \in Nat
        BY <1>2, EncFacts DEF EncInv, ReserveKept
      <4> QED
        BY <4>1
    <3> QED
      BY <1>5, <3>1 DEF EncClose
  <2>2. Cut(job, wire, Taken) /\ staged = Piece(job, Taken, sent - rest) /\ Taken \in Nat
    BY <1>2, <1>5 DEF EncRound
  <2>3. Taken = sent
    <3>1. Taken = sent - 0 - 0
      BY <1>2, <1>5 DEF Taken
    <3> QED
      BY <1>3, <3>1
  <2>4. Framed(job, wire', sent)
    BY <1>2, <1>3, <2>1, <2>2, <2>3 DEF Framed, Given
  <2>5. Framed(job, wire, sent)'
    BY <1>1, <2>4
  <2>6. staged' = Piece(job, Taken, sent - rest)' /\ Taken' \in Nat
    BY <1>1, <1>3, <2>2
  <2> QED
    BY <1>1, <1>2, <1>5, <2>1, <2>5, <2>6 DEF EncRound
<1> QED
  BY <1>4, <1>5

LEMMA EncStepRound ==
    ASSUME Typed, EncInv, EncRound, EncNext
    PROVE  EncRound'
  BY EncWriteRound, StageRound, EncReturnRound, EncFlushLastRound, EncCloseRound DEF EncNext

LEMMA EncRoundUnchanged ==
    ASSUME EncRound, UNCHANGED encVars
    PROVE  EncRound'
<1>1. Taken' = Taken /\ Given' = Given
  BY DEF encVars, Taken, Given
<1> QED
  BY <1>1 DEF EncRound, encVars, Refused

\* Once it is closed, the encoder rests.
LEMMA ClosedRests ==
    ASSUME EncRound, encClosed
    PROVE  ~EncNext
  BY DEF EncRound, EncNext, EncWrite, Stage, EncReturn, EncFlushLast, EncClose

-----------------------------------------------------------------------------
(* Where a decoder can stand in a finished frame.                          *)

\* Position p of a whole frame w is where a block ends, and t bytes of the text lie before it.
Stands(j, w, m, p, t) ==
    \E v, n, at, to :
        /\ v \in Seq(Byte)
        /\ Blocks(j, v, n, at, to) /\ at[n] = Len(v) /\ to[n] = m
        /\ w = (v \o EndMark) \o Checksum(SubSeq(j.bytes, 1, m))
        /\ \E k \in 0 .. n : p = at[k] /\ t = to[k]

\* There the end mark follows, and the checksum,
EndsAt(j, w, m, p) ==
    /\ p \in Nat /\ Len(w) = p + 8
    /\ SubSeq(w, p + 1, p + 4) = EndMark
    /\ SubSeq(w, p + 4 + 1, p + 4 + 4) = Checksum(SubSeq(j.bytes, 1, m))

\* or another block.
GoesOn(j, w, m, p, t) ==
    \E q, u : q \in Nat /\ u \in Nat /\ IsBlock(j, w, p, t, q, u) /\ Stands(j, w, m, q, u)

\* Behind the header the decoder stands where a block may begin.
LEMMA StandsFirst ==
    ASSUME NEW j, NEW w, NEW m, Framed(j, w, m)
    PROVE  Stands(j, w, m, 7, 0)
<1>1. PICK v \in Seq(Byte) :
        Cut(j, v, m) /\ w = (v \o EndMark) \o Checksum(SubSeq(j.bytes, 1, m))
  BY DEF Framed
<1>2. PICK n, at, to : Blocks(j, v, n, at, to) /\ at[n] = Len(v) /\ to[n] = m
  BY <1>1 DEF Cut
<1>3. n \in Nat /\ at[0] = 7 /\ to[0] = 0
  BY <1>2 DEF Blocks
<1>4. 0 \in 0 .. n
  BY <1>3
<1> QED
  BY <1>1, <1>2, <1>3, <1>4 DEF Stands

\* The three parts of a frame.
LEMMA FrameParts ==
    ASSUME Typed, NEW j \in Jobs, NEW v \in Seq(Byte), NEW m \in Nat, m <= Len(j.bytes),
           NEW w, w = (v \o EndMark) \o Checksum(SubSeq(j.bytes, 1, m))
    PROVE  /\ w \in Seq(Byte) /\ EndsAt(j, w, m, Len(v))
           /\ v \o EndMark \in Seq(Byte) /\ Checksum(SubSeq(j.bytes, 1, m)) \in Seq(Byte)
<1>1. PICK s : s = SubSeq(j.bytes, 1, m)
  OBVIOUS
<1>2. s \in Seq(Byte)
  <2>1. j.bytes \in Seq(Byte)
    BY JobFacts
  <2>2. PICK z \in Nat : z = 0
    OBVIOUS
  <2>3. s = SubSeq(j.bytes, z + 1, z + m) /\ z + m <= Len(j.bytes)
    BY <1>1, <2>2
  <2> QED
    BY <2>1, <2>3, Stretch
<1>3. PICK c \in Seq(Byte) : c = Checksum(s) /\ Len(c) = 4
  BY <1>2, ChecksumType
<1>4. PICK e \in Seq(Byte) : e = EndMark /\ Len(e) = 4
  BY EndMarkType
<1>5. PICK x : x = v \o e
  OBVIOUS
<1>6. x \in Seq(Byte) /\ Len(x) = Len(v) + 4 /\ Len(v) \in Nat
  <2>1. x \in Seq(Byte) /\ Len(x) = Len(v) + Len(e) /\ Len(v) \in Nat
    BY <1>5, Behind
  <2> QED
    BY <1>4, <2>1
<1>7. w = x \o c
  BY <1>1, <1>3, <1>4, <1>5
<1>8. w \in Seq(Byte) /\ Len(w) = Len(v) + 8
  <2>1. w \in Seq(Byte) /\ Len(w) = Len(x) + Len(c)
    BY <1>6, <1>7, Behind
  <2> QED
    BY <1>3, <1>6, <2>1
<1>9. PICK p \in Nat : p = Len(v)
  BY <1>6
<1>10. PICK p4 \in Nat : p4 = p + 4
  OBVIOUS
<1>11. Lies(c, w, p4)
  BY <1>6, <1>7, <1>9, <1>10, LiesSecond
<1>12. Lies(e, w, p)
  <2>1. Lies(e, x, p)
    BY <1>5, <1>9, LiesSecond
  <2> QED
    BY <1>6, <1>7, <2>1, LiesFirst
<1>13. SubSeq(w, p + 1, p + Len(e)) = e /\ SubSeq(w, p4 + 1, p4 + Len(c)) = c
  BY <1>8, <1>11, <1>12, LiesStretch
<1>14. EndsAt(j, w, m, p)
  BY <1>1, <1>3, <1>4, <1>8, <1>9, <1>10, <1>13 DEF EndsAt
<1> QED
  BY <1>1, <1>3, <1>4, <1>5, <1>6, <1>8, <1>9, <1>14

\* Where it stands, either all the text lies before it and the frame ends there, or a
\* block follows.
LEMMA StandsNext ==
    ASSUME Typed, NEW j \in Jobs, NEW w, NEW m \in Nat, m <= Len(j.bytes), NEW p, NEW t,
           Stands(j, w, m, p, t)
    PROVE  /\ w \in Seq(Byte) /\ p \in Nat /\ t \in Nat /\ t <= m
           /\ Lies(Header(j.id, j.sums), w, 0) /\ p + 8 <= Len(w)
           /\ (t = m /\ EndsAt(j, w, m, p)) \/ GoesOn(j, w, m, p, t)
<1>1. PICK v, n, at, to :
        /\ v \in Seq(Byte)
        /\ Blocks(j, v, n, at, to) /\ at[n] = Len(v) /\ to[n] = m
        /\ w = (v \o EndMark) \o Checksum(SubSeq(j.bytes, 1, m))
        /\ \E k \in 0 .. n : p = at[k] /\ t = to[k]
  BY DEF Stands
<1>2. PICK k \in 0 .. n : p = at[k] /\ t = to[k]
  BY <1>1
<1>3. n \in Nat /\ at \in [0 .. n -> Nat] /\ to \in [0 .. n -> Nat]
  BY <1>1 DEF Blocks
<1>4. p \in Nat /\ t \in Nat /\ k \in Nat /\ t <= m
  BY <1>1, <1>2, <1>3 DEF Blocks
<1>5. PICK c \in Seq(Byte) : c = Checksum(SubSeq(j.bytes, 1, m))
  BY <1>1, FrameParts
<1>6. PICK x \in Seq(Byte) : x = v \o EndMark
  BY <1>1, FrameParts
<1>7. w = x \o c /\ w \in Seq(Byte) /\ EndsAt(j, w, m, Len(v))
  BY <1>1, <1>5, <1>6, FrameParts
<1>8. EndMark \in Seq(Byte)
  BY EndMarkType
<1>9. Lies(Header(j.id, j.sums), w, 0)
  <2>1. PICK h \in Seq(Byte) : h = Header(j.id, j.sums)
    BY HeaderType
  <2>2. PICK z \in Nat : z = 0
    OBVIOUS
  <2>3. Lies(h, v, z)
    BY <1>1, <2>1, <2>2 DEF Blocks
  <2>4. Lies(h, x, z)
    BY <1>6, <1>8, <2>3, LiesFirst
  <2>5. Lies(h, w, z)
    BY <1>7, <2>4, LiesFirst
  <2> QED
    BY <2>1, <2>2, <2>5
<1>10. CASE k = n
  <2>1. p = Len(v) /\ t = m
    BY <1>1, <1>2, <1>10
  <2>2. EndsAt(j, w, m, p)
    BY <1>7, <2>1
  <2>3. p + 8 <= Len(w)
    BY <1>4, <2>2 DEF EndsAt
  <2> QED
    BY <1>4, <1>7, <1>9, <2>1, <2>2, <2>3
<1>11. CASE k # n
  <2>1. PICK l \in 1 .. n : l = k + 1
    BY <1>3, <1>4, <1>11
  <2>2. l - 1 = k /\ l \in 0 .. n
    BY <1>3, <1>4, <2>1
  <2>3. PICK q \in Nat : q = at[l]
    BY <1>3, <2>2
  <2>4. PICK u \in Nat : u = to[l]
    BY <1>3, <2>2
  <2>5. IsBlock(j, v, p, t, q, u)
    <3>1. IsBlock(j, v, at[l - 1], to[l - 1], at[l], to[l])
      BY <1>1 DEF Blocks
    <3> QED
      BY <1>2, <2>2, <2>3, <2>4, <3>1
  <2>6. IsBlock(j, x, p, t, q, u)
    BY <1>4, <1>6, <1>8, <2>5, IsBlockLonger, SMTT(30)
  <2>7. IsBlock(j, w, p, t, q, u)
    BY <1>4, <1>7, <2>6, IsBlockLonger
  <2>8. Stands(j, w, m, q, u)
    BY <1>1, <2>2, <2>3, <2>4 DEF Stands
  <2>9. p + 8 <= Len(w)
    <3>1. PICK d : d = Written(Piece(j, t, u), j.sums)
      OBVIOUS
    <3>2. p + Len(d) <= Len(v) /\ d \in Seq(Byte)
      <4>1. t < u /\ u <= t + BlockMax(j.id) /\ u <= Len(j.bytes) /\ Lies(d, v, p)
        BY <2>5, <3>1 DEF IsBlock
      <4>2. Piece(j, t, u) \in Seq(Byte) /\ Sized(Piece(j, t, u)) /\ j.sums \in BOOLEAN
        BY <1>4, <4>1, PieceIs, JobFacts
      <4> QED
        BY <3>1, <4>1, <4>2, WrittenIs DEF Lies
    <3>3. Len(d) \in Nat /\ Len(v) \in Nat
      BY <3>2
    <3>4. Len(w) = Len(v) + 8
      BY <1>7 DEF EndsAt
    <3> QED
      BY <1>4, <3>2, <3>3, <3>4
  <2> QED
    BY <1>4, <1>7, <1>9, <2>7, <2>8, <2>9 DEF GoesOn
<1> QED
  BY <1>10, <1>11

-----------------------------------------------------------------------------
(* The decoder's fields.                                                   *)

\* The two bytes of the descriptor.

\* One byte of a sequence.
LEMMA OneByte ==
    ASSUME NEW w \in Seq(Byte), NEW i \in 1 .. Len(w)
    PROVE  SubSeq(w, i, i) = <<w[i]>>
<1>1. PICK p \in Nat : p + 1 = i
  <2>1. i - 1 \in Nat /\ (i - 1) + 1 = i
    OBVIOUS
  <2> QED
    BY <2>1
<1>2. PICK x \in Byte : x = w[i]
  OBVIOUS
<1>3. <<x>> \in Seq(Byte) /\ Len(<<x>>) = 1
  OBVIOUS
<1>4. Lies(<<x>>, w, p)
  <2>1. \A k \in 1 .. 1 : w[p + k] = <<x>>[k]
    BY <1>1, <1>2
  <2>2. p + 1 <= Len(w)
    BY <1>1
  <2> QED
    BY <1>3, <2>1, <2>2 DEF Lies
<1>5. SubSeq(w, p + 1, p + Len(<<x>>)) = <<x>>
  BY <1>3, <1>4, LiesStretch
<1> QED
  BY <1>1, <1>2, <1>3, <1>5

\* The parts of a header that lies at the start of a frame.
LEMMA HeaderLies ==
    ASSUME Typed, NEW j \in Jobs, NEW w \in Seq(Byte), Lies(Header(j.id, j.sums), w, 0)
    PROVE  /\ SubSeq(w, 1, 4) = Magic /\ SubSeq(w, 5, 5) = <<FlgOf(j)>>
           /\ SubSeq(w, 6, 6) = <<BdOf(j)>> /\ SubSeq(w, 7, 7) = <<HeaderSum(<<FlgOf(j), BdOf(j)>>)>>
           /\ 7 <= Len(w)
<1>1. PICK a \in Byte : a = FlgOf(j)
  BY HeaderParts
<1>2. PICK b \in Byte : b = BdOf(j)
  BY HeaderParts
<1>3. PICK c \in Byte : c = HeaderSum(<<FlgOf(j), BdOf(j)>>)
  BY HeaderParts
<1>4. PICK h : h = Header(j.id, j.sums)
  OBVIOUS
<1>5. h = (Magic \o <<a, b>>) \o <<c>> /\ Magic \in Seq(Byte) /\ Len(Magic) = 4
  BY <1>1, <1>2, <1>3, <1>4, HeaderParts
<1>6. <<a, b>> \in Seq(Byte) /\ Len(<<a, b>>) = 2 /\ <<c>> \in Seq(Byte) /\ Len(<<c>>) = 1
  OBVIOUS
<1>7. PICK x : x = Magic \o <<a, b>>
  OBVIOUS
<1>8. x \in Seq(Byte) /\ Len(x) = 6
  <2>1. x \in Seq(Byte) /\ Len(x) = Len(Magic) + Len(<<a, b>>)
    BY <1>5, <1>6, <1>7, Behind
  <2> QED
    BY <1>5, <1>6, <2>1
<1>9. PICK z \in Nat : z = 0
  OBVIOUS
<1>10. h = x \o <<c>> /\ Lies(h, w, z)
  BY <1>4, <1>5, <1>7, <1>9
<1>11. Lies(x, w, z) /\ Lies(<<c>>, w, z + Len(x))
  BY <1>6, <1>8, <1>10, LiesConcat
<1>12. Lies(Magic, w, z) /\ Lies(<<a, b>>, w, z + Len(Magic))
  BY <1>5, <1>6, <1>7, <1>11, LiesConcat
<1>13. Lies(<<a, b>>, w, 4) /\ Lies(<<c>>, w, 6)
  BY <1>5, <1>8, <1>9, <1>11, <1>12
<1>14. w[5] = a /\ w[6] = b /\ w[7] = c /\ 7 <= Len(w)
  <2>1. \A i \in 1 .. 2 : w[4 + i] = <<a, b>>[i]
    BY <1>6, <1>13 DEF Lies
  <2>2. w[4 + 1] = <<a, b>>[1] /\ w[4 + 2] = <<a, b>>[2]
    BY <2>1
  <2>3. \A i \in 1 .. 1 : w[6 + i] = <<c>>[i]
    BY <1>6, <1>13 DEF Lies
  <2>4. w[6 + 1] = <<c>>[1]
    BY <2>3
  <2>5. 7 <= Len(w)
    BY <1>6, <1>13 DEF Lies
  <2> QED
    BY <2>2, <2>4, <2>5
<1>15. SubSeq(w, 1, 4) = Magic
  <2>1. SubSeq(w, z + 1, z + Len(Magic)) = Magic
    BY <1>5, <1>12, LiesStretch
  <2> QED
    BY <1>5, <1>9, <2>1
<1>17. SubSeq(w, 5, 5) = <<w[5]>> /\ SubSeq(w, 6, 6) = <<w[6]>> /\ SubSeq(w, 7, 7) = <<w[7]>>
  <2>1. Len(w) \in Nat
    OBVIOUS
  <2>2. 5 \in 1 .. Len(w) /\ 6 \in 1 .. Len(w) /\ 7 \in 1 .. Len(w)
    BY <1>14, <2>1
  <2> QED
    BY <2>2, OneByte
<1> QED
  BY <1>1, <1>2, <1>3, <1>14, <1>15, <1>17

-----------------------------------------------------------------------------
\* The field in hand began at position b of the frame.
Begun(b) == b <= cp /\ field = SubSeq(frame, b + 1, cp)

\* What DecInv says of the types.
LEMMA DecFacts ==
    ASSUME DecInv
    PROVE  /\ frame \in Seq(Byte) /\ Len(frame) \in Nat
           /\ cp \in Nat /\ end \in Nat /\ cp <= end /\ end <= Len(frame)
           /\ max \in Nat /\ size \in Nat /\ block \in Seq(Byte) /\ Len(block) \in Nat
           /\ field \in Seq(Byte) /\ Len(field) \in Nat
  BY DEF DecInv

\* A stretch of a sequence of bytes.
LEMMA StretchSize ==
    ASSUME NEW s \in Seq(Byte), NEW a \in Nat, NEW b \in Nat, a <= b, b <= Len(s)
    PROVE  SubSeq(s, a + 1, b) \in Seq(Byte) /\ Len(SubSeq(s, a + 1, b)) = b - a
<1>1. PICK n \in Nat : n = b - a
  OBVIOUS
<1>2. b = a + n /\ a + n <= Len(s)
  BY <1>1
<1> QED
  BY <1>1, <1>2, Stretch

\* Complete, it is what is there.
LEMMA FieldRead ==
    ASSUME DecInv, NEW s \in DOMAIN FieldSize, In(s), NEW b \in Nat, Begun(b)
    PROVE  /\ Whole = SubSeq(frame, b + 1, b + FieldSize[s])
           /\ cp' = b + FieldSize[s] /\ b + FieldSize[s] <= Len(frame)
<1>1. /\ frame \in Seq(Byte) /\ Len(frame) \in Nat /\ cp \in Nat /\ end \in Nat
      /\ end <= Len(frame)
  BY DecFacts
<1>2. pc = "in" /\ state = s /\ cp' = cp + Missing /\ ~Short /\ s # "BLOCK_DATA"
  BY FieldSizes DEF In
<1>3. Missing \in Nat /\ Missing = FieldSize[s] - Len(field) /\ Missing <= end - cp
  BY <1>2, MissingType DEF Short, Left
<1>4. field = SubSeq(frame, b + 1, cp) /\ b <= cp /\ Len(field) = cp - b
  <2>1. field = SubSeq(frame, b + 1, cp) /\ b <= cp /\ cp <= Len(frame)
    BY DecFacts DEF Begun
  <2> QED
    BY <1>1, <2>1, StretchSize
<1>5. PICK n \in Nat : n = FieldSize[s]
  BY FieldSizes
<1>6. PICK u \in Nat : u = cp + Missing
  BY <1>1, <1>3
<1>7. u = b + n /\ cp <= u /\ u <= Len(frame)
  <2>1. Missing = n - (cp - b) /\ Missing \in Nat /\ Missing <= end - cp
    BY <1>3, <1>4, <1>5
  <2> QED
    BY <1>1, <1>6, <2>1
<1>8. SubSeq(frame, b + 1, cp) \o SubSeq(frame, cp + 1, u) = SubSeq(frame, b + 1, u)
  BY <1>1, <1>4, <1>7, StretchesMeet
<1>9. Whole = SubSeq(frame, b + 1, u)
  BY <1>4, <1>6, <1>8 DEF Whole, Coming
<1> QED
  BY <1>2, <1>5, <1>6, <1>7, <1>9

\* The next one begins behind it.
LEMMA BegunNext ==
    ASSUME DecInv, NEW b \in Nat, b <= Len(frame), cp' = b, field' = <<>>, frame' = frame
    PROVE  Begun(b)'
<1>1. SubSeq(frame, b + 1, b) = <<>>
  BY DecFacts, NoPiece
<1> QED
  BY <1>1 DEF Begun

\* A turn that runs out of input leaves it where it began.
LEMMA SuspendBegun ==
    ASSUME DecInv, Suspend, state # "BLOCK_DATA", NEW b \in Nat, Begun(b)
    PROVE  Begun(b)'
<1>1. /\ frame \in Seq(Byte) /\ Len(frame) \in Nat /\ cp \in Nat /\ end \in Nat
      /\ cp <= end /\ end <= Len(frame)
  BY DecFacts
<1>2. cp' = end /\ field' = field \o SubSeq(frame, cp + 1, cp + (end - cp)) /\ frame' = frame
  BY DEF Suspend, caller, Coming, Left
<1>3. cp + (end - cp) = end
  BY <1>1
<1>4. b <= cp /\ field = SubSeq(frame, b + 1, cp)
  BY DEF Begun
<1>5. SubSeq(frame, b + 1, cp) \o SubSeq(frame, cp + 1, end) = SubSeq(frame, b + 1, end)
  BY <1>1, <1>4, StretchesMeet
<1>6. field' = SubSeq(frame, b + 1, end) /\ b <= end
  BY <1>1, <1>2, <1>3, <1>4, <1>5
<1> QED
  BY <1>2, <1>6 DEF Begun

-----------------------------------------------------------------------------
(* How far the decoder is.                                                 *)

\* The decoder finds no fault with the encoder's FLG and BD bytes, and what they say is
\* what the encoder did.
LEMMA FlagsOf ==
    ASSUME NEW j \in Jobs, NEW f, f = FlgOf(j)
    PROVE  /\ FlgFault(f) = "none" /\ HasContentSum(f) /\ ~HasContentSize(f) /\ ~HasDictId(f)
           /\ ~Linked(f)
           /\ j.sums => HasBlockSums(f)
           /\ ~j.sums => ~HasBlockSums(f)
<1>1. CASE j.sums
  <2>1. f = 116
    BY <1>1 DEF FlgOf
  <2> QED
    BY <1>1, <2>1 DEF FlgFault, HasContentSum, HasContentSize, HasDictId, Linked, HasBlockSums, Flag
<1>2. CASE ~j.sums
  <2>1. f = 100
    BY <1>2 DEF FlgOf
  <2> QED
    BY <1>2, <2>1 DEF FlgFault, HasContentSum, HasContentSize, HasDictId, Linked, HasBlockSums, Flag
<1> QED
  BY <1>1, <1>2

LEMMA BdFits ==
    ASSUME NEW j \in Jobs, NEW b, b = BdOf(j)
    PROVE  BdFault(b) = "none" /\ b \div 16 = j.id
<1>1. \A i \in 4 .. 7 : i * 16 < 128 /\ (i * 16) % 16 = 0 /\ (i * 16) \div 16 = i
  OBVIOUS
<1>2. j.id \in 4 .. 7
  BY JobFacts
<1>3. PICK i \in 4 .. 7 : i = j.id
  BY <1>2
<1>4. b = i * 16
  BY <1>3 DEF BdOf
<1>5. b < 128 /\ b % 16 = 0 /\ b \div 16 = i /\ b \in Nat
  BY <1>1, <1>4
<1>6. BdFault(b) = "none"
  BY <1>3, <1>5 DEF BdFault
<1> QED
  BY <1>3, <1>5, <1>6

-----------------------------------------------------------------------------
Fresh == out = <<>> /\ folded = <<>>

HeaderKnown == flg = FlgOf(job) /\ max >= BlockMax(job.id) /\ folded = out

\* Between two blocks, t bytes of the text behind the header.
AtBlock(p, t) ==
    Stands(job, frame, sent, p, t) /\ HeaderKnown /\ out = SubSeq(job.bytes, 1, t)

\* In a block of the text from t to u, which ends at q.
InBlock(t, q, u) ==
    /\ Stands(job, frame, sent, q, u) /\ HeaderKnown /\ out = SubSeq(job.bytes, 1, t)
    /\ t \in Nat /\ u \in Nat /\ t < u /\ u <= t + BlockMax(job.id)
    /\ size = Len(BodyOf(Piece(job, t, u)))
    /\ raw => IsStored(Piece(job, t, u))
    /\ ~raw => ~IsStored(Piece(job, t, u))

\* Its body is at b, and behind it its checksum.
BodyAt(b, q, d) ==
    /\ b \in Nat /\ q = b + size + SumBytes(job.sums)
    /\ SubSeq(frame, b + 1, b + size) = BodyOf(d)
    /\ SubSeq(frame, b + size + 1, b + size + SumBytes(job.sums)) = SumOf(d, job.sums)

InBody(b) == b <= cp /\ block = SubSeq(frame, b + 1, cp)

\* How far the decoder is in the encoder's frame.
Underway ==
    /\ state \notin {"CONTENT_SIZE", "DICT_ID", "CLOSED"}
    /\ state = "MAGIC" => Begun(0) /\ desc = <<>> /\ Fresh
    /\ state = "FLG" => Begun(4) /\ desc = <<>> /\ Fresh
    /\ state = "BD" => Begun(5) /\ desc = <<FlgOf(job)>> /\ flg = FlgOf(job) /\ Fresh
    /\ state = "HC" => Begun(6) /\ desc = <<FlgOf(job), BdOf(job)>> /\ HeaderKnown /\ Fresh
    /\ state = "BLOCK_SIZE" => \E p, t : AtBlock(p, t) /\ Begun(p)
    /\ state = "BLOCK_DATA" => \E b, t, q, u : /\ InBlock(t, q, u) /\ BodyAt(b, q, Piece(job, t, u))
                                               /\ InBody(b)
    /\ state = "BLOCK_CHECKSUM" =>
         \E c \in Nat : \E t, q, u :
             /\ job.sums /\ InBlock(t, q, u) /\ block = BodyOf(Piece(job, t, u)) /\ q = c + 4
             /\ SubSeq(frame, c + 1, c + 4) = Checksum(block)
             /\ Begun(c)
    /\ state = "CONTENT_CHECKSUM" =>
         \E c \in Nat : /\ folded = Given /\ out = Given
                        /\ Begun(c) /\ Len(frame) = c + 4
                        /\ SubSeq(frame, c + 1, c + 4) = Checksum(Given)
    /\ state = "DONE" => out = Given

\* What the encoder wrote is decoded in a buffer with room for it.
Ready ==
    /\ job \in Jobs /\ sent \in Nat /\ sent <= Len(job.bytes) /\ sent <= MaxOutput
    /\ sent <= room /\ room \in Nat /\ Framed(job, frame, sent)

\* The turn just made kept to the frame.
Kept ==
    /\ err = "none" => Underway
    /\ err # "none" => max < BlockMax(job.id)
    /\ pc = "out" /\ err = "none" /\ state # "DONE" => cp = end

\* What the decoder can read in a frame of the encoder's.
LEMMA ReadyFacts ==
    ASSUME Typed, Ready
    PROVE  /\ frame \in Seq(Byte) /\ Lies(Header(job.id, job.sums), frame, 0)
           /\ 15 <= Len(frame) /\ Stands(job, frame, sent, 7, 0)
           /\ job.bytes \in Seq(Byte) /\ Len(job.bytes) \in Nat /\ job \in Jobs
           /\ SubSeq(frame, 1, 4) = Magic /\ SubSeq(frame, 5, 5) = <<FlgOf(job)>>
           /\ SubSeq(frame, 6, 6) = <<BdOf(job)>>
           /\ SubSeq(frame, 7, 7) = <<HeaderSum(<<FlgOf(job), BdOf(job)>>)>>
<1>1. /\ job \in Jobs /\ sent \in Nat /\ sent <= Len(job.bytes) /\ Framed(job, frame, sent)
  BY DEF Ready
<1>2. job.bytes \in Seq(Byte)
  BY <1>1, JobFacts
<1>3. PICK p \in Nat : p = 7
  OBVIOUS
<1>4. PICK t \in Nat : t = 0
  OBVIOUS
<1>5. Stands(job, frame, sent, p, t)
  BY <1>1, <1>3, <1>4, StandsFirst
<1>6. /\ frame \in Seq(Byte) /\ Lies(Header(job.id, job.sums), frame, 0) /\ p + 8 <= Len(frame)
  BY <1>1, <1>5, StandsNext
<1>7. 15 <= Len(frame)
  BY <1>3, <1>6
<1>8. /\ SubSeq(frame, 1, 4) = Magic /\ SubSeq(frame, 5, 5) = <<FlgOf(job)>>
      /\ SubSeq(frame, 6, 6) = <<BdOf(job)>>
      /\ SubSeq(frame, 7, 7) = <<HeaderSum(<<FlgOf(job), BdOf(job)>>)>>
  BY <1>1, <1>6, HeaderLies
<1> QED
  BY <1>1, <1>2, <1>3, <1>4, <1>5, <1>6, <1>7, <1>8

\* The turns of lz4f_dec_write, one by one: the magic number,
LEMMA ReadMagicRound ==
    ASSUME Typed, DecInv, Ready, Underway, ReadMagic, UNCHANGED encVars
    PROVE  Kept'
<1>1. In("MAGIC") /\ "MAGIC" \in DOMAIN FieldSize /\ FieldSize["MAGIC"] = 4
  BY FieldSizes DEF ReadMagic
<1>2. state = "MAGIC" /\ pc = "in" /\ err = "none"
  BY <1>1, WholeType
<1>3. PICK z \in Nat : z = 0
  OBVIOUS
<1>4. Begun(z) /\ desc = <<>> /\ Fresh
  BY <1>2, <1>3 DEF Underway
<1>5. Whole = SubSeq(frame, z + 1, z + FieldSize["MAGIC"]) /\ cp' = z + FieldSize["MAGIC"]
  BY <1>1, <1>4, FieldRead
<1>6. Whole = Magic /\ cp' = 4
  BY <1>1, <1>3, <1>5, ReadyFacts
<1>7. /\ state' = "FLG" /\ field' = <<>> /\ err' = err /\ pc' = pc
      /\ UNCHANGED <<frame, desc, out, folded>>
  BY <1>6 DEF ReadMagic, GoTo, caller, written
<1>8. Begun(4)'
  <2>1. PICK b \in Nat : b = 4
    OBVIOUS
  <2>2. b <= Len(frame)
    BY <2>1, ReadyFacts
  <2>3. Begun(b)'
    BY <1>6, <1>7, <2>1, <2>2, BegunNext
  <2> QED
    BY <2>1, <2>3
<1>9. Underway'
  BY <1>4, <1>7, <1>8 DEF Underway, Fresh
<1> QED
  BY <1>2, <1>7, <1>9 DEF Kept

\* The descriptor is collected byte by byte.
LEMMA TwoBytes ==
    ASSUME NEW a \in Byte, NEW b \in Byte
    PROVE  <<a>> \o <<b>> = <<a, b>> /\ <<>> \o <<a>> = <<a>>
<1>1. <<a>> \in Seq(Byte) /\ <<b>> \in Seq(Byte) /\ <<a, b>> \in Seq(Byte)
      /\ Len(<<a>>) = 1 /\ Len(<<b>>) = 1 /\ Len(<<a, b>>) = 2
  OBVIOUS
<1>2. PICK x : x = <<a>> \o <<b>>
  OBVIOUS
<1>3. x \in Seq(Byte) /\ Len(x) = 2
      /\ \A i \in 1 .. 2 : x[i] = IF i <= 1 THEN <<a>>[i] ELSE <<b>>[i - 1]
  BY <1>1, <1>2, ConcatProperties
<1>4. x[1] = a /\ x[2] = b
  BY <1>3
<1>5. \A i \in 1 .. Len(x) : x[i] = <<a, b>>[i]
  BY <1>3, <1>4
<1>6. x = <<a, b>>
  BY <1>1, <1>3, <1>5, SeqEqual
<1>7. <<>> \o <<a>> = <<a>>
  BY <1>1, ConcatEmptySeq
<1> QED
  BY <1>2, <1>6, <1>7

\* the FLG byte,
LEMMA ReadFlgRound ==
    ASSUME Typed, DecInv, Ready, Underway, ReadFlg, UNCHANGED encVars
    PROVE  Kept'
<1>1. In("FLG") /\ "FLG" \in DOMAIN FieldSize /\ FieldSize["FLG"] = 1
  BY FieldSizes DEF ReadFlg
<1>2. state = "FLG" /\ pc = "in" /\ err = "none"
  BY <1>1, WholeType
<1>3. PICK z \in Nat : z = 4
  OBVIOUS
<1>4. Begun(z) /\ desc = <<>> /\ Fresh
  BY <1>2, <1>3 DEF Underway
<1>5. Whole = SubSeq(frame, z + 1, z + FieldSize["FLG"]) /\ cp' = z + FieldSize["FLG"]
  BY <1>1, <1>4, FieldRead
<1>6. Whole = <<FlgOf(job)>> /\ cp' = 5
  BY <1>1, <1>3, <1>5, ReadyFacts
<1>7. Whole[1] = FlgOf(job)
  BY <1>6
<1>8. FlgFault(Whole[1]) = "none"
  BY <1>7, FlagsOf DEF Ready
<1>9. /\ state' = "BD" /\ field' = <<>> /\ err' = err /\ pc' = pc /\ flg' = FlgOf(job)
      /\ desc' = desc \o Whole
      /\ UNCHANGED <<frame, out, folded>>
  BY <1>7, <1>8 DEF ReadFlg, GoTo, caller, written
<1>10. desc' = <<FlgOf(job)>>
  <2>1. FlgOf(job) \in Byte
    BY HeaderParts DEF Ready
  <2> QED
    BY <1>4, <1>6, <1>9, <2>1, TwoBytes, Zenon
<1>11. Begun(5)'
  <2>1. PICK b \in Nat : b = 5
    OBVIOUS
  <2>2. b <= Len(frame)
    BY <2>1, ReadyFacts
  <2>3. Begun(b)'
    BY <1>6, <1>9, <2>1, <2>2, BegunNext
  <2> QED
    BY <2>1, <2>3
<1>12. FlgOf(job)' = FlgOf(job)
  BY DEF encVars, FlgOf
<1>13. Underway'
  BY <1>4, <1>9, <1>10, <1>11, <1>12 DEF Underway, Fresh
<1> QED
  BY <1>2, <1>9, <1>13 DEF Kept

\* the BD byte,
LEMMA ReadBdRound ==
    ASSUME Typed, DecInv, Ready, Underway, ReadBd, UNCHANGED encVars
    PROVE  Kept'
<1>1. In("BD") /\ "BD" \in DOMAIN FieldSize /\ FieldSize["BD"] = 1
  BY FieldSizes DEF ReadBd
<1>2. state = "BD" /\ pc = "in" /\ err = "none"
  BY <1>1, WholeType
<1>3. PICK z \in Nat : z = 5
  OBVIOUS
<1>4. Begun(z) /\ desc = <<FlgOf(job)>> /\ flg = FlgOf(job) /\ Fresh
  BY <1>2, <1>3 DEF Underway
<1>5. Whole = SubSeq(frame, z + 1, z + FieldSize["BD"]) /\ cp' = z + FieldSize["BD"]
  BY <1>1, <1>4, FieldRead
<1>6. Whole = <<BdOf(job)>> /\ cp' = 6
  BY <1>1, <1>3, <1>5, ReadyFacts
<1>7. Whole[1] = BdOf(job)
  BY <1>6
<1>8. BdFault(Whole[1]) = "none" /\ Whole[1] \div 16 = job.id
  BY <1>7, BdFits DEF Ready
<1>9. /\ \/ /\ state' = "HC" /\ field' = <<>> /\ UNCHANGED <<err, pc>>
            /\ max' = IF BlockMax(job.id) > max THEN BlockMax(job.id) ELSE max
            /\ desc' = desc \o Whole
         \/ /\ BlockMax(job.id) > max /\ max' = max
            /\ err' = "BUFFER_TOO_SMALL" /\ pc' = "out"
      /\ UNCHANGED <<frame, flg, out, folded>>
  <2>1. AfterBd({}) = "HC"
    BY <1>4, FlagsOf DEF AfterBd, Ready
  <2> QED
    BY <1>8, <2>1, Zenon DEF ReadBd, GoTo, Poison, caller, written
<1>10. /\ FlgOf(job)' = FlgOf(job) /\ BdOf(job)' = BdOf(job)
       /\ BlockMax(job.id)' = BlockMax(job.id) /\ job' = job
  BY DEF encVars, FlgOf, BdOf
<1>11. max \in Nat /\ BlockMax(job.id) \in Nat
  BY DecFacts, JobFacts DEF Ready
<1>12. CASE BlockMax(job.id) > max /\ max' = max /\ err' = "BUFFER_TOO_SMALL"
  BY <1>10, <1>11, <1>12 DEF Kept
<1>13. CASE /\ state' = "HC" /\ field' = <<>> /\ UNCHANGED <<err, pc>>
            /\ max' = IF BlockMax(job.id) > max THEN BlockMax(job.id) ELSE max
            /\ desc' = desc \o Whole
  <2>1. max' >= BlockMax(job.id)
    BY <1>11, <1>13
  <2>2. desc' = <<FlgOf(job), BdOf(job)>>
    <3>1. FlgOf(job) \in Byte /\ BdOf(job) \in Byte
      BY HeaderParts DEF Ready
    <3> QED
      BY <1>4, <1>6, <1>13, <3>1, TwoBytes, Zenon
  <2>3. Begun(6)'
    <3>1. PICK b \in Nat : b = 6
      OBVIOUS
    <3>2. b <= Len(frame)
      BY <3>1, ReadyFacts
    <3>3. Begun(b)'
      BY <1>6, <1>9, <1>13, <3>1, <3>2, BegunNext
    <3> QED
      BY <3>1, <3>3
  <2>4. HeaderKnown' /\ Fresh'
    BY <1>4, <1>9, <1>10, <2>1 DEF HeaderKnown, Fresh
  <2>5. Underway'
    BY <1>10, <1>13, <2>2, <2>3, <2>4 DEF Underway
  <2> QED
    BY <1>2, <1>13, <2>5 DEF Kept
<1> QED
  BY <1>9, <1>12, <1>13

\* the header checksum;
LEMMA ReadHcRound ==
    ASSUME Typed, DecInv, Ready, Underway, ReadHc, UNCHANGED encVars
    PROVE  Kept'
<1>1. In("HC") /\ "HC" \in DOMAIN FieldSize /\ FieldSize["HC"] = 1
  BY FieldSizes DEF ReadHc, FieldSize
<1>2. state = "HC" /\ pc = "in" /\ err = "none"
  BY <1>1, WholeType
<1>3. PICK z \in Nat : z = 6
  OBVIOUS
<1>4. Begun(z) /\ desc = <<FlgOf(job), BdOf(job)>> /\ HeaderKnown /\ Fresh
  BY <1>2, <1>3 DEF Underway
<1>5. Whole = SubSeq(frame, z + 1, z + FieldSize["HC"]) /\ cp' = z + FieldSize["HC"]
  BY <1>1, <1>4, FieldRead
<1>6. Whole = <<HeaderSum(<<FlgOf(job), BdOf(job)>>)>> /\ cp' = 7
  BY <1>1, <1>3, <1>5, ReadyFacts
<1>7. Whole[1] = HeaderSum(desc)
  BY <1>4, <1>6
<1>8. /\ state' = "BLOCK_SIZE" /\ field' = <<>> /\ err' = err /\ pc' = pc
      /\ UNCHANGED <<frame, flg, max, out, folded>>
  BY <1>7 DEF ReadHc, GoTo, caller, reading, written
<1>9. Begun(7)'
  <2>1. PICK b \in Nat : b = 7
    OBVIOUS
  <2>2. b <= Len(frame)
    BY <2>1, ReadyFacts
  <2>3. Begun(b)'
    BY <1>6, <1>8, <2>1, <2>2, BegunNext
  <2> QED
    BY <2>1, <2>3
<1>10. AtBlock(7, 0)'
  <2>1. Stands(job, frame, sent, 7, 0)'
    BY <1>8, ReadyFacts DEF encVars
  <2>2. HeaderKnown'
    BY <1>4, <1>8 DEF HeaderKnown, encVars, FlgOf
  <2>3. SubSeq(job.bytes, 1, 0) = <<>>
    <3>1. PICK z0 \in Nat : z0 = 0
      OBVIOUS
    <3>2. job.bytes \in Seq(Byte) /\ z0 <= Len(job.bytes)
      BY <3>1, ReadyFacts
    <3>3. SubSeq(job.bytes, z0 + 1, z0) = <<>>
      BY <3>2, NoPiece
    <3> QED
      BY <3>1, <3>3
  <2>4. out' = SubSeq(job.bytes, 1, 0)'
    BY <1>4, <1>8, <2>3 DEF Fresh, encVars
  <2> QED
    BY <2>1, <2>2, <2>4 DEF AtBlock
<1>11. Underway'
  BY <1>8, <1>9, <1>10 DEF Underway
<1> QED
  BY <1>2, <1>8, <1>11 DEF Kept

-----------------------------------------------------------------------------
(* Blocks, as they are read.                                               *)

\* What the decoder finds where a block begins.
LEMMA NextBlock ==
    ASSUME Typed, NEW j \in Jobs, NEW w \in Seq(Byte), NEW p \in Nat, NEW t \in Nat,
           NEW q \in Nat, NEW u \in Nat, IsBlock(j, w, p, t, q, u)
    PROVE  \E d \in Seq(Byte), f \in Seq(Byte), b \in Nat, s \in Nat :
           /\ d = Piece(j, t, u) /\ f = SubSeq(w, p + 1, p + 4) /\ b = p + 4
           /\ Len(d) = u - t /\ t < u /\ u <= t + BlockMax(j.id)
           /\ BodyOf(d) \in Seq(Byte) /\ s = Len(BodyOf(d)) /\ s <= Len(d)
           /\ f # EndMark /\ SizeOf(f) = s
           /\ IsRaw(f) => IsStored(d)
           /\ ~IsRaw(f) => ~IsStored(d)
           /\ SubSeq(w, b + 1, b + s) = BodyOf(d)
           /\ SubSeq(w, b + s + 1, b + s + SumBytes(j.sums)) = SumOf(d, j.sums)
           /\ q = b + s + SumBytes(j.sums) /\ q <= Len(w)
<1>0. PICK d : d = Piece(j, t, u)
  OBVIOUS
<1>1. /\ t < u /\ u <= t + BlockMax(j.id) /\ u <= Len(j.bytes)
      /\ Lies(Written(d, j.sums), w, p) /\ q = p + Len(Written(d, j.sums))
  BY <1>0 DEF IsBlock
<1>2. d \in Seq(Byte) /\ Len(d) = u - t /\ Sized(d) /\ d # <<>>
  BY <1>0, <1>1, PieceIs
<1>3. j.sums \in BOOLEAN
  BY JobFacts
<1>4. PICK f : f = SizeField(Len(BodyOf(d)), IsStored(d))
  OBVIOUS
<1>5. /\ BodyOf(d) \in Seq(Byte) /\ Len(BodyOf(d)) <= Len(d) /\ Len(BodyOf(d)) \in Nat
      /\ f \in Seq(Byte) /\ SizeOf(f) = Len(BodyOf(d))
      /\ IsStored(d) => IsRaw(f)
      /\ ~IsStored(d) => ~IsRaw(f)
      /\ Len(Written(d, j.sums)) = 4 + Len(BodyOf(d)) + SumBytes(j.sums)
  BY <1>2, <1>3, <1>4, WrittenIs
<1>6. /\ p + 4 + Len(BodyOf(d)) + SumBytes(j.sums) <= Len(w)
      /\ SubSeq(w, p + 1, p + 4) = f
      /\ SubSeq(w, p + 4 + 1, p + 4 + Len(BodyOf(d))) = BodyOf(d)
      /\ SubSeq(w, p + 4 + Len(BodyOf(d)) + 1, p + 4 + Len(BodyOf(d)) + SumBytes(j.sums))
           = SumOf(d, j.sums)
  BY <1>1, <1>2, <1>3, <1>4, WrittenLies, SMTT(30)
<1>7. PICK s \in Nat : s = Len(BodyOf(d))
  BY <1>5
<1>8. s # 0
  <2>1. Len(d) > 0
    BY <1>2
  <2>2. Len(Compressed(d)) > 0
    BY <1>2, CompressedNotEmpty
  <2> QED
    BY <1>7, <2>1, <2>2 DEF BodyOf
<1>9. f # EndMark
  <2>1. SizeOf(EndMark) = 0
    BY SMT DEF SizeOf, EndMark
  <2> QED
    BY <1>5, <1>7, <1>8, <2>1
<1>10. PICK b \in Nat : b = p + 4
  OBVIOUS
<1>11. q = b + s + SumBytes(j.sums) /\ q <= Len(w)
  <2>1. SumBytes(j.sums) \in Nat
    BY DEF SumBytes
  <2> QED
    BY <1>1, <1>5, <1>6, <1>7, <1>10, <2>1, SMTT(30)
<1>12. SubSeq(w, b + 1, b + s) = BodyOf(d)
       /\ SubSeq(w, b + s + 1, b + s + SumBytes(j.sums)) = SumOf(d, j.sums)
  BY <1>6, <1>7, <1>10
<1> QED
  BY <1>0, <1>1, <1>2, <1>4, <1>5, <1>6, <1>7, <1>9, <1>10, <1>11, <1>12

\* Where the decoder stands between two blocks.
LEMMA AtBlockFacts ==
    ASSUME Typed, Ready, NEW p, NEW t, AtBlock(p, t)
    PROVE  /\ p \in Nat /\ t \in Nat /\ t <= sent /\ p + 8 <= Len(frame) /\ HeaderKnown
           /\ out = SubSeq(job.bytes, 1, t)
           /\ (t = sent /\ EndsAt(job, frame, sent, p)) \/ GoesOn(job, frame, sent, p, t)
<1>1. job \in Jobs /\ sent \in Nat /\ sent <= Len(job.bytes)
  BY DEF Ready
<1>2. Stands(job, frame, sent, p, t) /\ HeaderKnown /\ out = SubSeq(job.bytes, 1, t)
  BY DEF AtBlock
<1> QED
  BY <1>1, <1>2, StandsNext

\* a block's size field, which is the end mark or says how long the body is;
LEMMA SizeRead ==
    ASSUME Typed, DecInv, Ready, Underway, In("BLOCK_SIZE")
    PROVE  \E p \in Nat, t \in Nat :
              /\ AtBlock(p, t) /\ Whole = SubSeq(frame, p + 1, p + 4) /\ cp' = p + 4
              /\ pc = "in" /\ err = "none" /\ state = "BLOCK_SIZE"
<1>1. In("BLOCK_SIZE") /\ "BLOCK_SIZE" \in DOMAIN FieldSize /\ FieldSize["BLOCK_SIZE"] = 4
  BY FieldSizes
<1>2. state = "BLOCK_SIZE" /\ pc = "in" /\ err = "none"
  BY <1>1, WholeType
<1>3. PICK p, t : AtBlock(p, t) /\ Begun(p)
  BY <1>2 DEF Underway
<1>4. p \in Nat /\ t \in Nat
  BY <1>3, AtBlockFacts
<1>5. Whole = SubSeq(frame, p + 1, p + FieldSize["BLOCK_SIZE"]) /\ cp' = p + FieldSize["BLOCK_SIZE"]
  BY <1>1, <1>3, <1>4, FieldRead
<1> QED
  BY <1>1, <1>2, <1>3, <1>4, <1>5

LEMMA ReadEndMarkRound ==
    ASSUME Typed, DecInv, Ready, Underway, ReadEndMark, UNCHANGED encVars
    PROVE  Kept'
<1>1. PICK p \in Nat, t \in Nat :
         /\ AtBlock(p, t) /\ Whole = SubSeq(frame, p + 1, p + 4) /\ cp' = p + 4
         /\ pc = "in" /\ err = "none" /\ state = "BLOCK_SIZE"
  BY SizeRead DEF ReadEndMark
<1>2. Whole = EndMark
  BY DEF ReadEndMark
<1>3. job \in Jobs /\ frame \in Seq(Byte)
  BY ReadyFacts
<1>4. ~GoesOn(job, frame, sent, p, t)
  <2> SUFFICES ASSUME GoesOn(job, frame, sent, p, t) PROVE FALSE
    OBVIOUS
  <2>1. PICK q \in Nat, u \in Nat : IsBlock(job, frame, p, t, q, u)
    BY DEF GoesOn
  <2>2. p \in Nat /\ t \in Nat
    BY <1>1
  <2>3. \E f \in Seq(Byte) : f = SubSeq(frame, p + 1, p + 4) /\ f # EndMark
    BY <1>3, <2>1, <2>2, NextBlock, SMTT(30)
  <2> QED
    BY <1>1, <1>2, <2>3
<1>5. /\ t = sent /\ EndsAt(job, frame, sent, p) /\ HeaderKnown
      /\ out = SubSeq(job.bytes, 1, t)
  BY <1>1, <1>4, AtBlockFacts
<1>6. flg = FlgOf(job) /\ folded = Given /\ out = Given
  BY <1>5 DEF HeaderKnown, Given
<1>7. SizeHolds /\ HasContentSum(flg)
  BY <1>3, <1>6, FlagsOf DEF SizeHolds
<1>8. /\ state' = "CONTENT_CHECKSUM" /\ field' = <<>> /\ err' = err /\ pc' = pc
      /\ UNCHANGED <<frame, flg, out, folded>>
  BY <1>7 DEF ReadEndMark, GoTo, caller, written
<1>9. PICK c \in Nat : c = p + 4
  OBVIOUS
<1>10. /\ Len(frame) = c + 4 /\ c <= Len(frame)
       /\ SubSeq(frame, c + 1, c + 4) = Checksum(Given)
  BY <1>1, <1>5, <1>9 DEF EndsAt, Given
<1>11. Begun(c)'
  BY <1>1, <1>8, <1>9, <1>10, BegunNext
<1>12. Given' = Given
  BY DEF Given, encVars
<1>13. /\ folded' = Given' /\ out' = Given' /\ Len(frame') = c + 4
       /\ SubSeq(frame', c + 1, c + 4) = Checksum(Given')
  BY <1>6, <1>8, <1>10, <1>12
<1>14. Underway'
  BY <1>8, <1>11, <1>13 DEF Underway
<1> QED
  BY <1>1, <1>8, <1>14 DEF Kept

LEMMA ReadBlockSizeRound ==
    ASSUME Typed, DecInv, Ready, Underway, ReadBlockSize, UNCHANGED encVars
    PROVE  Kept'
<1>1. PICK p \in Nat, t \in Nat :
         /\ AtBlock(p, t) /\ Whole = SubSeq(frame, p + 1, p + 4) /\ cp' = p + 4
         /\ pc = "in" /\ err = "none" /\ state = "BLOCK_SIZE"
  BY SizeRead DEF ReadBlockSize
<1>2. Whole # EndMark
  BY DEF ReadBlockSize
<1>3. job \in Jobs /\ frame \in Seq(Byte) /\ max \in Nat /\ BlockMax(job.id) \in Nat
  BY ReadyFacts, DecFacts, JobFacts
<1>4. /\ GoesOn(job, frame, sent, p, t) /\ HeaderKnown
      /\ out = SubSeq(job.bytes, 1, t)
  BY <1>1, <1>2, AtBlockFacts DEF EndsAt
<1>5. PICK q \in Nat, u \in Nat : IsBlock(job, frame, p, t, q, u) /\ Stands(job, frame, sent, q, u)
  BY <1>4 DEF GoesOn
<1>6. PICK d \in Seq(Byte), f \in Seq(Byte), b \in Nat, s \in Nat :
           /\ d = Piece(job, t, u) /\ f = SubSeq(frame, p + 1, p + 4) /\ b = p + 4
           /\ Len(d) = u - t /\ t < u /\ u <= t + BlockMax(job.id)
           /\ BodyOf(d) \in Seq(Byte) /\ s = Len(BodyOf(d)) /\ s <= Len(d)
           /\ f # EndMark /\ SizeOf(f) = s
           /\ IsRaw(f) => IsStored(d)
           /\ ~IsRaw(f) => ~IsStored(d)
           /\ SubSeq(frame, b + 1, b + s) = BodyOf(d)
           /\ SubSeq(frame, b + s + 1, b + s + SumBytes(job.sums)) = SumOf(d, job.sums)
           /\ q = b + s + SumBytes(job.sums) /\ q <= Len(frame)
  BY <1>3, <1>5, NextBlock
<1>7. d = Piece(job, t, u) /\ s = Len(BodyOf(d)) /\ b = p + 4
  BY <1>6
<1>8. Whole = f
  BY <1>1, <1>6
<1>9. /\ Len(d) = u - t /\ t < u /\ u <= t + BlockMax(job.id)
      /\ s <= Len(d) /\ SizeOf(Whole) = s
      /\ IsRaw(Whole) => IsStored(d)
      /\ ~IsRaw(Whole) => ~IsStored(d)
      /\ SubSeq(frame, b + 1, b + s) = BodyOf(d)
      /\ SubSeq(frame, b + s + 1, b + s + SumBytes(job.sums)) = SumOf(d, job.sums)
      /\ q = b + s + SumBytes(job.sums) /\ q <= Len(frame)
  BY <1>6, <1>8
<1>10. ~TooLarge
  <2>1. s <= max
    BY <1>3, <1>4, <1>9, SMTT(30) DEF HeaderKnown
  <2> QED
    BY <1>3, <1>9, <2>1 DEF TooLarge
<1>11. /\ state' = "BLOCK_DATA" /\ field' = <<>> /\ err' = err /\ pc' = pc
       /\ size' = s /\ raw' = IsRaw(Whole) /\ block' = <<>> /\ max' = max
       /\ UNCHANGED <<frame, flg, out, folded>>
  BY <1>9, <1>10 DEF ReadBlockSize, GoTo, caller, written
<1>12. UNCHANGED <<job, sent>> /\ job' = job
  BY DEF encVars
<1>13. HeaderKnown'
  BY <1>4, <1>11, <1>12 DEF HeaderKnown, FlgOf
<1>14. InBlock(t, q, u)'
  BY <1>4, <1>5, <1>7, <1>8, <1>9, <1>11, <1>12, <1>13 DEF InBlock
<1>15. BodyAt(b, q, d)'
  BY <1>9, <1>11, <1>12 DEF BodyAt
<1>16. InBody(b)'
  <2>1. b <= Len(frame)
    <3>1. SumBytes(job.sums) \in Nat /\ Len(frame) \in Nat
      BY <1>3 DEF SumBytes
    <3> QED
      BY <1>9, <3>1, SMTT(30)
  <2>2. SubSeq(frame, b + 1, b) = <<>>
    BY <1>3, <2>1, NoPiece
  <2> QED
    BY <1>1, <1>7, <1>11, <2>2 DEF InBody
<1>17. Underway'
  BY <1>7, <1>11, <1>12, <1>14, <1>15, <1>16 DEF Underway
<1> QED
  BY <1>1, <1>11, <1>17 DEF Kept

\* What a block is decoded to: the text up to where it ends.
LEMMA BlockDecoded ==
    ASSUME Typed, DecInv, Ready, NEW t, NEW q, NEW u, InBlock(t, q, u)
    PROVE  \E d \in Seq(Byte), x \in Seq(Byte) :
              /\ d = Piece(job, t, u) /\ x = SubSeq(job.bytes, 1, u) /\ BodyOf(d) \in Seq(Byte)
              /\ q \in Nat /\ u \in Nat /\ q + 8 <= Len(frame)
              /\ Decoded(BodyOf(d)).err = "none" /\ Decoded(BodyOf(d)).out = x
              /\ out \o SubSeq(x, Len(out) + 1, Len(x)) = x
<1>1. /\ job \in Jobs /\ sent \in Nat /\ sent <= Len(job.bytes) /\ sent <= MaxOutput
      /\ room \in Nat /\ sent <= room
  BY DEF Ready
<1>2. job.bytes \in Seq(Byte) /\ Len(job.bytes) \in Nat /\ frame \in Seq(Byte)
  BY ReadyFacts
<1>3. /\ Stands(job, frame, sent, q, u) /\ HeaderKnown /\ out = SubSeq(job.bytes, 1, t)
      /\ t \in Nat /\ u \in Nat /\ t < u /\ u <= t + BlockMax(job.id)
      /\ size = Len(BodyOf(Piece(job, t, u)))
      /\ raw => IsStored(Piece(job, t, u))
      /\ ~raw => ~IsStored(Piece(job, t, u))
  BY DEF InBlock
<1>4. q \in Nat /\ u <= sent /\ q + 8 <= Len(frame)
  BY <1>1, <1>3, StandsNext
<1>5. PICK d : d = Piece(job, t, u)
  OBVIOUS
<1>6. t <= u /\ u <= Len(job.bytes) /\ t <= Len(job.bytes)
  BY <1>1, <1>2, <1>3, <1>4
<1>7. d \in Seq(Byte) /\ Len(d) = u - t
  BY <1>1, <1>3, <1>5, <1>6, PieceIs
<1>8. PICK x : x = SubSeq(job.bytes, 1, u)
  OBVIOUS
<1>9. out \in Seq(Byte) /\ Len(out) = t /\ x \in Seq(Byte) /\ Len(x) = u
  <2>1. PICK z \in Nat : z = 0
    OBVIOUS
  <2>2. z <= t /\ z <= u
    BY <1>3, <2>1
  <2>3. SubSeq(job.bytes, z + 1, t) \in Seq(Byte) /\ Len(SubSeq(job.bytes, z + 1, t)) = t - z
    BY <1>2, <1>3, <1>6, <2>2, StretchSize
  <2>4. SubSeq(job.bytes, z + 1, u) \in Seq(Byte) /\ Len(SubSeq(job.bytes, z + 1, u)) = u - z
    BY <1>2, <1>3, <1>6, <2>2, StretchSize
  <2> QED
    BY <1>3, <1>8, <2>1, <2>3, <2>4
<1>10. x = out \o d
  BY <1>2, <1>3, <1>5, <1>6, <1>8, StretchesJoin DEF Piece
<1>11. out \o SubSeq(x, Len(out) + 1, Len(x)) = x
  <2>1. Lies(d, x, Len(out))
    BY <1>7, <1>9, <1>10, LiesSecond
  <2>2. SubSeq(x, t + 1, t + Len(d)) = d
    BY <1>3, <1>7, <1>9, <2>1, LiesStretch
  <2>3. t + Len(d) = u
    BY <1>3, <1>7
  <2> QED
    BY <1>9, <1>10, <2>2, <2>3
<1>12. Len(out) + Len(d) = u
  BY <1>3, <1>7, <1>9
<1>13. CASE raw
  <2>1. BodyOf(d) = d /\ size = Len(d)
    BY <1>3, <1>5, <1>13 DEF BodyOf
  <2>2. PICK n : n = Len(out) + size
    OBVIOUS
  <2>3. n = u
    BY <1>12, <2>1, <2>2
  <2>4. MaxOutput \in Nat
    BY Lz4fDecAssumption
  <2>5. Overflow(n, room, MaxOutput, "OUTPUT_LIMIT") = "none"
    BY <1>1, <1>3, <1>4, <2>3, <2>4 DEF Overflow
  <2>6. Decoded(d).err = "none" /\ Decoded(d).out = out \o d
    BY <1>13, <2>2, <2>5 DEF Decoded
  <2>7. /\ BodyOf(d) \in Seq(Byte)
        /\ Decoded(BodyOf(d)).err = "none" /\ Decoded(BodyOf(d)).out = x
    BY <1>7, <1>10, <2>1, <2>6
  <2> QED
    BY <1>3, <1>4, <1>5, <1>7, <1>8, <1>9, <1>11, <2>7
<1>14. CASE ~raw
  <2>1. BodyOf(d) = Compressed(d)
    BY <1>3, <1>5, <1>14 DEF BodyOf
  <2>2. flg = FlgOf(job) /\ max >= BlockMax(job.id)
    BY <1>3 DEF HeaderKnown
  <2>3. HistoryFloor = Len(out)
    <3>1. ~Linked(flg)
      BY <1>1, <2>2, FlagsOf
    <3> QED
      BY <3>1 DEF HistoryFloor
  <2>4. PICK lo \in 0 .. Len(out) : lo = Len(out)
    BY <1>3, <1>9
  <2>5. PICK lim : lim = Len(out) + max
    OBVIOUS
  <2>6. Roomy(out, d, room, lim)
    <3>1. max \in Nat /\ BlockMax(job.id) \in Nat
      BY <1>1, DecFacts, JobFacts
    <3>2. u <= room /\ u <= lim /\ lim \in Int /\ room \in Int
      BY <1>1, <1>3, <1>4, <1>9, <2>2, <2>5, <3>1
    <3> QED
      BY <1>12, <3>2 DEF Roomy
  <2>7. PICK e \in Errors : e = "CORRUPT_DATA"
    BY DEF Errors
  <2>8. /\ Compressed(d) \in Seq(Byte)
        /\ DecBlock(Compressed(d), out, lo, room, lim, e)
                = [sp |-> Len(Compressed(d)), out |-> out \o d, err |-> "none"]
    BY <1>7, <1>9, <2>4, <2>6, <2>7, BlockRoundTrip
  <2>9. Decoded(Compressed(d)) = [sp |-> Len(Compressed(d)), out |-> out \o d, err |-> "none"]
    BY <1>14, <2>3, <2>4, <2>5, <2>7, <2>8 DEF Decoded
  <2>10. /\ BodyOf(d) \in Seq(Byte)
         /\ Decoded(BodyOf(d)).err = "none" /\ Decoded(BodyOf(d)).out = x
    BY <1>10, <2>1, <2>8, <2>9
  <2> QED
    BY <1>3, <1>4, <1>5, <1>7, <1>8, <1>9, <1>11, <2>10
<1> QED
  BY <1>13, <1>14

\* what a block is decoded to goes out;
LEMMA EmitDecodedRound ==
    ASSUME Typed, DecInv, Ready, NEW t, NEW q, NEW u, InBlock(t, q, u),
           EmitDecoded(BodyOf(Piece(job, t, u))), cp' = q, pc = "in", err = "none",
           UNCHANGED <<job, sent, frame, flg, max>>
    PROVE  Kept'
<1>1. PICK d \in Seq(Byte), x \in Seq(Byte) :
         /\ d = Piece(job, t, u) /\ x = SubSeq(job.bytes, 1, u)
         /\ q \in Nat /\ u \in Nat /\ q + 8 <= Len(frame)
         /\ Decoded(BodyOf(d)).err = "none" /\ Decoded(BodyOf(d)).out = x
         /\ out \o SubSeq(x, Len(out) + 1, Len(x)) = x
  BY BlockDecoded
<1>2. Stands(job, frame, sent, q, u) /\ HeaderKnown
  BY DEF InBlock
<1>3. flg = FlgOf(job) /\ folded = out /\ max >= BlockMax(job.id)
  BY <1>2 DEF HeaderKnown
<1>4. HasContentSum(flg)
  BY <1>3, FlagsOf DEF Ready
<1>5. EmitDecoded(BodyOf(d))
  BY <1>1
<1>6. /\ state' = "BLOCK_SIZE" /\ field' = <<>> /\ err' = err /\ pc' = pc
      /\ out' = x /\ folded' = x
  BY <1>1, <1>3, <1>4, <1>5, Zenon DEF EmitDecoded, GoTo
<1>7. HeaderKnown'
  BY <1>3, <1>6 DEF HeaderKnown, FlgOf
<1>8. AtBlock(q, u)'
  BY <1>1, <1>2, <1>6, <1>7 DEF AtBlock
<1>9. Begun(q)'
  <2>1. q <= Len(frame)
    BY <1>1, DecFacts
  <2> QED
    BY <1>1, <1>6, <2>1, BegunNext
<1>10. Underway'
  BY <1>6, <1>8, <1>9 DEF Underway
<1> QED
  BY <1>6, <1>10 DEF Kept

\* A block whose data is complete.
LEMMA BodyRead ==
    ASSUME DecInv, In("BLOCK_DATA"), NEW b \in Nat, InBody(b)
    PROVE  /\ block \o Coming(Missing) = SubSeq(frame, b + 1, b + size)
           /\ cp' = b + size /\ b + size <= Len(frame) /\ size \in Nat
<1>1. /\ frame \in Seq(Byte) /\ Len(frame) \in Nat /\ cp \in Nat /\ end \in Nat
      /\ end <= Len(frame) /\ cp <= end /\ size \in Nat
  BY DecFacts
<1>2. pc = "in" /\ state = "BLOCK_DATA" /\ cp' = cp + Missing /\ ~Short
  BY DEF In
<1>3. Missing \in Nat /\ Missing = size - Len(block) /\ Missing <= end - cp
  BY <1>2, MissingType DEF Short, Left
<1>4. block = SubSeq(frame, b + 1, cp) /\ b <= cp /\ Len(block) = cp - b
  <2>1. block = SubSeq(frame, b + 1, cp) /\ b <= cp /\ cp <= Len(frame)
    BY <1>1 DEF InBody
  <2> QED
    BY <1>1, <2>1, StretchSize
<1>5. PICK u \in Nat : u = cp + Missing
  BY <1>1, <1>3
<1>6. u = b + size /\ cp <= u /\ u <= Len(frame)
  <2>1. Missing = size - (cp - b) /\ Missing \in Nat /\ Missing <= end - cp
    BY <1>3, <1>4
  <2> QED
    BY <1>1, <1>5, <2>1
<1>7. SubSeq(frame, b + 1, cp) \o SubSeq(frame, cp + 1, u) = SubSeq(frame, b + 1, u)
  BY <1>1, <1>4, <1>6, StretchesMeet
<1>8. block \o Coming(Missing) = SubSeq(frame, b + 1, u)
  BY <1>4, <1>5, <1>7 DEF Coming
<1> QED
  BY <1>1, <1>2, <1>5, <1>6, <1>8

\* the body, from which that is decoded unless a checksum follows;
LEMMA ReadBlockDataRound ==
    ASSUME Typed, DecInv, Ready, Underway, ReadBlockData, UNCHANGED encVars
    PROVE  Kept'
<1>1. /\ state = "BLOCK_DATA" /\ pc = "in" /\ err = "none" /\ In("BLOCK_DATA")
      /\ UNCHANGED <<frame, end, max, size, raw, desc, flg, job, sent>>
      /\ block' = block \o Coming(Missing)
  BY DEF ReadBlockData, In, DecInv, caller, encVars
<1>2. PICK b, t, q, u : InBlock(t, q, u) /\ BodyAt(b, q, Piece(job, t, u)) /\ InBody(b)
  BY <1>1 DEF Underway
<1>3. PICK d : d = Piece(job, t, u)
  OBVIOUS
<1>4. /\ b \in Nat /\ q = b + size + SumBytes(job.sums)
      /\ SubSeq(frame, b + 1, b + size) = BodyOf(d)
      /\ SubSeq(frame, b + size + 1, b + size + SumBytes(job.sums)) = SumOf(d, job.sums)
  BY <1>2, <1>3 DEF BodyAt
<1>5. block' = BodyOf(d) /\ cp' = b + size /\ b + size <= Len(frame) /\ size \in Nat
  BY <1>1, <1>2, <1>4, BodyRead
<1>6. flg = FlgOf(job) /\ HeaderKnown
  BY <1>2 DEF InBlock, HeaderKnown
<1>7. CASE job.sums
  <2>1. HasBlockSums(flg)
    BY <1>6, <1>7, FlagsOf DEF Ready
  <2>2. /\ state' = "BLOCK_CHECKSUM" /\ field' = <<>> /\ err' = err /\ pc' = pc
        /\ UNCHANGED <<out, folded>>
    BY <2>1, Zenon DEF ReadBlockData, GoTo, written
  <2>3. PICK c \in Nat : c = b + size
    BY <1>4, <1>5
  <2>4. q = c + 4 /\ SubSeq(frame, c + 1, c + 4) = Checksum(block')
    <3>1. SumBytes(job.sums) = 4 /\ SumOf(d, job.sums) = Checksum(BodyOf(d))
      BY <1>7 DEF SumBytes, SumOf
    <3> QED
      BY <1>4, <1>5, <2>3, <3>1
  <2>5. Begun(c)'
    BY <1>1, <1>5, <2>2, <2>3, BegunNext
  <2>6. InBlock(t, q, u)'
    <3>1. HeaderKnown'
      BY <1>1, <1>6, <2>2 DEF HeaderKnown, FlgOf
    <3> QED
      BY <1>1, <1>2, <2>2, <3>1 DEF InBlock
  <2>7. Underway'
    BY <1>1, <1>3, <1>5, <1>7, <2>2, <2>4, <2>5, <2>6 DEF Underway
  <2> QED
    BY <1>1, <2>2, <2>7 DEF Kept
<1>8. CASE ~job.sums
  <2>1. ~HasBlockSums(flg)
    BY <1>6, <1>8, FlagsOf DEF Ready
  <2>2. EmitDecoded(block')
    BY <2>1, Zenon DEF ReadBlockData
  <2>3. EmitDecoded(BodyOf(Piece(job, t, u)))
    BY <1>3, <1>5, <2>2
  <2>4. cp' = q
    BY <1>4, <1>5, <1>8 DEF SumBytes
  <2> QED
    BY <1>1, <1>2, <2>3, <2>4, EmitDecodedRound
<1> QED
  BY <1>7, <1>8

\* the body's checksum;
LEMMA ReadBlockChecksumRound ==
    ASSUME Typed, DecInv, Ready, Underway, ReadBlockChecksum, UNCHANGED encVars
    PROVE  Kept'
<1>1. In("BLOCK_CHECKSUM") /\ "BLOCK_CHECKSUM" \in DOMAIN FieldSize /\ FieldSize["BLOCK_CHECKSUM"] = 4
  BY FieldSizes DEF ReadBlockChecksum, FieldSize
<1>2. state = "BLOCK_CHECKSUM" /\ pc = "in" /\ err = "none"
  BY <1>1, WholeType
<1>3. PICK c \in Nat : \E t, q, u :
         /\ job.sums /\ InBlock(t, q, u) /\ block = BodyOf(Piece(job, t, u)) /\ q = c + 4
         /\ SubSeq(frame, c + 1, c + 4) = Checksum(block)
         /\ Begun(c)
  BY <1>2 DEF Underway
<1>4. PICK t, q, u :
         /\ InBlock(t, q, u) /\ block = BodyOf(Piece(job, t, u)) /\ q = c + 4
         /\ SubSeq(frame, c + 1, c + 4) = Checksum(block)
         /\ Begun(c)
  BY <1>3
<1>5. Whole = SubSeq(frame, c + 1, c + FieldSize["BLOCK_CHECKSUM"])
      /\ cp' = c + FieldSize["BLOCK_CHECKSUM"]
  BY <1>1, <1>4, FieldRead
<1>6. Whole = Checksum(block) /\ cp' = q
  BY <1>1, <1>4, <1>5
<1>7. EmitDecoded(block) /\ UNCHANGED <<job, sent, frame, flg, max>>
  BY <1>6 DEF ReadBlockChecksum, caller, reading, encVars
<1>8. EmitDecoded(BodyOf(Piece(job, t, u)))
  BY <1>4, <1>7
<1> QED
  BY <1>2, <1>4, <1>6, <1>7, <1>8, EmitDecodedRound

\* the checksum of all that was decoded.
LEMMA ReadContentChecksumRound ==
    ASSUME Typed, DecInv, Ready, Underway, ReadContentChecksum, UNCHANGED encVars
    PROVE  Kept'
<1>1. In("CONTENT_CHECKSUM") /\ "CONTENT_CHECKSUM" \in DOMAIN FieldSize
      /\ FieldSize["CONTENT_CHECKSUM"] = 4
  BY FieldSizes DEF ReadContentChecksum, FieldSize
<1>2. state = "CONTENT_CHECKSUM" /\ pc = "in" /\ err = "none"
  BY <1>1, WholeType
<1>3. PICK c \in Nat : /\ folded = Given /\ out = Given
                       /\ Begun(c) /\ Len(frame) = c + 4
                       /\ SubSeq(frame, c + 1, c + 4) = Checksum(Given)
  BY <1>2 DEF Underway
<1>4. Whole = SubSeq(frame, c + 1, c + FieldSize["CONTENT_CHECKSUM"])
  BY <1>1, <1>3, FieldRead
<1>5. Whole = Checksum(folded)
  BY <1>1, <1>3, <1>4
<1>6. state' = "DONE" /\ err' = err /\ out' = out
  BY <1>5 DEF ReadContentChecksum, written
<1>7. Given' = Given
  BY DEF Given, encVars
<1>8. Underway'
  BY <1>3, <1>6, <1>7 DEF Underway
<1> QED
  BY <1>2, <1>6, <1>8 DEF Kept

\* A turn that runs out of input.
LEMMA SuspendRound ==
    ASSUME Typed, DecInv, Ready, Underway, Suspend, UNCHANGED encVars
    PROVE  Kept'
<1>1. /\ pc = "in" /\ err = "none" /\ err' = err /\ cp' = end /\ end' = end
      /\ UNCHANGED <<frame, state, flg, max, size, raw, out, folded, job, sent>>
  BY DEF Suspend, DecInv, caller, written, encVars
<1>2. /\ frame \in Seq(Byte) /\ Len(frame) \in Nat /\ cp \in Nat /\ end \in Nat
      /\ cp <= end /\ end <= Len(frame)
  BY DecFacts
<1>3. Given' = Given /\ Fresh' = Fresh
  BY <1>1 DEF Given, Fresh
<1>4. HeaderKnown => HeaderKnown'
  BY <1>1 DEF HeaderKnown, FlgOf
<1>5. ASSUME NEW t, NEW q, NEW u, InBlock(t, q, u) PROVE InBlock(t, q, u)'
  BY <1>1, <1>4, <1>5 DEF InBlock
<1>6. CASE state = "BLOCK_DATA"
  <2>1. block' = block \o SubSeq(frame, cp + 1, cp + (end - cp)) /\ field' = field
    BY <1>6 DEF Suspend, Coming, Left
  <2>2. PICK b, t, q, u : InBlock(t, q, u) /\ BodyAt(b, q, Piece(job, t, u)) /\ InBody(b)
    BY <1>6 DEF Underway
  <2>3. BodyAt(b, q, Piece(job, t, u))'
    BY <1>1, <2>2 DEF BodyAt
  <2>4. InBody(b)'
    <3>1. b \in Nat /\ b <= cp /\ block = SubSeq(frame, b + 1, cp) /\ cp + (end - cp) = end
      BY <1>2, <2>2 DEF BodyAt, InBody
    <3>2. SubSeq(frame, b + 1, cp) \o SubSeq(frame, cp + 1, end) = SubSeq(frame, b + 1, end)
      BY <1>2, <3>1, StretchesMeet
    <3>3. b <= end
      BY <1>2, <3>1
    <3>4. block' = SubSeq(frame, b + 1, end)
      BY <2>1, <3>1, <3>2
    <3> QED
      BY <1>1, <3>3, <3>4 DEF InBody
  <2>5. InBlock(t, q, u)'
    BY <1>5, <2>2
  <2>6. Underway'
    BY <1>1, <1>6, <2>3, <2>4, <2>5 DEF Underway
  <2> QED
    BY <1>1, <2>6 DEF Kept
<1>7. CASE state # "BLOCK_DATA"
  <2>1. ASSUME NEW b \in Nat, Begun(b) PROVE Begun(b)'
    BY <1>7, <2>1, SuspendBegun
  <2>2. desc' = desc
    <3>1. Left \in Nat /\ Left = end - cp
      BY <1>1, MissingType DEF Left
    <3>2. Coming(Left) \in Seq(Byte) /\ Len(Coming(Left)) = Left
      BY <3>1, ComingType
    <3>3. state \notin {"CONTENT_SIZE", "DICT_ID"}
      BY DEF Underway
    <3> QED
      BY <1>1, <3>1, <3>2, <3>3, DescribedType DEF Suspend
  <2>3. FlgOf(job)' = FlgOf(job) /\ BdOf(job)' = BdOf(job)
    BY <1>1 DEF FlgOf, BdOf
  <2>4. state' \notin {"CONTENT_SIZE", "DICT_ID", "BLOCK_DATA"}
    BY <1>1, <1>7 DEF Underway
  <2>5. state = "MAGIC" => Begun(0)' /\ desc' = <<>> /\ Fresh'
    <3>1. PICK z \in Nat : z = 0
      OBVIOUS
    <3> QED
      BY <1>3, <2>1, <2>2, <3>1 DEF Underway
  <2>6. state = "FLG" => Begun(4)' /\ desc' = <<>> /\ Fresh'
    <3>1. PICK z \in Nat : z = 4
      OBVIOUS
    <3> QED
      BY <1>3, <2>1, <2>2, <3>1 DEF Underway
  <2>7. state = "BD" => Begun(5)' /\ desc' = <<FlgOf(job)>>' /\ flg' = FlgOf(job)' /\ Fresh'
    <3>1. PICK z \in Nat : z = 5
      OBVIOUS
    <3> QED
      BY <1>1, <1>3, <2>1, <2>2, <2>3, <3>1 DEF Underway
  <2>8. state = "HC" => Begun(6)' /\ desc' = <<FlgOf(job), BdOf(job)>>' /\ HeaderKnown' /\ Fresh'
    <3>1. PICK z \in Nat : z = 6
      OBVIOUS
    <3> QED
      BY <1>3, <1>4, <2>1, <2>2, <2>3, <3>1 DEF Underway
  <2>9. state = "BLOCK_SIZE" => \E p, t : AtBlock(p, t)' /\ Begun(p)'
    <3> SUFFICES ASSUME state = "BLOCK_SIZE" PROVE \E p, t : AtBlock(p, t)' /\ Begun(p)'
      OBVIOUS
    <3>1. PICK p, t : AtBlock(p, t) /\ Begun(p)
      BY DEF Underway
    <3>2. p \in Nat
      BY <3>1, AtBlockFacts
    <3>3. AtBlock(p, t)'
      BY <1>1, <1>4, <3>1 DEF AtBlock
    <3> QED
      BY <2>1, <3>1, <3>2, <3>3
  <2>10. state = "BLOCK_CHECKSUM" =>
         \E c \in Nat : \E t, q, u :
             /\ job.sums' /\ InBlock(t, q, u)' /\ block' = BodyOf(Piece(job, t, u))' /\ q = c + 4
             /\ SubSeq(frame', c + 1, c + 4) = Checksum(block')
             /\ Begun(c)'
    <3> SUFFICES ASSUME state = "BLOCK_CHECKSUM"
                 PROVE  \E c \in Nat : \E t, q, u :
             /\ job.sums' /\ InBlock(t, q, u)' /\ block' = BodyOf(Piece(job, t, u))' /\ q = c + 4
             /\ SubSeq(frame', c + 1, c + 4) = Checksum(block')
             /\ Begun(c)'
      OBVIOUS
    <3>1. PICK c \in Nat : \E t, q, u :
         /\ job.sums /\ InBlock(t, q, u) /\ block = BodyOf(Piece(job, t, u)) /\ q = c + 4
         /\ SubSeq(frame, c + 1, c + 4) = Checksum(block)
         /\ Begun(c)
      BY DEF Underway
    <3>2. PICK t, q, u :
         /\ job.sums /\ InBlock(t, q, u) /\ block = BodyOf(Piece(job, t, u)) /\ q = c + 4
         /\ SubSeq(frame, c + 1, c + 4) = Checksum(block)
         /\ Begun(c)
      BY <3>1
    <3>3. InBlock(t, q, u)' /\ Begun(c)' /\ block' = block /\ job' = job /\ frame' = frame
      BY <1>1, <1>5, <1>7, <2>1, <3>2 DEF Suspend
    <3> QED
      BY <3>2, <3>3
  <2>11. state = "CONTENT_CHECKSUM" =>
         \E c \in Nat : /\ folded' = Given' /\ out' = Given'
                        /\ Begun(c)' /\ Len(frame') = c + 4
                        /\ SubSeq(frame', c + 1, c + 4) = Checksum(Given')
    BY <1>1, <1>3, <2>1 DEF Underway
  <2>12. state' # "DONE"
    BY <1>1 DEF DecInv
  <2>13. Underway'
    BY <1>1, <2>4, <2>5, <2>6, <2>7, <2>8, <2>9, <2>10, <2>11, <2>12 DEF Underway
  <2> QED
    BY <1>1, <2>13 DEF Kept
<1> QED
  BY <1>6, <1>7

\* Every turn keeps the decoder underway, or done with the whole text decoded.
LEMMA DecStepRound ==
    ASSUME Typed, DecInv, Ready, Underway, DecStep, UNCHANGED encVars
    PROVE  Kept'
<1>1. state \notin {"CONTENT_SIZE", "DICT_ID"}
  BY DEF Underway
<1>2. ~ReadContentSize /\ ~ReadDictId
  BY <1>1 DEF ReadContentSize, ReadDictId, In
<1> QED
  BY <1>2, ReadMagicRound, ReadFlgRound, ReadBdRound, ReadHcRound, ReadEndMarkRound,
     ReadBlockSizeRound, ReadBlockDataRound, ReadBlockChecksumRound, ReadContentChecksumRound,
     SuspendRound DEF DecStep

-----------------------------------------------------------------------------
(* A whole frame, as it is read.                                           *)

\* There is always more of the frame to come.
LEMMA UnderwayInside ==
    ASSUME Typed, DecInv, Ready, Underway, err = "none", state # "DONE"
    PROVE  cp < Len(frame)
<1>1. /\ Len(frame) \in Nat /\ frame \in Seq(Byte) /\ cp \in Nat /\ cp <= Len(frame)
      /\ size \in Nat /\ Len(block) \in Nat /\ 15 <= Len(frame)
  <2>1. cp <= Len(frame)
    <3>1. cp <= end /\ end <= Len(frame) /\ cp \in Nat /\ end \in Nat /\ Len(frame) \in Nat
      BY DecFacts
    <3> QED
      BY <3>1
  <2> QED
    BY <2>1, DecFacts, ReadyFacts
<1>2. ASSUME NEW b \in Nat, Begun(b), state \in DOMAIN FieldSize
      PROVE  cp < b + FieldSize[state]
  <2>1. b <= cp /\ field = SubSeq(frame, b + 1, cp)
    BY <1>2 DEF Begun
  <2>2. Len(field) = cp - b
    BY <1>1, <2>1, StretchSize
  <2>3. Len(field) < FieldSize[state] /\ FieldSize[state] \in Nat
    BY <1>2, FieldSizes DEF DecInv
  <2> QED
    BY <1>1, <2>2, <2>3
<1>3. CASE state = "BLOCK_DATA"
  <2>1. PICK b, t, q, u : InBlock(t, q, u) /\ BodyAt(b, q, Piece(job, t, u)) /\ InBody(b)
    BY <1>3 DEF Underway
  <2>2. q \in Nat /\ q + 8 <= Len(frame)
    BY <2>1, BlockDecoded
  <2>3. b \in Nat /\ q = b + size + SumBytes(job.sums) /\ SumBytes(job.sums) \in Nat
    BY <2>1 DEF BodyAt, SumBytes
  <2>4. b <= cp /\ block = SubSeq(frame, b + 1, cp)
    BY <2>1 DEF InBody
  <2>5. Len(block) = cp - b /\ Len(block) <= size
    BY <1>1, <1>3, <2>3, <2>4, StretchSize DEF DecInv
  <2> QED
    BY <1>1, <2>2, <2>3, <2>5
<1>4. CASE state \in {"MAGIC", "FLG", "BD", "HC"}
  <2>1. \E b \in Nat : Begun(b) /\ b <= 6
    <3>1. PICK b \in Nat : b = IF state = "MAGIC" THEN 0 ELSE IF state = "FLG" THEN 4
                               ELSE IF state = "BD" THEN 5 ELSE 6
      OBVIOUS
    <3> QED
      BY <1>4, <3>1 DEF Underway
  <2>2. PICK b \in Nat : Begun(b) /\ b <= 6
    BY <2>1
  <2>3. state \in DOMAIN FieldSize /\ FieldSize[state] <= 4
    BY <1>4, FieldSizes DEF FieldSize
  <2> QED
    BY <1>1, <1>2, <2>2, <2>3, FieldSizes
<1>5. CASE state = "BLOCK_SIZE"
  <2>1. PICK p, t : AtBlock(p, t) /\ Begun(p)
    BY <1>5 DEF Underway
  <2>2. p \in Nat /\ p + 8 <= Len(frame)
    BY <2>1, AtBlockFacts
  <2>3. state \in DOMAIN FieldSize /\ FieldSize[state] = 4
    BY <1>5, FieldSizes
  <2> QED
    BY <1>1, <1>2, <2>1, <2>2, <2>3
<1>6. CASE state = "BLOCK_CHECKSUM"
  <2>1. PICK c \in Nat : \E t, q, u :
         /\ job.sums /\ InBlock(t, q, u) /\ block = BodyOf(Piece(job, t, u)) /\ q = c + 4
         /\ SubSeq(frame, c + 1, c + 4) = Checksum(block)
         /\ Begun(c)
    BY <1>6 DEF Underway
  <2>2. PICK t, q, u : InBlock(t, q, u) /\ q = c + 4 /\ Begun(c)
    BY <2>1
  <2>3. q \in Nat /\ q + 8 <= Len(frame)
    BY <2>2, BlockDecoded
  <2>4. state \in DOMAIN FieldSize /\ FieldSize[state] = 4
    BY <1>6, FieldSizes DEF FieldSize
  <2> QED
    BY <1>1, <1>2, <2>2, <2>3, <2>4
<1>7. CASE state = "CONTENT_CHECKSUM"
  <2>1. PICK c \in Nat : Begun(c) /\ Len(frame) = c + 4
    BY <1>7 DEF Underway
  <2>2. state \in DOMAIN FieldSize /\ FieldSize[state] = 4
    BY <1>7, FieldSizes DEF FieldSize
  <2> QED
    BY <1>1, <1>2, <2>1, <2>2
<1>8. state \in {"MAGIC", "FLG", "BD", "HC", "BLOCK_SIZE", "BLOCK_DATA", "BLOCK_CHECKSUM",
                 "CONTENT_CHECKSUM"}
  BY StateNames DEF Underway, DecInv
<1> QED
  BY <1>3, <1>4, <1>5, <1>6, <1>7, <1>8

\* The decoder has what the encoder wrote, and is not to refuse it for its size.
Returning == pc # "none" /\ encVerdict = "ok" /\ frame = wire /\ sent <= MaxOutput

\* What is decoded came from the encoder: how far that is.
DecRound ==
    /\ pc # "none" => encClosed
    /\ pc = "none" => verdict = "open"
    /\ verdict # "open" => state = "CLOSED"
    /\ Returning =>
         /\ room \in Nat /\ sent <= room
         /\ err \notin {"none", "INVALID_INPUT"} => max < BlockMax(job.id)
         /\ err = "none" /\ state # "CLOSED" => Underway
         /\ pc = "out" /\ err = "none" /\ state \notin {"DONE", "CLOSED"} => cp = end
         /\ err = "none" /\ state = "CLOSED" /\ end = Len(frame) => verdict = "ok" /\ out = Given

\* A frame that is returned is ready to be decoded.
LEMMA ReadyWhen ==
    ASSUME EncInv, EncRound, DecRound, Returning
    PROVE  Ready
<1>1. job \in Jobs /\ sent \in Nat /\ sent <= Len(job.bytes)
  BY EncFacts
<1>2. Framed(job, frame, sent)
  BY DEF EncRound, Returning
<1>3. room \in Nat /\ sent <= room /\ sent <= MaxOutput
  BY DEF DecRound, Returning
<1> QED
  BY <1>1, <1>2, <1>3 DEF Ready

\* Where the decoder is does not depend on how the caller cuts the frame.
LEMMA UnderwayStays ==
    ASSUME Underway,
           UNCHANGED <<job, sent, frame, cp, state, flg, desc, field, reading, written>>
    PROVE  Underway'
<1>1. UNCHANGED <<job, sent, frame, cp, state, flg, desc, field, max, block, size, raw, out, folded>>
  BY DEF reading, written
<1>2. /\ Fresh' = Fresh /\ HeaderKnown' = HeaderKnown /\ Given' = Given
      /\ FlgOf(job)' = FlgOf(job) /\ BdOf(job)' = BdOf(job)
  BY <1>1 DEF Fresh, HeaderKnown, Given, FlgOf, BdOf
<1>3. \A b : Begun(b)' = Begun(b) /\ InBody(b)' = InBody(b)
  BY <1>1 DEF Begun, InBody
<1>4. \A p, t : AtBlock(p, t)' = AtBlock(p, t)
  BY <1>1, <1>2 DEF AtBlock
<1>5. \A t, q, u : InBlock(t, q, u)' = InBlock(t, q, u)
  BY <1>1, <1>2 DEF InBlock
<1>6. \A b, q, d : BodyAt(b, q, d)' = BodyAt(b, q, d)
  BY <1>1 DEF BodyAt
<1> QED
  BY <1>1, <1>2, <1>3, <1>4, <1>5, <1>6 DEF Underway

\* DecRound: when decoding starts, in every turn, and in the caller's steps.
LEMMA DecodeRound ==
    ASSUME Typed, EncInv, EncRound, Decode
    PROVE  DecRound'
<1>1. pc = "none" /\ encClosed /\ UNCHANGED encVars
  BY DEF Decode
<1>2. PICK f, r : Opened(f, r) /\ sent <= r /\ r \in Nat
  <2>1. job \in Jobs /\ job.bytes \in Seq(Byte) /\ sent \in Nat /\ sent <= Len(job.bytes)
        /\ Len(job.bytes) \in Nat
    BY EncFacts
  <2>2. CASE FromEncoder
    BY <2>1, <2>2 DEF FromEncoder
  <2>3. CASE FromElsewhere
    <3>1. sent = 0
      BY <2>1, <2>3, Lz4fAssumption DEF FromElsewhere
    <3>2. PICK f \in Frames : Opened(f.bytes, f.room)
      BY <2>3 DEF FromElsewhere
    <3>3. f.room \in Nat
      BY Lz4fAssumption
    <3> QED
      BY <3>1, <3>2, <3>3
  <2> QED
    BY <2>2, <2>3 DEF Decode
<1>3. /\ frame' = f /\ room' = r /\ end' = 0 /\ cp' = 0 /\ pc' = "out" /\ state' = "MAGIC"
      /\ desc' = <<>> /\ field' = <<>> /\ out' = <<>> /\ folded' = <<>>
      /\ err' = "none" /\ verdict' = "open"
  BY <1>2 DEF Opened
<1>4. encClosed' = encClosed /\ sent' = sent /\ encVerdict' = encVerdict /\ wire' = wire /\ job' = job
  BY <1>1 DEF encVars
<1>5. ASSUME Returning' PROVE Underway'
  <2>1. wire \in Seq(Byte) /\ frame' = wire
    BY <1>4, <1>5, EncFacts DEF Returning
  <2>2. PICK z \in Nat : z = 0
    OBVIOUS
  <2>3. SubSeq(wire, z + 1, z) = <<>>
    BY <2>1, <2>2, NoPiece
  <2>4. Begun(0)'
    BY <1>3, <2>1, <2>2, <2>3 DEF Begun
  <2> QED
    BY <1>3, <2>4 DEF Underway, Fresh
<1> QED
  BY <1>1, <1>2, <1>3, <1>4, <1>5 DEF DecRound

LEMMA DecStepKeeps ==
    ASSUME Typed, EncInv, DecInv, EncRound, DecRound, DecStep, pc # "none", UNCHANGED encVars
    PROVE  DecRound'
<1>1. pc = "in" /\ err = "none" /\ state \notin {"DONE", "CLOSED"}
  BY DEF DecStep, Suspend, ReadMagic, ReadFlg, ReadBd, ReadContentSize, ReadDictId, ReadHc,
     ReadEndMark, ReadBlockSize, ReadBlockData, ReadBlockChecksum, ReadContentChecksum, In, DecInv
<1>2. UNCHANGED caller
  BY DEF DecStep, Suspend, ReadMagic, ReadFlg, ReadBd, ReadContentSize, ReadDictId, ReadHc,
     ReadEndMark, ReadBlockSize, ReadBlockData, ReadBlockChecksum, ReadContentChecksum
<1>3. verdict' = "open" /\ UNCHANGED <<frame, room, end>>
  BY <1>1, <1>2 DEF DecRound, caller
<1>4. encClosed' /\ Given' = Given /\ UNCHANGED <<job, sent, wire, encVerdict>>
  BY DEF DecRound, encVars, Given
<1>5. ASSUME Returning' PROVE Kept' /\ Returning
  <2>1. Returning
    BY <1>3, <1>4, <1>5 DEF Returning
  <2>2. Ready
    BY <2>1, ReadyWhen
  <2>3. Underway
    BY <1>1, <2>1 DEF DecRound
  <2> QED
    BY <2>1, <2>2, <2>3, DecStepRound
<1>6. Kept' => (err' = "none" => state' # "CLOSED")
  BY DEF Kept, Underway
<1>7. Returning' => room' \in Nat /\ sent' <= room'
  BY <1>3, <1>4, <1>5 DEF DecRound
<1> QED
  BY <1>3, <1>4, <1>5, <1>6, <1>7 DEF DecRound, Kept

LEMMA DecNextRound ==
    ASSUME Typed, EncInv, DecInv, EncRound, DecRound, DecNext, pc # "none", UNCHANGED encVars
    PROVE  DecRound'
<1>1. encClosed' /\ Given' = Given /\ UNCHANGED <<job, sent, wire, encVerdict>>
  BY DEF DecRound, encVars, Given
<1>2. ASSUME NEW n, DecWrite(n) PROVE DecRound'
  <2>1. /\ err = "none" /\ state \notin {"DONE", "CLOSED"} /\ pc' = "in" /\ pc = "out"
        /\ UNCHANGED <<frame, room, verdict, cp, state, flg, desc, field, reading, written, err>>
    BY <1>2 DEF DecWrite
  <2>2. Returning' => Returning
    BY <1>1, <2>1 DEF Returning
  <2>3. Returning => Underway /\ room \in Nat /\ sent <= room
    BY <2>1 DEF DecRound
  <2>4. Returning' => Underway'
    BY <1>1, <2>1, <2>2, <2>3, UnderwayStays
  <2>5. verdict' = "open"
    BY <2>1 DEF DecRound
  <2> QED
    BY <1>1, <2>1, <2>2, <2>3, <2>4, <2>5 DEF DecRound
<1>3. CASE DecMisuse
  <2>1. /\ err' = "INVALID_INPUT" /\ pc' = "out" /\ pc = "out"
        /\ UNCHANGED <<frame, room, verdict, state>>
    BY <1>3 DEF DecMisuse, caller
  <2>2. Returning' => Returning
    BY <1>1, <2>1 DEF Returning
  <2> QED
    BY <1>1, <2>1, <2>2 DEF DecRound
<1>4. CASE DecStep
  BY <1>4, DecStepKeeps
<1>5. CASE DecFinish
  <2>1. /\ pc = "out" /\ pc' = "out" /\ state # "CLOSED" /\ state' = "CLOSED"
        /\ verdict' = IF err # "none" THEN err
                      ELSE IF state # "DONE" THEN "CORRUPT_DATA" ELSE "ok"
        /\ UNCHANGED <<frame, room, end, cp, max, out, err>>
    BY <1>5 DEF DecFinish, reading, written
  <2>2. Returning' => Returning
    BY <1>1, <2>1 DEF Returning
  <2>3. ASSUME Returning, err = "none", end = Len(frame) PROVE state = "DONE" /\ out = Given
    <3>1. Underway /\ Ready /\ (state # "DONE" => cp = end)
      BY <2>1, <2>3, ReadyWhen DEF DecRound
    <3>2. Len(frame) \in Nat /\ cp \in Nat
      BY DecFacts
    <3>3. state = "DONE"
      BY <2>3, <3>1, <3>2, UnderwayInside
    <3> QED
      BY <3>1, <3>3 DEF Underway
  <2>4. Returning => /\ room \in Nat /\ sent <= room
                     /\ err \notin {"none", "INVALID_INPUT"} => max < BlockMax(job.id)
    BY DEF DecRound
  <2> QED
    BY <1>1, <2>1, <2>2, <2>3, <2>4 DEF DecRound
<1> QED
  BY <1>2, <1>3, <1>4, <1>5 DEF DecNext

LEMMA DecRoundUnchanged ==
    ASSUME DecRound, UNCHANGED vars
    PROVE  DecRound'
<1>1. UNCHANGED <<job, sent, wire, encClosed, encVerdict>> /\ UNCHANGED decVars
  BY DEF vars, encVars
<1>2. UNCHANGED <<frame, room, end, cp, pc, state, flg, desc, field, max, block, size, raw,
                  out, folded, err, verdict>>
  BY <1>1 DEF decVars
<1>3. Returning' = Returning /\ Given' = Given
  BY <1>1, <1>2 DEF Returning, Given
<1>4. Underway => Underway'
  BY <1>1, <1>2, UnderwayStays DEF reading, written
<1> QED
  BY <1>1, <1>2, <1>3, <1>4 DEF DecRound

\* What goes round: the encoder's blocks, and where in them the decoder is.
THEOREM Rounds ==
    ASSUME Typed
    PROVE  Spec => [](EncInv /\ DecInv /\ EncRound /\ DecRound)
<1>1. Init => EncRound /\ DecRound
  <2>1. EncInit => EncRound
    BY EncInitRound
  <2>2. DecInit => DecRound
    BY DEF DecInit, DecRound, Returning
  <2> QED
    BY <2>1, <2>2 DEF Init
<1>2. EncInv /\ DecInv /\ EncRound /\ DecRound /\ [Next]_vars => EncRound' /\ DecRound'
  <2> SUFFICES ASSUME EncInv, DecInv, EncRound, DecRound, [Next]_vars
               PROVE  EncRound' /\ DecRound'
    OBVIOUS
  <2>1. CASE EncNext /\ UNCHANGED decVars
    <3>1. EncRound'
      BY <2>1, EncStepRound
    <3>2. pc = "none" /\ verdict = "open" /\ pc' = pc /\ verdict' = verdict
      BY <2>1, ClosedRests DEF DecRound, decVars
    <3>3. DecRound'
      BY <3>2 DEF DecRound, Returning
    <3> QED
      BY <3>1, <3>3
  <2>2. CASE Decode
    BY <2>2, DecodeRound, EncRoundUnchanged DEF Decode
  <2>3. CASE pc # "none" /\ DecNext /\ UNCHANGED encVars
    BY <2>3, DecNextRound, EncRoundUnchanged
  <2>4. CASE UNCHANGED vars
    <3>1. UNCHANGED encVars
      BY <2>4 DEF vars
    <3> QED
      BY <2>4, <3>1, DecRoundUnchanged, EncRoundUnchanged
  <2> QED
    BY <2>1, <2>2, <2>3, <2>4 DEF Next
<1> QED
  BY <1>1, <1>2, Invariance, PTL DEF Spec

\* A frame that the streaming encoder finished, handed to the streaming decoder in any
\* pieces, is accepted when all of it was written, and what was decoded is the text
\* (lz4f_enc_* against lz4f_dec_*).
THEOREM WhatWasEncodedComesBack ==
    ASSUME Typed
    PROVE  Spec => []RoundTrip
<1>1. EncInv /\ DecInv /\ EncRound /\ DecRound => RoundTrip
  <2> SUFFICES ASSUME EncInv, DecInv, EncRound, DecRound,
                      verdict # "open", encVerdict = "ok", frame = wire, end = Len(frame),
                      err # "INVALID_INPUT", Len(Given) <= MaxOutput, max >= BlockMax(job.id)
               PROVE  verdict = "ok" /\ out = Given
    BY DEF RoundTrip
  <2>1. /\ job \in Jobs /\ job.bytes \in Seq(Byte) /\ sent \in Nat /\ sent <= Len(job.bytes)
    BY EncFacts
  <2>2. Len(Given) = sent
    <3>1. PICK z \in Nat : z = 0
      OBVIOUS
    <3>2. z <= sent
      BY <2>1, <3>1
    <3>3. Len(SubSeq(job.bytes, z + 1, sent)) = sent - z
      BY <2>1, <3>2, StretchSize
    <3> QED
      BY <2>1, <3>1, <3>3 DEF Given
  <2>3. Returning /\ state = "CLOSED"
    BY <2>2 DEF Returning, DecRound
  <2>4. max \in Nat /\ BlockMax(job.id) \in Nat
    BY <2>1, DecFacts, JobFacts
  <2>5. err = "none"
    BY <2>3, <2>4 DEF DecRound
  <2> QED
    BY <2>3, <2>5 DEF DecRound
<1> QED
  BY <1>1, Rounds, PTL

-----------------------------------------------------------------------------
(* The batch encoder cuts the text into pieces.                            *)

\* Multiplication.
LEMMA TimesMonotone ==
    ASSUME NEW a \in Int, NEW b \in Int, NEW d \in Nat, a <= b
    PROVE  a * d <= b * d
<1>1. PICK c \in Nat : c = b - a
  OBVIOUS
<1>2. c * d >= 0
  OBVIOUS
<1>3. b = a + c
  BY <1>1
<1>4. b * d = a * d + c * d
  BY <1>3
<1> QED
  BY <1>2, <1>4

LEMMA OneTimesMore ==
    ASSUME NEW a \in Int, NEW d \in Nat
    PROVE  (a + 1) * d = a * d + d /\ a * d \in Int
OBVIOUS

\* So many pieces of d bytes does a text of m bytes have.
LEMMA PieceCount ==
    ASSUME NEW d \in Nat \ {0}, NEW m \in Nat, NEW n, n = (m + d - 1) \div d
    PROVE  /\ n \in Nat
           /\ \A k \in Nat : k * d < m => k < n
           /\ \A k \in Nat : m <= k * d => n <= k
           /\ \A k \in 1 .. n : (k - 1) * d < m
<1>1. PICK x \in Nat : x = m + d - 1
  OBVIOUS
<1>2. n = x \div d
  BY <1>1
<1>3. n \in Nat /\ x % d \in 0 .. d - 1 /\ n * d + (x % d) = x
  BY <1>2, Division
<1>4. n * d \in Int /\ n * d <= x /\ x < n * d + d
  BY <1>3
<1>5. ASSUME NEW k \in Nat, k * d < m PROVE k < n
  <2> SUFFICES ASSUME n <= k PROVE FALSE
    BY <1>3
  <2>1. n * d <= k * d /\ k * d \in Int
    BY <1>3, TimesMonotone
  <2> QED
    BY <1>1, <1>4, <1>5, <2>1
<1>6. ASSUME NEW k \in Nat, m <= k * d PROVE n <= k
  <2> SUFFICES ASSUME k + 1 <= n PROVE FALSE
    BY <1>3
  <2>1. (k + 1) * d <= n * d
    BY <1>3, TimesMonotone
  <2>2. (k + 1) * d = k * d + d /\ k * d \in Int
    BY OneTimesMore
  <2> QED
    BY <1>1, <1>4, <1>6, <2>1, <2>2
<1>7. ASSUME NEW k \in 1 .. n PROVE (k - 1) * d < m
  <2>1. PICK i \in Nat : i = k - 1
    BY <1>3
  <2>2. i < n
    BY <1>3, <2>1
  <2> QED
    BY <1>6, <2>1, <2>2, <1>3
<1> QED
  BY <1>3, <1>5, <1>6, <1>7

\* The pieces of a text: their number, and each of them.
LEMMA PieceNumber ==
    ASSUME NEW src \in Seq(Byte), NEW n, n = Len(Pieces(src))
    PROVE  /\ n \in Nat
           /\ \A k \in Nat : k * SmallBlock < Len(src) => k < n
           /\ \A k \in Nat : Len(src) <= k * SmallBlock => n <= k
           /\ \A k \in 1 .. n :
                /\ (k - 1) * SmallBlock < Len(src)
                /\ Pieces(src)[k] = SubSeq(src, (k - 1) * SmallBlock + 1,
                                           Min({k * SmallBlock, Len(src)}))
<1>1. SmallBlock \in Nat \ {0}
  BY Lz4FrameAssumption, SMTT(30)
<1>2. PICK m \in Nat : m = Len(src)
  OBVIOUS
<1>3. PICK l : l = (m + SmallBlock - 1) \div SmallBlock
  OBVIOUS
<1>4. /\ l \in Nat
      /\ \A k \in Nat : k * SmallBlock < m => k < l
      /\ \A k \in Nat : m <= k * SmallBlock => l <= k
      /\ \A k \in 1 .. l : (k - 1) * SmallBlock < m
  BY <1>1, <1>3, PieceCount
<1>5. Len(Pieces(src)) = l /\ \A i \in 1 .. l :
        Pieces(src)[i] = SubSeq(src, (i - 1) * SmallBlock + 1, Min({i * SmallBlock, m}))
  <2> DEFINE P(i) == SubSeq(src, (i - 1) * SmallBlock + 1, Min({i * SmallBlock, m}))
             f == [i \in 1 .. l |-> P(i)]
             S == {P(i) : i \in 1 .. l}
  <2>1. Pieces(src) = f
    BY <1>2, <1>3 DEF Pieces
  <2> HIDE DEF P
  <2>2. f \in [1 .. l -> S]
    OBVIOUS
  <2>3. \A i \in 1 .. l : f[i] = P(i)
    OBVIOUS
  <2> HIDE DEF f, S
  <2>4. Len(f) = l
    BY <1>4, <2>2, SeqOfFunction
  <2> QED
    BY <2>1, <2>3, <2>4 DEF P
<1>6. n = l
  BY <1>5
<1> QED
  BY <1>2, <1>4, <1>5, <1>6

\* The k-th of them.
PieceEnd(k, m) == IF k * SmallBlock <= m THEN k * SmallBlock ELSE m

LEMMA PieceAt ==
    ASSUME NEW src \in Seq(Byte), NEW k \in 1 .. Len(Pieces(src))
    PROVE  \E a \in Nat, b \in Nat :
              /\ a = (k - 1) * SmallBlock /\ b = PieceEnd(k, Len(src))
              /\ a < b /\ b <= a + SmallBlock /\ b <= Len(src)
              /\ Pieces(src)[k] = SubSeq(src, a + 1, b)
              /\ Pieces(src)[k] \in Seq(Byte) /\ Sized(Pieces(src)[k])
<1>1. SmallBlock \in Nat \ {0} /\ SmallBlock <= 65536
  BY Lz4FrameAssumption, SMTT(30)
<1>2. PICK m \in Nat : m = Len(src)
  OBVIOUS
<1>3. PICK n : n = Len(Pieces(src))
  OBVIOUS
<1>4. n \in Nat /\ \A i \in 1 .. n : (i - 1) * SmallBlock < m
  BY <1>2, <1>3, PieceNumber
<1>5. \A i \in 1 .. n :
        Pieces(src)[i] = SubSeq(src, (i - 1) * SmallBlock + 1, Min({i * SmallBlock, m}))
  BY <1>2, <1>3, PieceNumber
<1>6. k \in 1 .. n /\ k \in Nat /\ k - 1 \in Nat
  BY <1>3, <1>4
<1>7. PICK a \in Nat : a = (k - 1) * SmallBlock
  BY <1>1, <1>6
<1>8. k * SmallBlock = a + SmallBlock
  <2>1. PICK i \in Nat : i = k - 1
    BY <1>6
  <2>2. i + 1 = k
    BY <1>6, <2>1
  <2> QED
    BY <1>1, <1>7, <2>1, <2>2, OneTimesMore
<1>9. a < m
  BY <1>4, <1>6, <1>7
<1>10. PICK c \in Nat : c = a + SmallBlock
  BY <1>1
<1>11. PICK b \in Nat : b = PieceEnd(k, m)
  BY <1>1, <1>8 DEF PieceEnd
<1>12. a < b /\ b <= a + SmallBlock /\ b <= m
  BY <1>1, <1>8, <1>9, <1>11 DEF PieceEnd
<1>13. Min({c, m}) = b
  <2>1. Min({c, m}) \in {c, m} /\ Min({c, m}) <= c /\ Min({c, m}) <= m
    <3>1. c \in Int /\ m \in Int
      OBVIOUS
    <3> QED
      BY <3>1, MinOfTwo
  <2> QED
    BY <1>8, <1>10, <1>11, <2>1 DEF PieceEnd
<1>14. Pieces(src)[k] = SubSeq(src, a + 1, b)
  BY <1>5, <1>6, <1>7, <1>8, <1>10, <1>13
<1>15. PICK d : d = SubSeq(src, a + 1, b)
  OBVIOUS
<1>16. d \in Seq(Byte) /\ Len(d) = b - a
  <2>1. a <= b /\ b <= Len(src)
    BY <1>2, <1>12
  <2> QED
    BY <1>15, <2>1, StretchSize
<1>17. Sized(d)
  <2>1. b - a <= 65536
    BY <1>1, <1>12
  <2> QED
    BY <1>16, <2>1, SMT DEF Sized
<1> QED
  BY <1>2, <1>7, <1>11, <1>12, <1>14, <1>15, <1>16, <1>17

-----------------------------------------------------------------------------
FrameStates == [err : {"none", "BUFFER_TOO_SMALL"}, wire : Seq(Byte)]

\* The batch encoder writes no block checksums: it is the stream's with the option off.
LEMMA NoSums ==
    ASSUME NEW sums, ~sums, NEW p, NEW d, NEW r, NEW id
    PROVE  /\ BlockBytes(p, d, FALSE) = BlockBytes(p, d, sums)
           /\ Fits(p, d, FALSE, r) => Fits(p, d, sums, r)
           /\ Fits(p, d, sums, r) => Fits(p, d, FALSE, r)
           /\ Header(id, FALSE) = Header(id, sums)
  BY DEF BlockBytes, Fits, SumBytes, Header

\* A stage of the batch encoder.
LEMMA AddedType ==
    ASSUME Typed, NEW f \in FrameStates, NEW d \in Seq(Byte), Sized(d), NEW cap \in Nat
    PROVE  Added(f, d, cap) \in FrameStates
<1>1. TooSmall \in FrameStates
  BY DEF TooSmall, FrameStates
<1>2. PICK r \in BOOLEAN : ~r
  OBVIOUS
<1>3. Written(d, r) \in Seq(Byte)
  BY <1>2, WrittenIs
<1>4. BlockBytes(Compressed(d), d, FALSE) = Written(d, r)
  BY <1>2, NoSums DEF Written
<1>5. f.wire \in Seq(Byte) /\ f.err \in {"none", "BUFFER_TOO_SMALL"}
  BY DEF FrameStates
<1>6. PICK w : w = f.wire \o Written(d, r)
  OBVIOUS
<1>7. w \in Seq(Byte)
  BY <1>3, <1>5, <1>6, Behind
<1>8. [f EXCEPT !.wire = w] \in FrameStates
  BY <1>7 DEF FrameStates
<1>9. [f EXCEPT !.wire = @ \o BlockBytes(Compressed(d), d, FALSE)] \in FrameStates
  BY <1>4, <1>6, <1>8
<1> QED
  BY <1>1, <1>9 DEF Added

-----------------------------------------------------------------------------
(* The stages of the batch encoder.                                        *)

\* A stretch of a prefix.
Begins(x, text, m) == m \in Nat /\ m <= Len(text) /\ x = SubSeq(text, 1, m)
Within(a, b, m)    == a \in Nat /\ b \in Nat /\ a <= b /\ b <= m
AgreeOn(x, y, a, b) == SubSeq(x, a + 1, b) = SubSeq(y, a + 1, b)

LEMMA StretchOfPrefix ==
    ASSUME NEW text \in Seq(Byte), NEW m, NEW x, Begins(x, text, m), NEW a, NEW b, Within(a, b, m)
    PROVE  AgreeOn(x, text, a, b)
<1>0. a \in Nat /\ b \in Nat /\ a <= b /\ b <= m /\ m \in Nat
  BY DEF Within, Begins
<1>1. PICK z \in Nat : z = 0
  OBVIOUS
<1>2. x = SubSeq(text, 1, m) /\ m <= Len(text)
  BY DEF Begins
<1>3. PICK y : y = SubSeq(text, m + 1, Len(text))
  OBVIOUS
<1>4. Len(text) \in Nat
  OBVIOUS
<1>5. x \in Seq(Byte) /\ Len(x) = m
  <2>1. z <= m
    BY <1>0, <1>1
  <2>2. SubSeq(text, z + 1, m) \in Seq(Byte) /\ Len(SubSeq(text, z + 1, m)) = m - z
    BY <1>0, <1>2, <2>1, StretchSize
  <2> QED
    BY <1>0, <1>1, <1>2, <2>2
<1>6. y \in Seq(Byte)
  BY <1>0, <1>2, <1>3, <1>4, StretchSize, SMTT(30)
<1>7. x \o y = text
  <2>1. SubSeq(text, 1, m) \o SubSeq(text, m + 1, Len(text)) = SubSeq(text, 1, Len(text))
    <3>1. PICK n \in Nat : n = Len(text)
      OBVIOUS
    <3>2. m <= n /\ n <= Len(text)
      BY <1>0, <1>2, <3>1
    <3>3. SubSeq(text, 1, m) \o SubSeq(text, m + 1, n) = SubSeq(text, 1, n)
      BY <1>0, <3>2, StretchesJoin
    <3> QED
      BY <1>0, <3>1, <3>3
  <2>2. SubSeq(text, 1, Len(text)) = text
    <3>1. Lies(text, text, z)
      BY <1>0, <1>1 DEF Lies
    <3>2. SubSeq(text, z + 1, z + Len(text)) = text
      BY <1>0, <3>1, LiesStretch
    <3> QED
      BY <1>0, <1>1, <1>4, <3>2
  <2> QED
    BY <1>0, <1>2, <1>3, <2>1, <2>2, Zenon
<1>8. PICK n \in Nat : n = b - a
  BY <1>0
<1>9. PICK d : d = SubSeq(x, a + 1, b)
  OBVIOUS
<1>10. d \in Seq(Byte) /\ Len(d) = n
  BY <1>0, <1>5, <1>8, <1>9, StretchSize
<1>11. Lies(d, x, a)
  <2>1. d = SubSeq(x, a + 1, a + n) /\ a + n <= Len(x)
    BY <1>0, <1>5, <1>8, <1>9
  <2>2. \A i \in a + 1 .. a + n : x[i] \in Byte
    BY <1>0, <1>5, <2>1
  <2>3. \A i \in 1 .. n : d[i] = x[a + 1 + i - 1]
    BY <1>0, <1>5, <2>1, <2>2, SubSeqProperties
  <2>4. \A i \in 1 .. n : d[i] = x[a + i]
    <3>1. \A i \in 1 .. n : a + 1 + i - 1 = a + i
      BY <1>0
    <3> QED
      BY <1>0, <2>3, <3>1
  <2> QED
    BY <1>0, <1>10, <2>1, <2>4 DEF Lies
<1>12. Lies(d, text, a)
  BY <1>0, <1>5, <1>6, <1>7, <1>10, <1>11, LiesFirst
<1>13. SubSeq(text, a + 1, a + Len(d)) = d
  BY <1>0, <1>10, <1>12, LiesStretch
<1> QED
  BY <1>0, <1>2, <1>8, <1>9, <1>10, <1>13 DEF AgreeOn

-----------------------------------------------------------------------------
\* The stages of the batch encoder.
IsBatch(u, src, cap) ==
    /\ u[0] = [err |-> "none", wire |-> Header(4, FALSE)]
    /\ \A k \in 1 .. Len(Pieces(src)) : u[k] = Added(u[k - 1], Pieces(src)[k], cap)

\* What it makes of the last one.
Ended(f, src) == IF f.err # "none" THEN f ELSE [f EXCEPT !.wire = @ \o EndMark \o Checksum(src)]

\* Its recursion over the pieces is a sequence of stages, each made of the one before.
LEMMA FrameUnfolded ==
    ASSUME Typed, NEW j \in Jobs, j.id = 4, ~j.sums, NEW src \in Seq(Byte)
    PROVE  \E u : /\ IsBatch(u, src, j.cap)
                  /\ Frame(src, j.cap) = Ended(u[Len(Pieces(src))], src)
<1> DEFINE p == Pieces(src)
           n == Len(p)
           first == [err |-> "none", wire |-> Header(4, FALSE)]
           E(g) == g = [k \in 0 .. n |-> IF k = 0 THEN first ELSE Added(g[k - 1], p[k], j.cap)]
           upto == CHOOSE g : E(g)
           step == [k \in 1 .. n |-> [f \in FrameStates |-> Added(f, p[k], j.cap)]]
<1>1. n \in Nat /\ \A k \in 1 .. n : p[k] \in Seq(Byte) /\ Sized(p[k])
  <2>1. n \in Nat
    BY PieceNumber
  <2> QED
    BY <2>1, PieceAt
<1>2. j.cap \in Nat /\ ~(j.cap < 19)
  <2>1. j.cap \in Nat /\ j.cap >= 19
    BY Lz4fEncAssumption
  <2> QED
    BY <2>1
<1>3. first \in FrameStates
  <2>1. Header(4, FALSE) = Header(j.id, j.sums)
    BY NoSums
  <2>2. Header(j.id, j.sums) \in Seq(Byte)
    BY HeaderType
  <2> QED
    BY <2>1, <2>2 DEF FrameStates
<1> HIDE DEF p, n
<1>4. step \in StepsIn(FrameStates, n)
  <2>1. ASSUME NEW k \in 1 .. n, NEW f \in FrameStates PROVE Added(f, p[k], j.cap) \in FrameStates
    BY <1>1, <1>2, AddedType
  <2> QED
    BY <2>1, Zenon DEF StepsIn
<1>5. PICK g : IsRun(g, FrameStates, n, first, step)
  <2> HIDE DEF first, step
  <2> QED
    BY <1>1, <1>3, <1>4, Iteration
<1>6. ASSUME NEW k \in 1 .. n PROVE g[k] = Added(g[k - 1], p[k], j.cap)
  <2>1. k - 1 \in 0 .. n
    BY <1>1
  <2>2. g[k - 1] \in FrameStates /\ g[k] = step[k][g[k - 1]]
    BY <1>5, <2>1 DEF IsRun
  <2> QED
    BY <2>2
<1>7. E(g)
  <2> HIDE DEF first
  <2>1. g = [k \in 0 .. n |-> g[k]]
    BY <1>5 DEF IsRun
  <2>2. ASSUME NEW k \in 0 .. n
        PROVE  g[k] = IF k = 0 THEN first ELSE Added(g[k - 1], p[k], j.cap)
    <3>1. CASE k = 0
      BY <1>5, <3>1 DEF IsRun
    <3>2. CASE k # 0
      <4>1. k \in 1 .. n
        BY <1>1, <3>2
      <4> QED
        BY <1>6, <3>2, <4>1
    <3> QED
      BY <3>1, <3>2
  <2> QED
    BY <2>1, <2>2, Zenon
<1>8. E(upto)
  <2> HIDE DEF E
  <2> QED
    BY <1>7, Zenon
<1>9. IsBatch(upto, src, j.cap)
  <2> HIDE DEF upto
  <2>1. \A k \in 0 .. n : upto[k] = IF k = 0 THEN first ELSE Added(upto[k - 1], p[k], j.cap)
    <3> HIDE DEF first
    <3> QED
      BY <1>8, Zenon
  <2>2. 0 \in 0 .. n /\ \A k \in 1 .. n : k \in 0 .. n /\ k # 0
    BY <1>1
  <2>3. upto[0] = first
    <3> HIDE DEF first
    <3> QED
      BY <2>1, <2>2
  <2>4. \A k \in 1 .. n : upto[k] = Added(upto[k - 1], p[k], j.cap)
    <3> HIDE DEF first
    <3> QED
      BY <2>1, <2>2, Zenon
  <2> QED
    BY <2>3, <2>4 DEF IsBatch, n, p
<1>10. Frame(src, j.cap) = Ended(upto[n], src)
  <2> HIDE DEF upto, E, first, step
  <2> DEFINE F == Frame(src, j.cap)
  <2>1. Frame(src, j.cap) = IF j.cap < 19 THEN TooSmall
                            ELSE IF upto[n].err # "none" THEN upto[n]
                            ELSE [upto[n] EXCEPT !.wire = @ \o EndMark \o Checksum(src)]
    BY Zenon DEF Frame, upto, E, first, n, p
  <2> QED
    BY <1>2, <2>1, Zenon DEF Ended
<1> QED
  BY <1>9, <1>10 DEF n, p

\* A sequence of numbers that grows by d each time.
GrowsBy(d, n, to) == to[0] = 0 /\ \A k \in 1 .. n : to[k] = to[k - 1] + d

\* Its n-th member is n times d.
LEMMA EvenPlaces ==
    ASSUME NEW n \in Nat, NEW to, NEW d \in Nat, GrowsBy(d, n, to)
    PROVE  \A k \in 0 .. n : to[k] = k * d
<1> DEFINE T == {k \in 0 .. n : to[k] = k * d}
<1>1. 0 \in T
  <2>1. 0 * d = 0
    OBVIOUS
  <2> QED
    BY <2>1 DEF GrowsBy
<1>2. ASSUME NEW k \in 0 .. n - 1, k \in T PROVE k + 1 \in T
  <2>1. k + 1 \in 1 .. n /\ (k + 1) - 1 = k
    OBVIOUS
  <2>2. to[k + 1] = to[k] + d
    BY <2>1 DEF GrowsBy
  <2>3. (k + 1) * d = k * d + d
    BY OneTimesMore
  <2> QED
    BY <1>2, <2>1, <2>2, <2>3
<1>3. 0 .. n \subseteq T
  <2> HIDE DEF T
  <2> QED
    BY <1>1, <1>2, BoundedInductive
<1> QED
  BY <1>3

\* The first n pieces of src are what lies between the places of to.
AreBetween(src, j, n, to) ==
    \A k \in 1 .. n : k <= Len(Pieces(src)) /\ Pieces(src)[k] = Piece(j, to[k - 1], to[k])

Covers(j, n, to, m) == to[n] <= m /\ m <= Len(j.bytes) /\ (Even(j, n, to) \/ to[n] = m)

Splits(src, j, n, to, m) ==
    /\ AreBetween(src, j, n, to)
    /\ to[n] = m => Len(Pieces(src)) = n
    /\ Even(j, n, to) => to[n] = n * SmallBlock
    /\ src \in Seq(Byte) /\ Len(src) = m

\* The encoder's blocks are the pieces that the batch encoder cuts the text into.
LEMMA BlockPieces ==
    ASSUME Typed, NEW j \in Jobs, j.id = 4, NEW v, NEW n, NEW at, NEW to, Blocks(j, v, n, at, to),
           NEW m \in Nat, NEW src,
           Begins(src, j.bytes, m), Covers(j, n, to, m)
    PROVE  Splits(src, j, n, to, m)
<1>0. src = SubSeq(j.bytes, 1, m)
  BY DEF Begins
<1>1. /\ n \in Nat /\ to \in [0 .. n -> Nat] /\ to[0] = 0 /\ at \in [0 .. n -> Nat]
      /\ \A k \in 1 .. n : IsBlock(j, v, at[k - 1], to[k - 1], at[k], to[k])
      /\ Even(j, n - 1, to) /\ \A k \in 0 .. n : to[k] <= to[n]
  BY SMTT(30) DEF Blocks
<1>2. SmallBlock \in Nat \ {0} /\ BlockMax(j.id) = SmallBlock /\ j.bytes \in Seq(Byte)
      /\ Len(j.bytes) \in Nat
  <2>1. SmallBlock \in Nat \ {0}
    BY Lz4FrameAssumption, SMTT(30)
  <2>2. j.bytes \in Seq(Byte)
    BY JobFacts
  <2> QED
    BY <2>1, <2>2 DEF BlockMax
<1>3. src \in Seq(Byte) /\ Len(src) = m
  <2>1. PICK z \in Nat : z = 0
    OBVIOUS
  <2>2. z <= m /\ m <= Len(j.bytes)
    BY <2>1 DEF Covers
  <2>3. SubSeq(j.bytes, z + 1, m) \in Seq(Byte) /\ Len(SubSeq(j.bytes, z + 1, m)) = m - z
    BY <1>2, <2>2, StretchSize
  <2> QED
    BY <1>0, <2>1, <2>3
<1>4. Even(j, n, to) => to[n] = n * SmallBlock
  <2> SUFFICES ASSUME Even(j, n, to) PROVE to[n] = n * SmallBlock
    OBVIOUS
  <2>1. GrowsBy(SmallBlock, n, to)
    BY <1>1, <1>2 DEF Even, GrowsBy
  <2>2. \A k \in 0 .. n : to[k] = k * SmallBlock
    BY <1>1, <1>2, <2>1, EvenPlaces
  <2> QED
    BY <1>1, <2>2
<1>5. ASSUME NEW k \in 1 .. n PROVE to[k - 1] = (k - 1) * SmallBlock
  <2>1. \A i \in 1 .. n - 1 : to[i] = to[i - 1] + SmallBlock
    BY <1>1, <1>2 DEF Even
  <2>2. PICK l \in Nat : l = n - 1
    BY <1>1
  <2>3. GrowsBy(SmallBlock, l, to)
    BY <1>1, <2>1, <2>2 DEF GrowsBy
  <2>4. \A i \in 0 .. l : to[i] = i * SmallBlock
    BY <1>1, <1>2, <2>3, EvenPlaces, ZenonT(40)
  <2>5. k - 1 \in 0 .. l
    BY <1>1, <2>2
  <2> QED
    BY <2>4, <2>5
<1>6. ASSUME NEW k \in 1 .. n
      PROVE  /\ k \in Nat /\ to[k - 1] \in Nat /\ to[k] \in Nat /\ to[k - 1] < to[k] /\ to[k] <= m
             /\ k * SmallBlock = to[k - 1] + SmallBlock /\ to[k] <= k * SmallBlock
  <2>1. k - 1 \in 0 .. n /\ k \in 0 .. n
    BY <1>1
  <2>2. to[k - 1] \in Nat /\ to[k] \in Nat /\ to[k] <= to[n] /\ to[n] \in Nat
    BY <1>1, <2>1
  <2>3. to[k] <= m
    BY <2>2 DEF Covers
  <2>4. to[k - 1] < to[k] /\ to[k] <= to[k - 1] + SmallBlock
    BY <1>1, <1>2 DEF IsBlock
  <2>5. k * SmallBlock = to[k - 1] + SmallBlock
    <3>1. PICK i \in Nat : i = k - 1
      BY <1>1
    <3>2. i + 1 = k
      BY <3>1
    <3> QED
      BY <1>2, <1>5, <3>1, <3>2, OneTimesMore
  <2> QED
    BY <2>2, <2>3, <2>4, <2>5
<1>7. ASSUME NEW k \in 1 .. n PROVE to[k] = PieceEnd(k, m)
  <2>1. CASE k = n
    <3>1. CASE Even(j, n, to)
      BY <1>4, <1>6, <2>1, <3>1 DEF PieceEnd
    <3>2. CASE to[n] = m
      BY <1>2, <1>6, <2>1, <3>2 DEF PieceEnd
    <3> QED
      BY <3>1, <3>2 DEF Covers
  <2>2. CASE k # n
    <3>1. k + 1 \in 1 .. n /\ (k + 1) - 1 = k
      BY <1>1, <2>2
    <3>2. to[k] = k * SmallBlock
      BY <1>5, <3>1
    <3> QED
      BY <1>6, <3>2 DEF PieceEnd
  <2> QED
    BY <2>1, <2>2
<1>8. PICK l \in Nat : l = Len(Pieces(src))
  BY <1>3, PieceNumber
<1>9. ASSUME NEW k \in 1 .. n
      PROVE  k <= l /\ Pieces(src)[k] = Piece(j, to[k - 1], to[k])
  <2>1. PICK i \in Nat : i = k - 1
    BY <1>1
  <2>2. i * SmallBlock < m
    <3>1. to[k - 1] < m
      BY <1>6
    <3> QED
      BY <1>5, <2>1, <3>1
  <2>3. i < l
    BY <1>3, <1>8, <2>2, PieceNumber
  <2>4. k \in 1 .. l
    BY <1>6, <1>8, <2>1, <2>3
  <2>5. PICK a \in Nat, b \in Nat :
              /\ a = (k - 1) * SmallBlock /\ b = PieceEnd(k, Len(src))
              /\ a < b /\ b <= Len(src)
              /\ Pieces(src)[k] = SubSeq(src, a + 1, b)
    BY <1>3, <1>8, <2>4, PieceAt
  <2>6. a = to[k - 1] /\ b = to[k] /\ a <= b /\ b <= m
    BY <1>3, <1>5, <1>7, <2>5
  <2>7. m <= Len(j.bytes)
    BY DEF Covers
  <2>8. SubSeq(src, a + 1, b) = SubSeq(j.bytes, a + 1, b)
    <3>1. Begins(src, j.bytes, m) /\ Within(a, b, m) /\ j.bytes \in Seq(Byte)
      BY <1>2, <2>6, <2>7 DEF Begins, Within
    <3>2. AgreeOn(src, j.bytes, a, b)
      BY <3>1, StretchOfPrefix
    <3> QED
      BY <3>2 DEF AgreeOn
  <2>9. Pieces(src)[k] = SubSeq(j.bytes, a + 1, b)
    BY <2>5, <2>8
  <2>10. SubSeq(j.bytes, a + 1, b) = Piece(j, to[k - 1], to[k])
    BY <2>6 DEF Piece
  <2>11. k <= l
    BY <2>4
  <2> QED
    BY <2>9, <2>10, <2>11
<1>10. AreBetween(src, j, n, to)
  BY <1>8, <1>9 DEF AreBetween
<1>11. to[n] = m => l = n
  <2> SUFFICES ASSUME to[n] = m PROVE l = n
    OBVIOUS
  <2>1. m <= n * SmallBlock
    <3>1. CASE n = 0
      <4>1. 0 * SmallBlock = 0
        BY <1>2
      <4> QED
        BY <1>1, <3>1, <4>1
    <3>2. CASE n # 0
      <4>1. n \in 1 .. n
        BY <1>1, <3>2
      <4> QED
        BY <1>6, <4>1
    <3> QED
      BY <3>1, <3>2
  <2>2. l <= n
    <3>1. \A k \in Nat : Len(src) <= k * SmallBlock => Len(Pieces(src)) <= k
      BY <1>3, PieceNumber
    <3> QED
      BY <1>1, <1>3, <1>8, <2>1, <3>1
  <2>3. n <= l
    <3>1. n \in 1 .. n => n <= l
      BY <1>9
    <3> QED
      BY <1>1, <1>8, <3>1
  <2> QED
    BY <1>1, <1>8, <2>2, <2>3
<1> QED
  BY <1>3, <1>4, <1>8, <1>10, <1>11 DEF Splits

\* A stage with more on the wire.
WithWire(f, y) == [f EXCEPT !.wire = y]

LEMMA MoreWire ==
    ASSUME NEW e, NEW x, NEW y
    PROVE  WithWire([err |-> e, wire |-> x], y) = [err |-> e, wire |-> y]
<1> DEFINE r == [[err |-> e, wire |-> x] EXCEPT !.wire = y]
<1>1. r \in [err : {e}, wire : {y}]
  OBVIOUS
<1> HIDE DEF r
<1>2. r = [err |-> e, wire |-> y]
  BY <1>1
<1> QED
  BY <1>2 DEF r, WithWire

\* A piece that fits.
LEMMA AddedFits ==
    ASSUME NEW x, NEW d, NEW cap, Fits(Compressed(d), d, FALSE, cap - Len(x)),
           NEW w, w = BlockBytes(Compressed(d), d, FALSE)
    PROVE  Added([err |-> "none", wire |-> x], d, cap) = [err |-> "none", wire |-> x \o w]
<1>1. PICK f : f = [err |-> "none", wire |-> x]
  OBVIOUS
<1>2. f.err = "none" /\ f.wire = x
  BY <1>1
<1>3. Added(f, d, cap) = WithWire(f, f.wire \o w)
  BY <1>2, Zenon DEF Added, WithWire
<1>4. WithWire(f, x \o w) = [err |-> "none", wire |-> x \o w]
  BY <1>1, MoreWire
<1> QED
  BY <1>1, <1>2, <1>3, <1>4

\* Behind each of the encoder's blocks the batch encoder has written as much.
LEMMA BatchBlocks ==
    ASSUME Typed, NEW j \in Jobs, j.id = 4, ~j.sums, NEW v \in Seq(Byte), NEW n, NEW at, NEW to,
           Blocks(j, v, n, at, to), NEW src \in Seq(Byte), AreBetween(src, j, n, to),
           NEW u, IsBatch(u, src, j.cap)
    PROVE  \A k \in 0 .. n : u[k] = [err |-> "none", wire |-> SubSeq(v, 1, at[k])]
<1>1. /\ n \in Nat /\ to \in [0 .. n -> Nat] /\ at[0] = 7 /\ at \in [0 .. n -> Nat]
      /\ \A k \in 1 .. n : IsBlock(j, v, at[k - 1], to[k - 1], at[k], to[k])
      /\ Lies(Header(j.id, j.sums), v, 0)
  BY DEF Blocks
<1> DEFINE AsWritten(k) == u[k] = [err |-> "none", wire |-> SubSeq(v, 1, at[k])]
           T == {k \in 0 .. n : AsWritten(k)}
<1>2. 0 \in T
  <2>1. PICK h \in Seq(Byte) : h = Header(j.id, j.sums) /\ Len(h) = 7
    BY HeaderType
  <2>2. PICK z \in Nat : z = 0
    OBVIOUS
  <2>3. SubSeq(v, z + 1, z + Len(h)) = h
    BY <1>1, <2>1, <2>2, LiesStretch
  <2>4. SubSeq(v, 1, at[0]) = h
    BY <1>1, <2>1, <2>2, <2>3
  <2>5. Header(4, FALSE) = h
    BY <2>1, NoSums
  <2>6. u[0] = [err |-> "none", wire |-> Header(4, FALSE)]
    BY DEF IsBatch
  <2>7. AsWritten(0)
    BY <2>4, <2>5, <2>6
  <2> HIDE DEF AsWritten
  <2> QED
    BY <1>1, <2>7
<1>3. ASSUME NEW k \in 0 .. n - 1, k \in T PROVE k + 1 \in T
  <2>1. PICK i \in 1 .. n : i = k + 1
    BY <1>1
  <2>2. i - 1 = k /\ k \in 0 .. n /\ i \in 0 .. n
    BY <1>1, <2>1
  <2>3. PICK d : d = Piece(j, to[k], to[i])
    OBVIOUS
  <2>4. i <= Len(Pieces(src)) /\ Pieces(src)[i] = d
    BY <2>2, <2>3 DEF AreBetween
  <2>5. PICK l \in Nat : l = Len(Pieces(src))
    BY PieceNumber
  <2>6. u[i] = Added(u[k], d, j.cap)
    <3>1. i \in 1 .. Len(Pieces(src))
      BY <2>1, <2>4, <2>5
    <3>2. u[i] = Added(u[i - 1], Pieces(src)[i], j.cap)
      BY <3>1 DEF IsBatch
    <3> QED
      BY <2>2, <2>4, <3>2
  <2>7. PICK p \in Nat, q \in Nat, t \in Nat : p = at[k] /\ q = at[i] /\ t = to[k]
    BY <1>1, <2>2
  <2>8. IsBlock(j, v, p, t, q, to[i])
    BY <1>1, <2>2, <2>7
  <2>9. PICK w : w = Written(d, j.sums)
    OBVIOUS
  <2>10. /\ Lies(w, v, p) /\ q = p + Len(w)
         /\ Fits(Compressed(d), d, j.sums, j.cap - p)
    BY <2>3, <2>7, <2>8, <2>9 DEF IsBlock
  <2>11. d \in Seq(Byte) /\ Sized(d)
    <3>1. i \in 1 .. Len(Pieces(src))
      BY <2>1, <2>4, <2>5
    <3> QED
      BY <2>4, <3>1, PieceAt
  <2>12. w \in Seq(Byte) /\ Len(w) \in Nat
    <3>1. j.sums \in BOOLEAN
      BY JobFacts
    <3> QED
      BY <2>9, <2>11, <3>1, WrittenIs, SMTT(30)
  <2>13. p <= q /\ q <= Len(v) /\ p <= Len(v) /\ Len(v) \in Nat
    BY <2>7, <2>10, <2>12 DEF Lies
  <2>14. SubSeq(v, 1, p) \o w = SubSeq(v, 1, q)
    <3>1. SubSeq(v, p + 1, q) = w
      BY <2>10, <2>12, LiesStretch
    <3>2. SubSeq(v, 1, p) \o SubSeq(v, p + 1, q) = SubSeq(v, 1, q)
      BY <2>13, StretchesJoin
    <3> QED
      BY <3>1, <3>2
  <2>15. Len(SubSeq(v, 1, p)) = p
    <3>1. PICK z \in Nat : z = 0
      OBVIOUS
    <3>2. z <= p
      BY <3>1
    <3>3. Len(SubSeq(v, z + 1, p)) = p - z
      BY <2>13, <3>2, StretchSize
    <3> QED
      BY <3>1, <3>3
  <2>16. BlockBytes(Compressed(d), d, FALSE) = w
    BY <2>9, NoSums DEF Written
  <2>17. Fits(Compressed(d), d, FALSE, j.cap - p)
    BY <2>10, NoSums
  <2>18. u[k] = [err |-> "none", wire |-> SubSeq(v, 1, p)]
    BY <1>3, <2>7
  <2>19. PICK x : x = SubSeq(v, 1, p)
    OBVIOUS
  <2>20. u[i] = [err |-> "none", wire |-> x \o w]
    <3>1. Fits(Compressed(d), d, FALSE, j.cap - Len(x)) /\ w = BlockBytes(Compressed(d), d, FALSE)
      BY <2>15, <2>16, <2>17, <2>19
    <3>2. Added([err |-> "none", wire |-> x], d, j.cap) = [err |-> "none", wire |-> x \o w]
      BY <3>1, AddedFits
    <3> QED
      BY <2>6, <2>18, <2>19, <3>2
  <2>21. AsWritten(i)
    BY <2>7, <2>14, <2>19, <2>20
  <2> HIDE DEF AsWritten
  <2> QED
    BY <2>1, <2>2, <2>21
<1>4. 0 .. n \subseteq T
  <2> HIDE DEF T
  <2> QED
    BY <1>1, <1>2, <1>3, BoundedInductive
<1> QED
  BY <1>4

-----------------------------------------------------------------------------
(* The streaming encoder against the batch one.                            *)

\* An error is the end of it.
LEMMA TooSmallStays ==
    ASSUME NEW src \in Seq(Byte), NEW cap, NEW u, IsBatch(u, src, cap),
           NEW i \in 1 .. Len(Pieces(src)), u[i] = TooSmall
    PROVE  u[Len(Pieces(src))] = TooSmall
<1>1. PICK n \in Nat : n = Len(Pieces(src))
  BY PieceNumber
<1> DEFINE T == {k \in 0 .. n : k >= i => u[k] = TooSmall}
<1>2. 0 \in T
  BY <1>1
<1>3. ASSUME NEW k \in 0 .. n - 1, k \in T PROVE k + 1 \in T
  <2>1. PICK l \in 1 .. n : l = k + 1
    OBVIOUS
  <2>2. l - 1 = k /\ l \in 0 .. n
    BY <2>1
  <2>3. u[l] = Added(u[k], Pieces(src)[l], cap)
    BY <1>1, <2>2 DEF IsBatch
  <2>4. CASE k >= i
    <3>1. u[k] = TooSmall
      BY <1>3, <2>4
    <3>2. u[k].err # "none"
      BY <3>1 DEF TooSmall
    <3>3. u[l] = u[k]
      BY <2>3, <3>2 DEF Added
    <3> QED
      BY <2>1, <2>2, <3>1, <3>3
  <2>5. CASE k < i
    <3>1. l >= i => l = i
      BY <1>1, <2>1, <2>5
    <3>2. l \in T
      BY <2>2, <3>1
    <3> QED
      BY <2>1, <3>2
  <2>6. k >= i \/ k < i
    BY <1>1
  <2> QED
    BY <2>4, <2>5, <2>6
<1>4. 0 .. n \subseteq T
  <2> HIDE DEF T
  <2> QED
    BY <1>2, <1>3, BoundedInductive
<1>5. n \in 0 .. n /\ n >= i
  BY <1>1
<1> QED
  BY <1>1, <1>4, <1>5

\* A frame of the encoder's is the batch encoder's frame,
LEMMA BatchSucceeds ==
    ASSUME Typed, EncInv, EncRound, encVerdict # "open", encErr = "none", job.id = 4, ~job.sums
    PROVE  Frame(Given, job.cap) = [err |-> "none", wire |-> wire]
<1>1. /\ job \in Jobs /\ sent \in Nat /\ sent <= Len(job.bytes) /\ Framed(job, wire, sent)
  BY EncFacts DEF EncRound
<1>2. PICK v \in Seq(Byte) :
        Cut(job, v, sent) /\ wire = (v \o EndMark) \o Checksum(SubSeq(job.bytes, 1, sent))
  BY <1>1 DEF Framed
<1>3. PICK n, at, to : Blocks(job, v, n, at, to) /\ at[n] = Len(v) /\ to[n] = sent
  BY <1>2 DEF Cut
<1>4. PICK src : src = SubSeq(job.bytes, 1, sent)
  OBVIOUS
<1>5. Covers(job, n, to, sent)
  BY <1>1, <1>3 DEF Covers
<1>6. AreBetween(src, job, n, to) /\ Len(Pieces(src)) = n /\ src \in Seq(Byte)
  <2>1. Begins(src, job.bytes, sent)
    BY <1>1, <1>4, JobFacts DEF Begins
  <2>2. Splits(src, job, n, to, sent)
    BY <1>1, <1>3, <1>5, <2>1, BlockPieces
  <2> QED
    BY <1>3, <2>2 DEF Splits
<1>7. PICK u : IsBatch(u, src, job.cap) /\ Frame(src, job.cap) = Ended(u[n], src)
  BY <1>1, <1>6, FrameUnfolded
<1>8. \A k \in 0 .. n : u[k] = [err |-> "none", wire |-> SubSeq(v, 1, at[k])]
  BY <1>1, <1>3, <1>6, <1>7, BatchBlocks
<1>9. n \in 0 .. n
  BY <1>3 DEF Blocks
<1>10. SubSeq(v, 1, at[n]) = v
  <2>1. PICK z \in Nat : z = 0
    OBVIOUS
  <2>2. Lies(v, v, z)
    BY <2>1 DEF Lies
  <2>3. SubSeq(v, z + 1, z + Len(v)) = v
    BY <2>2, LiesStretch
  <2> QED
    BY <1>3, <2>1, <2>3
<1>11. u[n] = [err |-> "none", wire |-> v]
  BY <1>8, <1>9, <1>10
<1>12. PICK f : f = [err |-> "none", wire |-> v]
  OBVIOUS
<1>13. PICK y : y = (v \o EndMark) \o Checksum(src)
  OBVIOUS
<1>14. Ended(f, src) = WithWire(f, y)
  <2>1. f.err = "none" /\ f.wire = v
    BY <1>12
  <2> QED
    BY <1>13, <2>1, Zenon DEF Ended, WithWire
<1>15. WithWire(f, y) = [err |-> "none", wire |-> y]
  BY <1>12, MoreWire
<1>16. y = wire /\ Given = src
  BY <1>2, <1>4, <1>13 DEF Given
<1> QED
  BY <1>7, <1>11, <1>12, <1>14, <1>15, <1>16

\* and the block that did not fit is the piece at which the batch encoder stops.
LEMMA BatchFails ==
    ASSUME Typed, EncInv, EncRound, encErr # "none", job.id = 4, ~job.sums
    PROVE  Frame(Given, job.cap) = TooSmall
<1>1. /\ job \in Jobs /\ sent \in Nat /\ sent <= Len(job.bytes) /\ job.bytes \in Seq(Byte)
      /\ wire \in Seq(Byte) /\ staged \in Seq(Byte) /\ Len(staged) \in Nat
  BY EncFacts
<1>2. PICK t : EvenlyCut(job, wire, t) /\ Refused(t)
  BY DEF EncRound
<1>3. PICK n, at, to : /\ Blocks(job, wire, n, at, to) /\ at[n] = Len(wire) /\ to[n] = t
                       /\ Even(job, n, to)
  BY <1>2 DEF EvenlyCut
<1>4. PICK e : e = t + Len(staged)
  OBVIOUS
<1>5. /\ t \in Nat /\ e \in Nat /\ t < e /\ e <= sent
      /\ e = t + BlockMax(job.id) \/ e = sent
      /\ staged = Piece(job, t, e) /\ e <= t + BlockMax(job.id)
      /\ ~Fits(Compressed(staged), staged, job.sums, job.cap - Len(wire))
  BY <1>2, <1>4, SMTT(30) DEF Refused, Reaches, Fills, LeftIn
<1>6. SmallBlock \in Nat \ {0} /\ BlockMax(job.id) = SmallBlock
  BY Lz4FrameAssumption, SMTT(30) DEF BlockMax
<1>7. PICK src : src = SubSeq(job.bytes, 1, sent)
  OBVIOUS
<1>8. Covers(job, n, to, sent)
  BY <1>1, <1>3, <1>5 DEF Covers
<1>9. /\ AreBetween(src, job, n, to) /\ src \in Seq(Byte) /\ Len(src) = sent
      /\ t = n * SmallBlock
  <2>1. Begins(src, job.bytes, sent)
    BY <1>1, <1>7 DEF Begins
  <2>2. Splits(src, job, n, to, sent)
    BY <1>1, <1>3, <1>8, <2>1, BlockPieces
  <2> QED
    BY <1>3, <2>2 DEF Splits
<1>10. PICK l : l = Len(Pieces(src))
  OBVIOUS
<1>11. PICK u : IsBatch(u, src, job.cap) /\ Frame(src, job.cap) = Ended(u[l], src)
  BY <1>1, <1>9, <1>10, FrameUnfolded
<1>12. u[n] = [err |-> "none", wire |-> wire]
  <2>1. \A k \in 0 .. n : u[k] = [err |-> "none", wire |-> SubSeq(wire, 1, at[k])]
    BY <1>1, <1>3, <1>9, <1>11, BatchBlocks
  <2>2. n \in 0 .. n
    BY <1>3 DEF Blocks
  <2>3. PICK z \in Nat : z = 0
    OBVIOUS
  <2>4. Lies(wire, wire, z)
    BY <1>1, <2>3 DEF Lies
  <2>5. SubSeq(wire, z + 1, z + Len(wire)) = wire
    BY <1>1, <2>4, LiesStretch
  <2>6. SubSeq(wire, 1, Len(wire)) = wire
    BY <1>1, <2>3, <2>5
  <2> QED
    BY <1>3, <2>1, <2>2, <2>6
<1>13. n \in Nat
  BY <1>3 DEF Blocks
<1>14. PICK i \in Nat : i = n + 1
  BY <1>13
<1>15. i \in 1 .. l /\ i - 1 = n /\ l \in Nat
  <2>1. l \in Nat /\ n < l
    <3>1. l \in Nat /\ \A k \in Nat : k * SmallBlock < Len(src) => k < l
      BY <1>9, <1>10, PieceNumber
    <3>2. n * SmallBlock < Len(src)
      BY <1>1, <1>5, <1>9
    <3> QED
      BY <1>13, <3>1, <3>2
  <2> QED
    BY <1>13, <1>14, <2>1
<1>16. Pieces(src)[i] = staged
  <2>1. PICK a \in Nat, b \in Nat :
              /\ a = (i - 1) * SmallBlock /\ b = PieceEnd(i, Len(src))
              /\ a < b /\ b <= a + SmallBlock /\ b <= Len(src)
              /\ Pieces(src)[i] = SubSeq(src, a + 1, b)
    BY <1>9, <1>10, <1>15, PieceAt
  <2>2. a = t
    BY <1>9, <1>15, <2>1
  <2>3. i * SmallBlock = t + SmallBlock
    BY <1>6, <1>9, <1>13, <1>14, OneTimesMore
  <2>4. b = e
    BY <1>1, <1>5, <1>6, <1>9, <2>1, <2>2, <2>3 DEF PieceEnd
  <2>5. Begins(src, job.bytes, sent) /\ Within(t, e, sent)
    BY <1>1, <1>5, <1>7 DEF Begins, Within
  <2>6. AgreeOn(src, job.bytes, t, e)
    BY <1>1, <2>5, StretchOfPrefix
  <2> QED
    BY <1>5, <2>1, <2>2, <2>4, <2>6 DEF AgreeOn, Piece
<1>17. u[i] = TooSmall
  <2>1. u[i] = Added(u[n], staged, job.cap)
    BY <1>10, <1>11, <1>15, <1>16 DEF IsBatch
  <2>2. ~Fits(Compressed(staged), staged, FALSE, job.cap - Len(wire))
    <3>1. PICK r : r = job.cap - Len(wire)
      OBVIOUS
    <3>2. PICK p : p = Compressed(staged)
      OBVIOUS
    <3>3. ~Fits(p, staged, job.sums, r) /\ ~job.sums
      BY <1>5, <3>1, <3>2
    <3>4. ~Fits(p, staged, FALSE, r)
      BY <3>3, NoSums
    <3> QED
      BY <3>1, <3>2, <3>4
  <2>3. u[n].err = "none" /\ u[n].wire = wire
    BY <1>12
  <2> QED
    BY <2>1, <2>2, <2>3, Zenon DEF Added
<1>18. u[l] = TooSmall
  BY <1>9, <1>10, <1>11, <1>15, <1>17, TooSmallStays
<1>19. Ended(TooSmall, src) = TooSmall
  BY DEF Ended, TooSmall
<1>20. Given = src
  BY <1>7 DEF Given
<1> QED
  BY <1>11, <1>18, <1>19, <1>20

\* However the text is cut into writes, the frame of the streaming encoder is that of
\* lz4_frame_compress byte for byte, and it runs out of room when that does.
THEOREM StreamIsBatch ==
    ASSUME Typed
    PROVE  Spec => []SameAsBatch
<1>1. EncInv /\ DecInv /\ EncRound /\ DecRound => SameAsBatch
  <2> SUFFICES ASSUME EncInv, EncRound, encVerdict # "open", job.id = 4, ~job.sums
               PROVE  Frame(Given, job.cap) =
                        IF encErr = "none" THEN [err |-> "none", wire |-> wire]
                        ELSE [err |-> encErr, wire |-> <<>>]
    BY DEF SameAsBatch
  <2>1. CASE encErr = "none"
    BY <2>1, BatchSucceeds
  <2>2. CASE encErr # "none"
    <3>1. encErr = "BUFFER_TOO_SMALL"
      BY <2>2 DEF EncInv
    <3> QED
      BY <2>2, <3>1, BatchFails DEF TooSmall
  <2> QED
    BY <2>1, <2>2
<1> QED
  BY <1>1, Rounds, PTL

-----------------------------------------------------------------------------
(* The batch decoder as a recursion over the blocks.                       *)

Walk(src, f, cap, m) ==
    LET from[s \in Stages] ==
            IF s.done \/ s.err # "none" THEN Closing(src, s, f) ELSE from[Block(src, s, f, cap, m)]
    IN  from

Unended == {s \in Stages : ~(s.done \/ s.err # "none")}
StillAhead(src) == [s \in Stages |-> IF s.done \/ s.err # "none" THEN 0
                                ELSE IF s.sp > Len(src) THEN 1 ELSE Len(src) - s.sp + 1]
Blockwise(src, f, cap, m) == [s \in Stages |-> Block(src, s, f, cap, m)]
Closings(src, f) == [s \in Stages |-> Closing(src, s, f)]

LEMMA RefusesType ==
    ASSUME NEW s \in Stages, NEW e \in Errors, e # "none"
    PROVE  Refuses(s, e) \in Stages /\ Refuses(s, e).err = e
  BY DEF Refuses, Stages

LEMMA PartType ==
    ASSUME NEW src \in Seq(Byte), NEW p \in Nat, NEW n \in Nat, p + n <= Len(src)
    PROVE  Part(src, p, n) \in Seq(Byte) /\ Len(Part(src, p, n)) = n
  BY Stretch DEF Part

\* What a block stands for is made of bytes, and comes behind the output so far.
LEMMA DataOfType ==
    ASSUME NEW src \in Seq(Byte), NEW s \in Stages, NEW z \in Nat, s.sp + 4 + z <= Len(src),
           NEW r, NEW l, NEW cap, NEW m
    PROVE  LET d == DataOf(src, s, z, r, l, cap, m)
           IN  d.err \in Errors /\ d.out \in Seq(Byte) /\ Continues(s.out, d.out)
<1> DEFINE part == Part(src, s.sp + 4, z)
           d == DataOf(src, s, z, r, l, cap, m)
           lo == IF l THEN 0 ELSE Len(s.out)
<1>1. s.sp + 4 \in Nat /\ s.out \in Seq(Byte) /\ lo \in Nat
  BY DEF Stages
<1>2. part \in Seq(Byte)
  BY <1>1, PartType
<1>3. "none" \in Errors /\ "CORRUPT_DATA" \in Errors
  BY DEF Errors
<1>4. CASE r
  <2>1. d = [err |-> Overflow(Len(s.out) + z, cap, cap, "none"), out |-> s.out \o part]
    BY <1>4 DEF DataOf
  <2> HIDE DEF d, part
  <2>2. d.err \in Errors
    BY <1>3, <2>1, OverflowIs
  <2>3. s.out \o part \in Seq(Byte) /\ Continues(s.out, s.out \o part)
    BY <1>1, <1>2, ConcatContinues, ConcatProperties
  <2> QED
    BY <2>1, <2>2, <2>3 DEF d
<1>5. CASE ~r
  <2>1. d = DecBlock(part, s.out, lo, cap, Len(s.out) + m, "CORRUPT_DATA")
    BY <1>5 DEF DataOf
  <2> HIDE DEF d, part, lo
  <2>2. d \in Answers /\ Continues(s.out, d.out)
    BY <1>1, <1>2, <1>3, <2>1, DecBlockAnswers
  <2> QED
    BY <2>2 DEF Answers, d
<1> QED
  BY <1>4, <1>5

\* The steps of a block, for one that begins at p and has z bytes.
LEMMA BlockType ==
    ASSUME NEW src \in Seq(Byte), NEW s \in Unended, NEW f, NEW cap, NEW m
    PROVE  LET b == Block(src, s, f, cap, m)
           IN  /\ b \in Stages
               /\ b.done \/ b.err # "none" \/ (b.sp > s.sp /\ b.sp <= Len(src))
<1> DEFINE b     == Block(src, s, f, cap, m)
           lead  == Part(src, s.sp, 4)
           z     == SizeOf(lead)
           past  == s.sp + 4 + z
           data  == DataOf(src, s, z, IsRaw(lead), Linked(f), cap, m)
           given == Part(src, past, 4)
           to    == past + SumBytes(HasBlockSums(f))
           next  == [s EXCEPT !.out = data.out, !.sp = to]
<1>1. s \in Stages /\ s.sp \in Nat /\ s.out \in Seq(Byte) /\ s.err = "none" /\ Len(src) \in Nat
  BY DEF Unended, Stages
<1>2. b = IF s.sp + 4 > Len(src) THEN Refuses(s, "CORRUPT_DATA")
        ELSE IF lead = EndMark THEN [s EXCEPT !.sp = @ + 4, !.done = TRUE]
        ELSE IF z > m \/ past > Len(src) THEN Refuses(s, "CORRUPT_DATA")
        ELSE IF data.err # "none" THEN Refuses(s, data.err)
        ELSE IF ~HasBlockSums(f) THEN next
        ELSE IF past + 4 > Len(src) THEN Refuses(s, "CORRUPT_DATA")
        ELSE IF given # Checksum(Part(src, s.sp + 4, z)) THEN Refuses(s, "CHECKSUM_MISMATCH")
        ELSE next
  BY DEF Block
<1>3. "CORRUPT_DATA" \in Errors /\ "CHECKSUM_MISMATCH" \in Errors
  BY DEF Errors
<1>4. \A e \in Errors : e # "none" => Refuses(s, e) \in Stages /\ Refuses(s, e).err = e
  BY <1>1, RefusesType
<1> HIDE DEF b
<1>5. CASE s.sp + 4 > Len(src)
  BY <1>2, <1>3, <1>4, <1>5 DEF b
<1>6. CASE ~(s.sp + 4 > Len(src)) /\ lead = EndMark
  <2>1. b = [s EXCEPT !.sp = @ + 4, !.done = TRUE]
    BY <1>2, <1>6
  <2>2. PICK v \in Nat : v = s.sp + 4
    BY <1>1
  <2>3. b = [s EXCEPT !.sp = v, !.done = TRUE]
    BY <2>1, <2>2
  <2>4. b \in Stages /\ b.done
    BY <1>1, <2>3 DEF Stages
  <2> QED
    BY <2>4 DEF b
<1>7. CASE ~(s.sp + 4 > Len(src)) /\ lead # EndMark
  <2>1. lead \in Seq(Byte) /\ Len(lead) = 4
    <3>1. PICK n \in Nat : n = 4
      OBVIOUS
    <3>2. s.sp + n <= Len(src)
      BY <1>1, <1>7, <3>1
    <3>3. Part(src, s.sp, n) \in Seq(Byte) /\ Len(Part(src, s.sp, n)) = n
      BY <1>1, <3>2, PartType
    <3> QED
      BY <3>1, <3>3
  <2> HIDE DEF lead
  <2>2. z \in Nat
    BY <2>1, SizeOfType
  <2> HIDE DEF z
  <2>3. past \in Nat
    BY <1>1, <2>2
  <2>4. CASE z > m \/ past > Len(src)
    BY <1>2, <1>3, <1>4, <1>7, <2>4 DEF b
  <2>5. CASE ~(z > m \/ past > Len(src))
    <3>1. data.err \in Errors /\ data.out \in Seq(Byte)
      <4>1. s.sp + 4 + z <= Len(src)
        BY <1>1, <2>2, <2>5
      <4> QED
        BY <1>1, <2>2, <4>1, DataOfType
    <3>2. to \in Nat /\ to = past + SumBytes(HasBlockSums(f)) /\ to > s.sp
      <4>1. SumBytes(HasBlockSums(f)) \in {0, 4}
        BY DEF SumBytes
      <4> QED
        BY <1>1, <2>2, <4>1
    <3>3. HasBlockSums(f) => to = past + 4
      BY DEF SumBytes
    <3>4. ~HasBlockSums(f) => to = past
      BY <2>3 DEF SumBytes
    <3> HIDE DEF past, to, data
    <3>5. next \in Stages /\ next.sp = to
      BY <1>1, <3>1, <3>2 DEF Stages
    <3> HIDE DEF next, given
    <3>6. CASE b = next
      <4>1. to <= Len(src)
        <5>1. CASE ~HasBlockSums(f)
          BY <1>1, <2>3, <2>5, <3>4, <5>1
        <5>2. CASE HasBlockSums(f) /\ ~(past + 4 > Len(src))
          BY <1>1, <2>3, <3>3, <5>2
        <5>3. CASE HasBlockSums(f) /\ past + 4 > Len(src)
          <6>1. \/ b = Refuses(s, "CORRUPT_DATA")
                \/ b = Refuses(s, data.err) /\ data.err # "none"
            BY <1>2, <1>7, <2>5, <5>3
          <6>2. b.err # "none"
            BY <1>3, <1>4, <3>1, <6>1
          <6>3. next.err = "none"
            BY <1>1 DEF next, Stages
          <6> QED
            BY <3>6, <6>2, <6>3
        <5> QED
          BY <5>1, <5>2, <5>3
      <4> QED
        BY <3>2, <3>5, <3>6, <4>1 DEF b
    <3>7. CASE b # next
      <4>1. \/ b = Refuses(s, "CORRUPT_DATA") \/ b = Refuses(s, "CHECKSUM_MISMATCH")
            \/ b = Refuses(s, data.err) /\ data.err # "none"
        BY <1>2, <1>7, <2>5, <3>7
      <4> QED
        BY <1>3, <1>4, <3>1, <4>1 DEF b
    <3> QED
      BY <3>6, <3>7
  <2> QED
    BY <2>4, <2>5
<1> QED
  BY <1>5, <1>6, <1>7

LEMMA WalkShrinks ==
    ASSUME NEW src \in Seq(Byte), NEW f, NEW cap, NEW m
    PROVE  Lowers(Stages, StillAhead(src), Unended, Blockwise(src, f, cap, m))
<1>1. Len(src) \in Nat /\ \A s \in Stages : s.sp \in Nat
  BY DEF Stages
<1>2. StillAhead(src) \in [Stages -> Nat]
  BY <1>1 DEF StillAhead
<1>3. Unended \subseteq Stages
  BY DEF Unended
<1>4. ASSUME NEW s \in Unended
      PROVE  /\ Blockwise(src, f, cap, m)[s] \in Stages
             /\ StillAhead(src)[Blockwise(src, f, cap, m)[s]] < StillAhead(src)[s]
  <2> DEFINE b == Block(src, s, f, cap, m)
  <2>1. b \in Stages /\ (b.done \/ b.err # "none" \/ (b.sp > s.sp /\ b.sp <= Len(src)))
    BY BlockType
  <2>2. Blockwise(src, f, cap, m)[s] = b
    BY <1>3 DEF Blockwise
  <2> HIDE DEF b
  <2>3. s \in Stages /\ ~(s.done \/ s.err # "none") /\ b.sp \in Nat /\ s.sp \in Nat
    BY <1>1, <2>1 DEF Unended
  <2>4. StillAhead(src)[s] = IF s.sp > Len(src) THEN 1 ELSE Len(src) - s.sp + 1
    BY <2>3 DEF StillAhead
  <2>5. StillAhead(src)[b] = IF b.done \/ b.err # "none" THEN 0
                        ELSE IF b.sp > Len(src) THEN 1 ELSE Len(src) - b.sp + 1
    BY <2>1 DEF StillAhead
  <2>6. StillAhead(src)[b] < StillAhead(src)[s]
    <3>1. CASE b.done \/ b.err # "none"
      BY <1>1, <2>3, <2>4, <2>5, <3>1
    <3>2. CASE ~(b.done \/ b.err # "none")
      BY <1>1, <2>1, <2>3, <2>4, <2>5, <3>2
    <3> QED
      BY <3>1, <3>2
  <2> QED
    BY <2>1, <2>2, <2>6
<1> QED
  BY <1>2, <1>3, <1>4 DEF Lowers

\* One block more.
LEMMA WalkUnfolded ==
    ASSUME NEW src \in Seq(Byte), NEW f, NEW cap, NEW m, NEW s \in Stages
    PROVE  Walk(src, f, cap, m)[s] = IF s.done \/ s.err # "none" THEN Closing(src, s, f)
                                     ELSE Walk(src, f, cap, m)[Block(src, s, f, cap, m)]
<1> DEFINE E(g) == g = [t \in Stages |-> IF t.done \/ t.err # "none" THEN Closing(src, t, f)
                                         ELSE g[Block(src, t, f, cap, m)]]
           from == CHOOSE g : E(g)
           step == Blockwise(src, f, cap, m)
           res  == Closings(src, f)
<1>1. \A g : IsTail(g, Stages, Unended, step, res) <=> E(g)
  <2> TAKE g
  <2>1. \A t \in Stages : (t \in Unended <=> ~(t.done \/ t.err # "none"))
                          /\ step[t] = Block(src, t, f, cap, m) /\ res[t] = Closing(src, t, f)
    BY DEF Unended, Blockwise, Closings
  <2> HIDE DEF step, res
  <2>2. [t \in Stages |-> IF t \in Unended THEN g[step[t]] ELSE res[t]]
        = [t \in Stages |-> IF t.done \/ t.err # "none" THEN Closing(src, t, f)
                            ELSE g[Block(src, t, f, cap, m)]]
    BY <2>1
  <2> QED
    BY <2>2 DEF IsTail
<1>2. Lowers(Stages, StillAhead(src), Unended, step)
  BY WalkShrinks
<1>3. \E g : E(g)
  <2> HIDE DEF step, res, E
  <2>1. \E g : IsTail(g, Stages, Unended, step, res)
    BY <1>2, TailRecursion
  <2> QED
    BY <1>1, <2>1
<1>4. E(from)
  BY <1>3, Zenon
<1>5. Walk(src, f, cap, m) = from
  BY DEF Walk
<1>6. from = [t \in Stages |-> IF t.done \/ t.err # "none" THEN Closing(src, t, f)
                               ELSE from[Block(src, t, f, cap, m)]]
  BY <1>4
<1> HIDE DEF from, E
<1> QED
  BY <1>5, <1>6, Zenon

LEMMA WalkOn ==
    ASSUME NEW src \in Seq(Byte), NEW f, NEW cap, NEW m, NEW s \in Stages,
           ~(s.done \/ s.err # "none")
    PROVE  Walk(src, f, cap, m)[s] = Walk(src, f, cap, m)[Block(src, s, f, cap, m)]
  BY WalkUnfolded

LEMMA WalkEnds ==
    ASSUME NEW src \in Seq(Byte), NEW f, NEW cap, NEW m, NEW s \in Stages, s.done \/ s.err # "none"
    PROVE  Walk(src, f, cap, m)[s] = Closing(src, s, f)
  BY WalkUnfolded

-----------------------------------------------------------------------------
(* The frame as far as its byte n.                                         *)

StageAt(p, o, d) == [sp |-> p, out |-> o, err |-> "none", done |-> d]

Prefix(n) == SubSeq(frame, 1, n)

LEMMA StageAtType ==
    ASSUME NEW p \in Nat, NEW o \in Seq(Byte), NEW d \in BOOLEAN
    PROVE  /\ StageAt(p, o, d) \in Stages
           /\ StageAt(p, o, d).sp = p /\ StageAt(p, o, d).out = o
           /\ StageAt(p, o, d).err = "none" /\ StageAt(p, o, d).done = d
  BY DEF StageAt, Stages, Errors

LEMMA PrefixFacts ==
    ASSUME frame \in Seq(Byte), NEW n \in Nat, n <= Len(frame)
    PROVE  /\ Prefix(n) \in Seq(Byte) /\ Len(Prefix(n)) = n
           /\ \A i \in 1 .. n : Prefix(n)[i] = frame[i]
<1>1. \A i \in 1 .. n : frame[i] \in Byte
  OBVIOUS
<1> QED
  BY <1>1, SubSeqProperties DEF Prefix

\* A stretch of it is one of the frame.
LEMMA PrefixPart ==
    ASSUME frame \in Seq(Byte), NEW n \in Nat, n <= Len(frame),
           NEW a \in Nat, NEW b \in Nat, a <= b, b <= n
    PROVE  SubSeq(Prefix(n), a + 1, b) = SubSeq(frame, a + 1, b)
<1>1. Prefix(n) \in Seq(Byte) /\ Len(Prefix(n)) = n /\ \A i \in 1 .. n : Prefix(n)[i] = frame[i]
  BY PrefixFacts
<1> DEFINE x == SubSeq(Prefix(n), a + 1, b)
           y == SubSeq(frame, a + 1, b)
<1>2. b <= Len(frame) /\ Len(frame) \in Nat
  OBVIOUS
<1>3. x \in Seq(Byte) /\ Len(x) = b - a
  BY <1>1, StretchSize
<1>4. y \in Seq(Byte) /\ Len(y) = b - a
  BY <1>2, StretchSize
<1>5. ASSUME NEW i \in 1 .. b - a PROVE x[i] = y[i]
  <2>1. a + i \in 1 .. n /\ a + 1 + i - 1 = a + i /\ b - (a + 1) + 1 = b - a
    OBVIOUS
  <2>2. \A k \in a + 1 .. b : Prefix(n)[k] \in Byte /\ frame[k] \in Byte
    BY <1>1, <1>2
  <2>3. x[i] = Prefix(n)[a + 1 + i - 1]
    BY <2>1, <2>2, SubSeqProperties
  <2>4. y[i] = frame[a + 1 + i - 1]
    BY <2>1, <2>2, SubSeqProperties
  <2> QED
    BY <1>1, <2>1, <2>3, <2>4
<1> HIDE DEF x, y
<1>6. Len(x) = Len(y) /\ \A i \in 1 .. Len(x) : x[i] = y[i]
  BY <1>3, <1>4, <1>5
<1>7. x = y
  BY <1>3, <1>4, <1>6, SeqEqual
<1> QED
  BY <1>7 DEF x, y

\* What is wrong with its header.
LEMMA PrefixHeader ==
    ASSUME frame \in Seq(Byte), NEW n \in Nat, n <= Len(frame), 11 <= n
    PROVE  HeaderFault(Prefix(n)) =
             IF SubSeq(frame, 1, 4) # Magic THEN "CORRUPT_DATA"
             ELSE IF FlgFault(frame[5]) # "none" THEN FlgFault(frame[5])
             ELSE IF BdFault(frame[6]) # "none" THEN BdFault(frame[6])
             ELSE IF DescEnd(frame[5]) + 1 > n THEN "CORRUPT_DATA"
             ELSE IF HeaderSum(SubSeq(frame, 5, DescEnd(frame[5]))) # frame[DescEnd(frame[5]) + 1]
               THEN "CHECKSUM_MISMATCH"
             ELSE "none"
<1> DEFINE w == Prefix(n)
           d == DescEnd(frame[5])
<1>1. Len(w) = n /\ \A i \in 1 .. n : w[i] = frame[i]
  BY PrefixFacts
<1>2. w[5] = frame[5] /\ w[6] = frame[6]
  BY <1>1
<1>3. SubSeq(w, 1, 4) = SubSeq(frame, 1, 4)
  <2>1. PICK a \in Nat : a = 0
    OBVIOUS
  <2>2. PICK b \in Nat : b = 4
    OBVIOUS
  <2>3. a <= b /\ b <= n
    BY <2>1, <2>2
  <2>4. SubSeq(w, a + 1, b) = SubSeq(frame, a + 1, b)
    BY <2>3, PrefixPart
  <2> QED
    BY <2>1, <2>2, <2>4
<1>4. d \in Nat /\ 6 <= d
  BY DEF DescEnd
<1> HIDE DEF d
<1>5. ~(d + 1 > n) => SubSeq(w, 5, d) = SubSeq(frame, 5, d) /\ w[d + 1] = frame[d + 1]
  <2>1. PICK a \in Nat : a = 4
    OBVIOUS
  <2>2. SUFFICES ASSUME d + 1 <= n PROVE SubSeq(w, a + 1, d) = SubSeq(frame, a + 1, d) /\ w[d + 1] = frame[d + 1]
    BY <1>4, <2>1
  <2>3. a <= d /\ d <= n
    BY <1>4, <2>1, <2>2
  <2>4. SubSeq(w, a + 1, d) = SubSeq(frame, a + 1, d)
    BY <1>4, <2>3, PrefixPart
  <2>5. d + 1 \in 1 .. n
    BY <1>4, <2>2
  <2> QED
    BY <1>1, <2>4, <2>5
<1> HIDE DEF w
<1>6. ~(Len(w) < 11)
  BY <1>1
<1>7. HeaderFault(w) =
        IF SubSeq(w, 1, 4) # Magic THEN "CORRUPT_DATA"
        ELSE IF FlgFault(w[5]) # "none" THEN FlgFault(w[5])
        ELSE IF BdFault(w[6]) # "none" THEN BdFault(w[6])
        ELSE IF DescEnd(w[5]) + 1 > Len(w) THEN "CORRUPT_DATA"
        ELSE IF HeaderSum(SubSeq(w, 5, DescEnd(w[5]))) # w[DescEnd(w[5]) + 1] THEN "CHECKSUM_MISMATCH"
        ELSE "none"
  BY <1>6, Zenon DEF HeaderFault
<1>8. DescEnd(w[5]) = d
  BY <1>2 DEF d
<1>9. HeaderFault(w) =
        IF SubSeq(frame, 1, 4) # Magic THEN "CORRUPT_DATA"
        ELSE IF FlgFault(frame[5]) # "none" THEN FlgFault(frame[5])
        ELSE IF BdFault(frame[6]) # "none" THEN BdFault(frame[6])
        ELSE IF d + 1 > n THEN "CORRUPT_DATA"
        ELSE IF HeaderSum(SubSeq(frame, 5, d)) # frame[d + 1] THEN "CHECKSUM_MISMATCH"
        ELSE "none"
  <2>1. CASE d + 1 > n
    BY <1>1, <1>2, <1>3, <1>7, <1>8, <2>1
  <2>2. CASE ~(d + 1 > n)
    BY <1>1, <1>2, <1>3, <1>5, <1>7, <1>8, <2>2
  <2> QED
    BY <2>1, <2>2
<1> QED
  BY <1>9 DEF w, d

LEMMA UnframeFails ==
    ASSUME NEW src, NEW cap, HeaderFault(src) # "none"
    PROVE  Unframe(src, cap) = Failure(HeaderFault(src))
  BY Zenon DEF Unframe

LEMMA UnframeWalks ==
    ASSUME NEW src, NEW cap, HeaderFault(src) = "none"
    PROVE  Unframe(src, cap) =
             Walk(src, src[5], cap, BlockMax(src[6] \div 16))[StageAt(DescEnd(src[5]) + 1, <<>>, FALSE)]
  BY Zenon DEF Unframe, Walk, StageAt

\* An error of a block is the answer.
LEMMA WalkRefused ==
    ASSUME NEW src \in Seq(Byte), NEW f, NEW cap, NEW m, NEW s \in Stages, NEW e \in Errors, e # "none"
    PROVE  Walk(src, f, cap, m)[Refuses(s, e)] = Failure(e)
<1>1. Refuses(s, e) \in Stages /\ Refuses(s, e).err = e
  BY RefusesType
<1>2. Walk(src, f, cap, m)[Refuses(s, e)] = Closing(src, Refuses(s, e), f)
  BY <1>1, WalkUnfolded
<1> QED
  BY <1>1, <1>2 DEF Closing

-----------------------------------------------------------------------------
(* One block of it.                                                        *)

\* What z bytes of a block that begins at p stand for behind the output so far.
Meant(p, z, r) ==
    IF r THEN [err |-> Overflow(Len(out) + z, room, room, "none"),
               out |-> out \o SubSeq(frame, p + 4 + 1, p + 4 + z)]
    ELSE DecBlock(SubSeq(frame, p + 4 + 1, p + 4 + z), out, HistoryFloor, room, Len(out) + max,
                  "CORRUPT_DATA")

\* The answer to the block that begins at p of the first n bytes.
BlockFrom(n, p) ==
    LET lead == SubSeq(frame, p + 1, p + 4)
        z    == SizeOf(lead)
        s    == StageAt(p, out, FALSE)
    IN       IF p + 4 > n THEN Refuses(s, "CORRUPT_DATA")
             ELSE IF lead = EndMark THEN StageAt(p + 4, out, TRUE)
             ELSE IF z > max \/ p + 4 + z > n THEN Refuses(s, "CORRUPT_DATA")
             ELSE IF Meant(p, z, IsRaw(lead)).err # "none" THEN Refuses(s, Meant(p, z, IsRaw(lead)).err)
             ELSE IF ~HasBlockSums(flg) THEN StageAt(p + 4 + z, Meant(p, z, IsRaw(lead)).out, FALSE)
             ELSE IF p + 4 + z + 4 > n THEN Refuses(s, "CORRUPT_DATA")
             ELSE IF SubSeq(frame, p + 4 + z + 1, p + 4 + z + 4)
                       # Checksum(SubSeq(frame, p + 4 + 1, p + 4 + z))
               THEN Refuses(s, "CHECKSUM_MISMATCH")
             ELSE StageAt(p + 4 + z + 4, Meant(p, z, IsRaw(lead)).out, FALSE)

LEMMA PrefixBlock ==
    ASSUME frame \in Seq(Byte), out \in Seq(Byte), NEW n \in Nat, n <= Len(frame),
           NEW p \in Nat, p <= n
    PROVE  Block(Prefix(n), StageAt(p, out, FALSE), flg, room, max) = BlockFrom(n, p)
<1> PICK lead : lead = SubSeq(frame, p + 1, p + 4)
  OBVIOUS
<1> PICK z : z = SizeOf(lead)
  OBVIOUS
<1> PICK s : s = StageAt(p, out, FALSE)
  OBVIOUS
<1> SUFFICES Block(Prefix(n), s, flg, room, max) =
             IF p + 4 > n THEN Refuses(s, "CORRUPT_DATA")
             ELSE IF lead = EndMark THEN StageAt(p + 4, out, TRUE)
             ELSE IF z > max \/ p + 4 + z > n THEN Refuses(s, "CORRUPT_DATA")
             ELSE IF Meant(p, z, IsRaw(lead)).err # "none" THEN Refuses(s, Meant(p, z, IsRaw(lead)).err)
             ELSE IF ~HasBlockSums(flg) THEN StageAt(p + 4 + z, Meant(p, z, IsRaw(lead)).out, FALSE)
             ELSE IF p + 4 + z + 4 > n THEN Refuses(s, "CORRUPT_DATA")
             ELSE IF SubSeq(frame, p + 4 + z + 1, p + 4 + z + 4)
                       # Checksum(SubSeq(frame, p + 4 + 1, p + 4 + z))
               THEN Refuses(s, "CHECKSUM_MISMATCH")
             ELSE StageAt(p + 4 + z + 4, Meant(p, z, IsRaw(lead)).out, FALSE)
  BY Zenon DEF BlockFrom
<1> DEFINE w    == Prefix(n)
           b    == Block(w, s, flg, room, max)
           past == p + 4 + z
           d    == Meant(p, z, IsRaw(lead))
<1>1. w \in Seq(Byte) /\ Len(w) = n /\ Len(frame) \in Nat
  BY PrefixFacts
<1>2. s \in Stages /\ s.sp = p /\ s.out = out /\ s.err = "none"
  BY StageAtType
<1>3. CASE p + 4 > n
  <2>1. b = Refuses(s, "CORRUPT_DATA")
    BY <1>1, <1>2, <1>3 DEF Block
  <2> QED
    BY <1>3, <2>1
<1>4. CASE ~(p + 4 > n)
  <2>1. Part(w, p, 4) = lead
    <3>1. PICK q \in Nat : q = p + 4
      OBVIOUS
    <3>2. p <= q /\ q <= n
      BY <1>4, <3>1
    <3>3. SubSeq(w, p + 1, q) = SubSeq(frame, p + 1, q)
      BY <3>2, PrefixPart
    <3> QED
      BY <3>1, <3>3 DEF Part
  <2>2. lead \in Seq(Byte) /\ Len(lead) = 4
    <3>1. PICK q \in Nat : q = p + 4 /\ p <= q /\ q <= Len(frame)
      BY <1>1, <1>4
    <3>2. SubSeq(frame, p + 1, q) \in Seq(Byte) /\ Len(SubSeq(frame, p + 1, q)) = q - p
      BY <3>1, StretchSize
    <3> QED
      BY <3>1, <3>2
  <2>3. z \in Nat
    BY <2>2, SizeOfType
  <2>4. past \in Nat /\ p <= past /\ p + 4 <= past
    BY <2>3
  <2>5. CASE lead = EndMark
    <3>1. b = [s EXCEPT !.sp = @ + 4, !.done = TRUE]
      BY <1>1, <1>2, <1>4, <2>1, <2>5 DEF Block
    <3>2. b = StageAt(p + 4, out, TRUE)
      BY <3>1 DEF StageAt
    <3> QED
      BY <1>4, <2>5, <3>2
  <2>6. CASE lead # EndMark /\ (z > max \/ past > n)
    <3>1. b = Refuses(s, "CORRUPT_DATA")
      BY <1>1, <1>2, <1>4, <2>1, <2>6 DEF Block
    <3> QED
      BY <1>4, <2>6, <3>1
  <2>7. CASE lead # EndMark /\ ~(z > max \/ past > n)
    <3>1. Part(w, p + 4, z) = SubSeq(frame, p + 4 + 1, past)
      <4>1. PICK q \in Nat : q = p + 4 /\ q <= past
        BY <2>4
      <4>2. past <= n
        BY <2>4, <2>7
      <4> HIDE DEF w, past
      <4>3. SubSeq(w, q + 1, past) = SubSeq(frame, q + 1, past)
        BY <2>4, <4>1, <4>2, PrefixPart DEF w
      <4> QED
        BY <4>1, <4>3 DEF Part, past
    <3>2. DataOf(w, s, z, IsRaw(lead), Linked(flg), room, max) = d
      <4> HIDE DEF w
      <4>1. CASE IsRaw(lead)
        BY <1>2, <3>1, <4>1 DEF DataOf, Meant
      <4>2. CASE ~IsRaw(lead)
        BY <1>2, <3>1, <4>2 DEF DataOf, Meant, HistoryFloor
      <4> QED
        BY <4>1, <4>2
    <3>3. ~(past + 4 > n) => Part(w, past, 4) = SubSeq(frame, past + 1, past + 4)
      <4>1. SUFFICES ASSUME ~(past + 4 > n) PROVE Part(w, past, 4) = SubSeq(frame, past + 1, past + 4)
        OBVIOUS
      <4>2. PICK q \in Nat : q = past + 4
        BY <2>4
      <4> HIDE DEF w, past
      <4>3. past <= q /\ q <= n
        BY <2>4, <4>1, <4>2
      <4>4. SubSeq(w, past + 1, q) = SubSeq(frame, past + 1, q)
        BY <2>4, <4>3, PrefixPart DEF w
      <4> QED
        BY <4>2, <4>4 DEF Part
    <3> DEFINE next == [s EXCEPT !.out = d.out, !.sp = past + SumBytes(HasBlockSums(flg))]
    <3>4. b = IF d.err # "none" THEN Refuses(s, d.err)
              ELSE IF ~HasBlockSums(flg) THEN next
              ELSE IF past + 4 > n THEN Refuses(s, "CORRUPT_DATA")
              ELSE IF Part(w, past, 4) # Checksum(Part(w, p + 4, z)) THEN Refuses(s, "CHECKSUM_MISMATCH")
              ELSE next
      <4> HIDE DEF w, d
      <4>1. ~(p + 4 > Len(w)) /\ ~(z > max \/ past > Len(w))
        BY <1>1, <1>4, <2>7
      <4>2. b = IF s.sp + 4 > Len(w) THEN Refuses(s, "CORRUPT_DATA")
                ELSE IF Part(w, s.sp, 4) = EndMark THEN [s EXCEPT !.sp = @ + 4, !.done = TRUE]
                ELSE IF SizeOf(Part(w, s.sp, 4)) > max \/ s.sp + 4 + SizeOf(Part(w, s.sp, 4)) > Len(w)
                  THEN Refuses(s, "CORRUPT_DATA")
                ELSE IF d.err # "none" THEN Refuses(s, d.err)
                ELSE IF ~HasBlockSums(flg) THEN next
                ELSE IF past + 4 > Len(w) THEN Refuses(s, "CORRUPT_DATA")
                ELSE IF Part(w, past, 4) # Checksum(Part(w, p + 4, z)) THEN Refuses(s, "CHECKSUM_MISMATCH")
                ELSE next
        BY <1>2, <2>1, <3>2 DEF Block
      <4> HIDE DEF b, next
      <4> QED
        BY <1>1, <1>2, <2>1, <2>7, <4>1, <4>2
    <3>5. ~HasBlockSums(flg) => next = StageAt(past, d.out, FALSE)
      <4>1. SUFFICES ASSUME ~HasBlockSums(flg) PROVE next = StageAt(past, d.out, FALSE)
        OBVIOUS
      <4>2. past + SumBytes(HasBlockSums(flg)) = past
        BY <2>4, <4>1 DEF SumBytes
      <4> DEFINE o == d.out
                 to == past + SumBytes(HasBlockSums(flg))
      <4>3. next = [s EXCEPT !.out = o, !.sp = to]
        OBVIOUS
      <4> HIDE DEF o, to, d, past, next
      <4>4. next = StageAt(to, o, FALSE)
        BY <4>3 DEF StageAt
      <4> QED
        BY <4>2, <4>4 DEF to, o
    <3>6. HasBlockSums(flg) => next = StageAt(past + 4, d.out, FALSE)
      <4>1. SUFFICES ASSUME HasBlockSums(flg) PROVE next = StageAt(past + 4, d.out, FALSE)
        OBVIOUS
      <4>2. past + SumBytes(HasBlockSums(flg)) = past + 4
        BY <2>4, <4>1 DEF SumBytes
      <4> DEFINE o == d.out
                 to == past + SumBytes(HasBlockSums(flg))
      <4>3. next = [s EXCEPT !.out = o, !.sp = to]
        OBVIOUS
      <4> HIDE DEF o, to, d, past, next
      <4>4. next = StageAt(to, o, FALSE)
        BY <4>3 DEF StageAt
      <4> QED
        BY <4>2, <4>4 DEF to, o
    <3> HIDE DEF b, next, d, w
    <3>7. b = IF d.err # "none" THEN Refuses(s, d.err)
              ELSE IF ~HasBlockSums(flg) THEN StageAt(past, d.out, FALSE)
              ELSE IF past + 4 > n THEN Refuses(s, "CORRUPT_DATA")
              ELSE IF SubSeq(frame, past + 1, past + 4) # Checksum(SubSeq(frame, p + 4 + 1, past))
                THEN Refuses(s, "CHECKSUM_MISMATCH")
              ELSE StageAt(past + 4, d.out, FALSE)
      <4> HIDE DEF past
      <4> QED
        BY <3>1, <3>3, <3>4, <3>5, <3>6
    <3> QED
      BY <1>4, <2>7, <3>7 DEF b, d, w
  <2> QED
    BY <2>5, <2>6, <2>7
<1> QED
  BY <1>3, <1>4

-----------------------------------------------------------------------------
(* How far the decoder is in any frame.                                    *)

\* However the frame goes on behind p or ends there, the batch decoder gets to p.
Gets(p, d) ==
    /\ p \in DescEnd(flg) + 1 .. Len(frame)
    /\ \A n \in 11 .. Len(frame) :
         p <= n => Unframe(Prefix(n), room) = Walk(Prefix(n), flg, room, max)[StageAt(p, out, d)]

FlgKnown == SubSeq(frame, 1, 4) = Magic /\ flg = frame[5] /\ FlgFault(flg) = "none"

BdKnown == FlgKnown /\ BdFault(frame[6]) = "none" /\ max = BlockMax(frame[6] \div 16)

DescKnown == /\ BdKnown /\ DescEnd(flg) + 1 <= cp
             /\ desc = SubSeq(frame, 5, DescEnd(flg))
             /\ HeaderSum(desc) = frame[DescEnd(flg) + 1]
             /\ folded = IF HasContentSum(flg) THEN out ELSE <<>>

\* The size of the block that begins at p.
SizeKnown(p) ==
    /\ p + 4 <= Len(frame) /\ SubSeq(frame, p + 1, p + 4) # EndMark
    /\ size = SizeOf(SubSeq(frame, p + 1, p + 4)) /\ size <= max
    /\ raw = IsRaw(SubSeq(frame, p + 1, p + 4))

AtSize(p) == DescKnown /\ Gets(p, FALSE) /\ Begun(p)
AtData(p) == DescKnown /\ Gets(p, FALSE) /\ SizeKnown(p) /\ InBody(p + 4)
AtSum(p)  == /\ DescKnown /\ Gets(p, FALSE) /\ SizeKnown(p) /\ HasBlockSums(flg)
             /\ block = SubSeq(frame, p + 4 + 1, p + 4 + size) /\ Begun(p + 4 + size)
AtContentSum(p) == DescKnown /\ Gets(p, TRUE) /\ HasContentSum(flg) /\ SizeHolds /\ Begun(p)

\* The frame may go on, but it is decoded.
AtEnd == /\ 11 <= cp
         /\ \A n \in 11 .. Len(frame) :
              cp <= n => Unframe(Prefix(n), room) = [err |-> "none", out |-> out]

InDescriptor ==
    /\ BdKnown /\ Fresh
    /\ state = "CONTENT_SIZE" => HasContentSize(flg) /\ Begun(6) /\ desc = SubSeq(frame, 5, cp)
    /\ state = "DICT_ID" => /\ HasDictId(flg) /\ Begun(DescEnd(flg) - 4)
                            /\ desc = SubSeq(frame, 5, cp)
    /\ state = "HC" => Begun(DescEnd(flg)) /\ desc = SubSeq(frame, 5, DescEnd(flg))

Following ==
    /\ state \in {"MAGIC", "FLG", "BD"} => max = SmallBlock /\ Fresh
    /\ state = "MAGIC" => Begun(0) /\ desc = <<>>
    /\ state = "FLG" => Begun(4) /\ desc = <<>> /\ SubSeq(frame, 1, 4) = Magic
    /\ state = "BD" => Begun(5) /\ desc = SubSeq(frame, 5, 5) /\ FlgKnown
    /\ state \in {"CONTENT_SIZE", "DICT_ID", "HC"} => InDescriptor
    /\ state = "BLOCK_SIZE" => \E p \in Nat : AtSize(p)
    /\ state = "BLOCK_DATA" => \E p \in Nat : AtData(p)
    /\ state = "BLOCK_CHECKSUM" => \E p \in Nat : AtSum(p)
    /\ state = "CONTENT_CHECKSUM" => \E p \in Nat : AtContentSum(p)
    /\ state = "DONE" => AtEnd

\* As far as the decoder is, it agrees with the batch decoder.
Answered ==
    /\ room \in Nat /\ out \in Seq(Byte)
    /\ pc = "none" => verdict = "open"
    /\ pc = "out" /\ err = "none" /\ state \notin {"DONE", "CLOSED"} =>
         cp = end /\ (state = "BLOCK_DATA" => Len(block) < size)
    /\ err = "none" => Following
    /\ err \notin {"none", "INVALID_INPUT"} /\ state # "CLOSED" => Agree(err, Unframe(Received, room))

-----------------------------------------------------------------------------
\* Where the header and the batch decoder end.
LEMMA DescEndIs ==
    ASSUME NEW f
    PROVE  /\ DescEnd(f) \in Nat /\ 6 <= DescEnd(f) /\ DescEnd(f) <= 18
           /\ HasContentSize(f) => 14 <= DescEnd(f)
           /\ HasContentSize(f) /\ HasDictId(f) => DescEnd(f) = 18
           /\ HasContentSize(f) /\ ~HasDictId(f) => DescEnd(f) = 14
           /\ ~HasContentSize(f) /\ HasDictId(f) => DescEnd(f) = 10
           /\ ~HasContentSize(f) /\ ~HasDictId(f) => DescEnd(f) = 6
  BY DEF DescEnd

LEMMA BatchOfShort ==
    ASSUME frame \in Seq(Byte), NEW n \in Nat, n <= Len(frame), n < 11, NEW cap
    PROVE  Unframe(Prefix(n), cap) = Failure("INVALID_INPUT")
<1>1. Len(Prefix(n)) = n
  BY PrefixFacts
<1> DEFINE w == Prefix(n)
<1>2. Len(w) < 11
  BY <1>1
<1> HIDE DEF w
<1>3. HeaderFault(w) = "INVALID_INPUT"
  BY <1>2 DEF HeaderFault
<1>4. Unframe(w, cap) = Failure("INVALID_INPUT")
  BY <1>3, UnframeFails
<1> QED
  BY <1>4 DEF w

\* Both give the same answer, or the frame is too short for one.
LEMMA AgreeSame ==
    ASSUME DecInv, UNCHANGED <<frame, room, end>>, err' # "ok",
           11 <= end => Unframe(Prefix(end), room) = Failure(err')
    PROVE  Agree(err, Unframe(Received, room))'
<1>1. frame \in Seq(Byte) /\ end \in Nat /\ end <= Len(frame)
  BY DecFacts
<1>2. Unframe(Received, room)' = Unframe(Prefix(end), room)
  BY DEF Received, Prefix
<1> DEFINE b == Unframe(Prefix(end), room)
<1> HIDE DEF b
<1>3. CASE 11 <= end
  <2>1. b.err = err'
    BY <1>3 DEF Failure, b
  <2> QED
    BY <1>2, <2>1 DEF Agree, b
<1>4. CASE end < 11
  <2>1. b = Failure("INVALID_INPUT")
    BY <1>1, <1>4, BatchOfShort DEF b
  <2>2. b.err # "none"
    BY <2>1 DEF Failure
  <2>3. Otherwise'
    BY <1>4 DEF Otherwise
  <2> QED
    BY <1>2, <2>2, <2>3 DEF Agree, b
<1> QED
  BY <1>1, <1>3, <1>4

\* Where it gets, it goes on with the next block.
LEMMA GetsOn ==
    ASSUME frame \in Seq(Byte), out \in Seq(Byte), NEW p \in Nat, Gets(p, FALSE),
           NEW n \in Nat, 11 <= n, n <= Len(frame), p <= n,
           NEW b, b = Block(Prefix(n), StageAt(p, out, FALSE), flg, room, max)
    PROVE  Unframe(Prefix(n), room) = Walk(Prefix(n), flg, room, max)[b]
<1>1. Prefix(n) \in Seq(Byte)
  BY PrefixFacts
<1>2. /\ StageAt(p, out, FALSE) \in Stages
      /\ StageAt(p, out, FALSE).err = "none" /\ StageAt(p, out, FALSE).done = FALSE
  BY StageAtType
<1>3. Walk(Prefix(n), flg, room, max)[StageAt(p, out, FALSE)] = Walk(Prefix(n), flg, room, max)[b]
  <2>1. PICK w, s : w = Prefix(n) /\ s = StageAt(p, out, FALSE)
    OBVIOUS
  <2>2. PICK f, r, m : f = flg /\ r = room /\ m = max
    OBVIOUS
  <2>3. w \in Seq(Byte) /\ s \in Stages /\ ~(s.done \/ s.err # "none")
    BY <1>1, <1>2, <2>1
  <2>4. b = Block(w, s, f, r, m)
    BY <2>1, <2>2
  <2>5. Walk(w, f, r, m)[s] = Walk(w, f, r, m)[Block(w, s, f, r, m)]
    BY <2>3, WalkOn
  <2> QED
    BY <2>1, <2>2, <2>4, <2>5
<1>4. n \in 11 .. Len(frame)
  OBVIOUS
<1> QED
  BY <1>3, <1>4 DEF Gets

LEMMA GetsRefused ==
    ASSUME frame \in Seq(Byte), out \in Seq(Byte), NEW p \in Nat, Gets(p, FALSE),
           NEW n \in Nat, 11 <= n, n <= Len(frame), p <= n, NEW e \in Errors, e # "none",
           Block(Prefix(n), StageAt(p, out, FALSE), flg, room, max) = Refuses(StageAt(p, out, FALSE), e)
    PROVE  Unframe(Prefix(n), room) = Failure(e)
<1>1. Prefix(n) \in Seq(Byte)
  BY PrefixFacts
<1>2. StageAt(p, out, FALSE) \in Stages
  BY StageAtType
<1>3. Unframe(Prefix(n), room) = Walk(Prefix(n), flg, room, max)[Refuses(StageAt(p, out, FALSE), e)]
  BY GetsOn
<1>4. Walk(Prefix(n), flg, room, max)[Refuses(StageAt(p, out, FALSE), e)] = Failure(e)
  <2> DEFINE w == Prefix(n)
             s == StageAt(p, out, FALSE)
  <2>1. w \in Seq(Byte) /\ s \in Stages
    BY <1>1, <1>2
  <2> HIDE DEF w, s
  <2>2. Walk(w, flg, room, max)[Refuses(s, e)] = Failure(e)
    BY <2>1, WalkRefused
  <2> QED
    BY <2>2 DEF w, s
<1> QED
  BY <1>3, <1>4

\* Behind the end mark.
LEMMA GetsClosing ==
    ASSUME frame \in Seq(Byte), out \in Seq(Byte), NEW p \in Nat, Gets(p, TRUE),
           NEW n \in Nat, 11 <= n, n <= Len(frame), p <= n
    PROVE  Unframe(Prefix(n), room) = Closing(Prefix(n), StageAt(p, out, TRUE), flg)
<1>1. Prefix(n) \in Seq(Byte)
  BY PrefixFacts
<1>2. StageAt(p, out, TRUE) \in Stages /\ StageAt(p, out, TRUE).done = TRUE
  BY StageAtType
<1>3. Walk(Prefix(n), flg, room, max)[StageAt(p, out, TRUE)] = Closing(Prefix(n), StageAt(p, out, TRUE), flg)
  <2> DEFINE w == Prefix(n)
             s == StageAt(p, out, TRUE)
  <2>1. w \in Seq(Byte) /\ s \in Stages /\ s.done
    BY <1>1, <1>2
  <2> HIDE DEF w, s
  <2>2. Walk(w, flg, room, max)[s] = Closing(w, s, flg)
    BY <2>1, WalkEnds
  <2> QED
    BY <2>2 DEF w, s
<1>4. n \in 11 .. Len(frame)
  OBVIOUS
<1> QED
  BY <1>3, <1>4 DEF Gets

\* What a block stands for.
LEMMA MeantType ==
    ASSUME frame \in Seq(Byte), out \in Seq(Byte), NEW p \in Nat, NEW z \in Nat, p + 4 + z <= Len(frame),
           NEW r
    PROVE  /\ Meant(p, z, r).err \in Errors /\ Meant(p, z, r).out \in Seq(Byte)
           /\ Continues(out, Meant(p, z, r).out)
<1> DEFINE s == StageAt(p, out, FALSE)
           d == DataOf(frame, s, z, r, Linked(flg), room, max)
<1>1. s \in Stages /\ s.sp = p /\ s.out = out
  BY StageAtType
<1> HIDE DEF s
<1>2. d.err \in Errors /\ d.out \in Seq(Byte) /\ Continues(s.out, d.out)
  BY <1>1, DataOfType
<1>3. d = Meant(p, z, r)
  <2>1. CASE r
    BY <1>1, <2>1 DEF DataOf, Meant, Part
  <2>2. CASE ~r
    BY <1>1, <2>2 DEF DataOf, Meant, Part, HistoryFloor
  <2> QED
    BY <2>1, <2>2
<1> HIDE DEF d
<1> QED
  BY <1>1, <1>2, <1>3

LEMMA DecodedMeant ==
    ASSUME NEW p, NEW data, data = SubSeq(frame, p + 4 + 1, p + 4 + size),
           NEW d, d = Meant(p, size, raw)
    PROVE  /\ Decoded(data).out = d.out
           /\ Decoded(data).err = d.err \/ (Decoded(data).err = "OUTPUT_LIMIT" /\ raw)
           /\ Decoded(data).err = "none" => d.err = "none"
<1>1. CASE raw
  <2> DEFINE k == Len(out) + size
             v == Overflow(k, room, MaxOutput, "OUTPUT_LIMIT")
             u == Overflow(k, room, room, "none")
  <2>1. Decoded(data) = [err |-> v, out |-> out \o data]
    BY <1>1 DEF Decoded
  <2>2. d = [err |-> u, out |-> out \o data]
    BY <1>1 DEF Meant
  <2> HIDE DEF k
  <2>3. (v = u \/ v = "OUTPUT_LIMIT") /\ (v = "none" => u = "none")
    <3>1. CASE k > room
      BY <3>1 DEF Overflow
    <3>2. CASE ~(k > room)
      BY <3>2 DEF Overflow
    <3> QED
      BY <3>1, <3>2
  <2>4. PICK x, y, z : x = v /\ y = u /\ z = out \o data
    OBVIOUS
  <2> HIDE DEF u, v
  <2>5. Decoded(data) = [err |-> x, out |-> z] /\ d = [err |-> y, out |-> z]
    BY <2>1, <2>2, <2>4
  <2>6. Decoded(data).out = z /\ Decoded(data).err = x /\ d.out = z /\ d.err = y
    BY <2>5
  <2> QED
    BY <1>1, <2>3, <2>4, <2>6, Zenon
<1>2. CASE ~raw
  <2>1. Decoded(data) = d
    BY <1>2 DEF Decoded, Meant
  <2> QED
    BY <2>1
<1> QED
  BY <1>1, <1>2

-----------------------------------------------------------------------------
(* The turns of lz4f_dec_write: what was answered goes on or agrees.       *)

LEMMA TurnAnswered ==
    ASSUME DecInv, Answered, pc = "in", UNCHANGED <<frame, room, end, verdict>>, out' \in Seq(Byte),
           pc' \in {"in", "out"},
           \/ /\ err' = "none" /\ Following'
              /\ pc' = "out" => state' = "DONE"
                                \/ (cp' = end /\ (state' = "BLOCK_DATA" => Len(block') < size'))
           \/ err' # "none" /\ Agree(err, Unframe(Received, room))'
    PROVE  Answered'
  BY DEF Answered

\* A turn that fails, as the batch decoder does.
LEMMA TurnFails ==
    ASSUME DecInv, Answered, pc = "in", UNCHANGED <<frame, room, end, verdict, out>>,
           pc' = "out", err' # "none", err' # "ok",
           11 <= end => Unframe(Prefix(end), room) = Failure(err')
    PROVE  Answered'
<1>1. Agree(err, Unframe(Received, room))'
  BY AgreeSame
<1>2. out' \in Seq(Byte)
  BY DEF Answered
<1> QED
  BY <1>1, <1>2, TurnAnswered

\* What is wrong with a header of at least eleven bytes.
LEMMA BatchOfHeader ==
    ASSUME DecInv, NEW e, e # "none", HeaderFault(Prefix(end)) = e, NEW cap
    PROVE  Unframe(Prefix(end), cap) = Failure(e)
  BY UnframeFails

LEMMA ReadMagicAnswered ==
    ASSUME DecInv, Answered, ReadMagic
    PROVE  Answered'
<1>1. In("MAGIC") /\ "MAGIC" \in DOMAIN FieldSize /\ FieldSize["MAGIC"] = 4
  BY FieldSizes DEF ReadMagic
<1>2. state = "MAGIC" /\ pc = "in" /\ err = "none"
  BY <1>1, WholeType
<1>3. PICK z \in Nat : z = 0
  OBVIOUS
<1>4. Begun(z) /\ desc = <<>> /\ Fresh /\ max = SmallBlock
  BY <1>2, <1>3 DEF Answered, Following
<1>5. /\ Whole = SubSeq(frame, z + 1, z + FieldSize["MAGIC"]) /\ cp' = z + FieldSize["MAGIC"]
      /\ z + FieldSize["MAGIC"] <= Len(frame)
  BY <1>1, <1>4, FieldRead
<1>6. Whole = SubSeq(frame, 1, 4) /\ cp' = 4 /\ 4 <= Len(frame)
  BY <1>1, <1>3, <1>5
<1>7. UNCHANGED <<frame, room, end, verdict, flg, desc, max, out, folded>>
  BY DEF ReadMagic, caller, reading, written
<1>8. CASE Whole # Magic
  <2>1. Poison("CORRUPT_DATA")
    BY <1>8 DEF ReadMagic
  <2>2. 11 <= end => Unframe(Prefix(end), room) = Failure("CORRUPT_DATA")
    <3> SUFFICES ASSUME 11 <= end PROVE Unframe(Prefix(end), room) = Failure("CORRUPT_DATA")
      OBVIOUS
    <3>1. HeaderFault(Prefix(end)) = "CORRUPT_DATA"
      BY <1>6, <1>8, DecFacts, PrefixHeader
    <3> QED
      BY <3>1, BatchOfHeader
  <2>3. err' = "CORRUPT_DATA" /\ pc' = "out"
    BY <2>1 DEF Poison
  <2> QED
    BY <1>2, <1>7, <2>2, <2>3, TurnFails
<1>9. CASE Whole = Magic
  <2>1. state' = "FLG" /\ field' = <<>> /\ err' = err /\ pc' = pc
    BY <1>9 DEF ReadMagic, GoTo
  <2>2. Begun(4)'
    <3>1. PICK b \in Nat : b = 4
      OBVIOUS
    <3>2. Begun(b)'
      BY <1>6, <1>7, <2>1, <3>1, BegunNext
    <3> QED
      BY <3>1, <3>2
  <2>3. Following'
    BY <1>4, <1>6, <1>7, <1>9, <2>1, <2>2 DEF Following, Fresh
  <2>4. out' \in Seq(Byte)
    BY <1>7 DEF Answered
  <2> QED
    BY <1>2, <1>7, <2>1, <2>3, <2>4, TurnAnswered
<1> QED
  BY <1>8, <1>9

LEMMA FlgFaultIs ==
    ASSUME NEW b
    PROVE  FlgFault(b) \in {"none", "UNSUPPORTED_FORMAT", "CORRUPT_DATA"}
  BY DEF FlgFault

LEMMA BdFaultIs ==
    ASSUME NEW b
    PROVE  BdFault(b) \in {"none", "CORRUPT_DATA"}
  BY DEF BdFault

LEMMA ReadFlgAnswered ==
    ASSUME DecInv, Answered, ReadFlg
    PROVE  Answered'
<1>1. In("FLG") /\ "FLG" \in DOMAIN FieldSize /\ FieldSize["FLG"] = 1
  BY FieldSizes DEF ReadFlg
<1>2. state = "FLG" /\ pc = "in" /\ err = "none"
  BY <1>1, WholeType
<1>3. PICK z \in Nat : z = 4
  OBVIOUS
<1>4. Begun(z) /\ desc = <<>> /\ Fresh /\ max = SmallBlock /\ SubSeq(frame, 1, 4) = Magic
  BY <1>2, <1>3 DEF Answered, Following
<1>5. /\ Whole = SubSeq(frame, z + 1, z + FieldSize["FLG"]) /\ cp' = z + FieldSize["FLG"]
      /\ z + FieldSize["FLG"] <= Len(frame)
  BY <1>1, <1>4, FieldRead
<1>6. Whole = SubSeq(frame, 5, 5) /\ cp' = 5 /\ 5 <= Len(frame)
  BY <1>1, <1>3, <1>5
<1>7. Whole = <<frame[5]>> /\ Whole \in Seq(Byte)
  <2>1. PICK i \in 1 .. Len(frame) : i = 5
    BY <1>6, DecFacts
  <2>2. SubSeq(frame, i, i) = <<frame[i]>> /\ frame \in Seq(Byte)
    BY DecFacts, OneByte
  <2> QED
    BY <1>1, <1>6, <2>1, <2>2, WholeType
<1>8. Whole[1] = frame[5]
  BY <1>7
<1>9. UNCHANGED <<frame, room, end, verdict, max, out, folded>>
  BY DEF ReadFlg, caller, reading, written
<1>10. CASE FlgFault(frame[5]) # "none"
  <2>1. PICK e \in {"UNSUPPORTED_FORMAT", "CORRUPT_DATA"} : e = FlgFault(frame[5])
    BY <1>10, FlgFaultIs
  <2>2. Poison(e)
    BY <1>8, <1>10, <2>1 DEF ReadFlg
  <2>3. 11 <= end => Unframe(Prefix(end), room) = Failure(e)
    <3> SUFFICES ASSUME 11 <= end PROVE Unframe(Prefix(end), room) = Failure(e)
      OBVIOUS
    <3>1. HeaderFault(Prefix(end)) = e
      BY <1>4, <1>10, <2>1, DecFacts, PrefixHeader
    <3> QED
      BY <2>1, <3>1, BatchOfHeader
  <2>4. err' = e /\ pc' = "out" /\ e # "none" /\ e # "ok"
    BY <2>1, <2>2 DEF Poison
  <2> QED
    BY <1>2, <1>9, <2>3, <2>4, TurnFails
<1>11. CASE FlgFault(frame[5]) = "none"
  <2>1. /\ state' = "BD" /\ field' = <<>> /\ err' = err /\ pc' = pc /\ flg' = frame[5]
        /\ desc' = desc \o Whole
    BY <1>8, <1>11 DEF ReadFlg, GoTo
  <2>2. Begun(5)'
    <3>1. PICK b \in Nat : b = 5
      OBVIOUS
    <3>2. Begun(b)'
      BY <1>6, <1>9, <2>1, <3>1, BegunNext
    <3> QED
      BY <3>1, <3>2
  <2>3. desc' = SubSeq(frame, 5, 5)
    <3>1. <<>> \o Whole = Whole
      BY <1>7, ConcatEmptySeq
    <3> QED
      BY <1>4, <1>6, <2>1, <3>1
  <2>4. FlgKnown'
    BY <1>4, <1>9, <1>11, <2>1 DEF FlgKnown
  <2>5. Following'
    BY <1>4, <1>9, <2>1, <2>2, <2>3, <2>4 DEF Following, Fresh
  <2>6. out' \in Seq(Byte)
    BY <1>9 DEF Answered
  <2> QED
    BY <1>2, <1>9, <2>1, <2>5, <2>6, TurnAnswered
<1> QED
  BY <1>10, <1>11

\* The field behind the BD byte or behind an optional one.
LEMMA NextField ==
    ASSUME BdKnown', Fresh', desc' = SubSeq(frame', 5, cp'), DecInv, field' = <<>>, frame' = frame,
           NEW b \in Nat, cp' = b, b <= Len(frame),
           \/ state' = "CONTENT_SIZE" /\ HasContentSize(flg') /\ b = 6
           \/ state' = "DICT_ID" /\ HasDictId(flg') /\ b = DescEnd(flg') - 4
           \/ state' = "HC" /\ b = DescEnd(flg')
    PROVE  Following'
<1>1. Begun(b)'
  BY BegunNext
<1>2. InDescriptor'
  BY <1>1 DEF InDescriptor
<1> QED
  BY <1>2 DEF Following

LEMMA ReadBdAnswered ==
    ASSUME DecInv, Answered, ReadBd
    PROVE  Answered'
<1>1. In("BD") /\ "BD" \in DOMAIN FieldSize /\ FieldSize["BD"] = 1
  BY FieldSizes DEF ReadBd
<1>2. state = "BD" /\ pc = "in" /\ err = "none"
  BY <1>1, WholeType
<1>3. PICK z \in Nat : z = 5
  OBVIOUS
<1>4. Begun(z) /\ desc = SubSeq(frame, 5, 5) /\ Fresh /\ max = SmallBlock /\ FlgKnown
  BY <1>2, <1>3 DEF Answered, Following
<1>5. /\ Whole = SubSeq(frame, z + 1, z + FieldSize["BD"]) /\ cp' = z + FieldSize["BD"]
      /\ z + FieldSize["BD"] <= Len(frame)
  BY <1>1, <1>4, FieldRead
<1>6. Whole = SubSeq(frame, 6, 6) /\ cp' = 6 /\ 6 <= Len(frame)
  BY <1>1, <1>3, <1>5
<1>7. Whole = <<frame[6]>>
  <2>1. PICK i \in 1 .. Len(frame) : i = 6
    BY <1>6, DecFacts
  <2>2. SubSeq(frame, i, i) = <<frame[i]>> /\ frame \in Seq(Byte)
    BY DecFacts, OneByte
  <2> QED
    BY <1>6, <2>1, <2>2
<1>8. Whole[1] = frame[6]
  BY <1>7
<1>9. UNCHANGED <<frame, room, end, verdict, flg, out, folded, raw>>
  BY DEF ReadBd, caller, written
<1>10. out' \in Seq(Byte)
  BY <1>9 DEF Answered
<1>11. CASE BdFault(frame[6]) # "none"
  <2>1. Poison("CORRUPT_DATA")
    BY <1>8, <1>11 DEF ReadBd
  <2>2. 11 <= end => Unframe(Prefix(end), room) = Failure("CORRUPT_DATA")
    <3> SUFFICES ASSUME 11 <= end PROVE Unframe(Prefix(end), room) = Failure("CORRUPT_DATA")
      OBVIOUS
    <3>1. BdFault(frame[6]) = "CORRUPT_DATA"
      BY <1>11, BdFaultIs
    <3>2. HeaderFault(Prefix(end)) = "CORRUPT_DATA"
      BY <1>4, <1>11, <3>1, DecFacts, PrefixHeader DEF FlgKnown
    <3> QED
      BY <3>2, BatchOfHeader
  <2>3. err' = "CORRUPT_DATA" /\ pc' = "out"
    BY <2>1 DEF Poison
  <2> QED
    BY <1>2, <1>9, <2>2, <2>3, TurnFails
<1>12. CASE BdFault(frame[6]) = "none" /\ err' # "none"
  <2>1. Poison("BUFFER_TOO_SMALL")
    BY <1>2, <1>8, <1>12 DEF ReadBd, GoTo
  <2>2. err' = "BUFFER_TOO_SMALL" /\ state' = "BD" /\ pc' = "out"
    BY <1>2, <2>1 DEF Poison
  <2>3. Agree(err, Unframe(Received, room))'
    BY <2>2 DEF Agree, OnlyHere
  <2> QED
    BY <1>2, <1>9, <1>10, <2>2, <2>3, TurnAnswered
<1>13. CASE BdFault(frame[6]) = "none" /\ err' = "none"
  <2>1. /\ GoTo(AfterBd({}))
        /\ max' = IF BlockMax(frame[6] \div 16) > max THEN BlockMax(frame[6] \div 16) ELSE max
        /\ desc' = desc \o Whole
    <3>1. ~Poison("CORRUPT_DATA") /\ ~Poison("BUFFER_TOO_SMALL")
      BY <1>13 DEF Poison
    <3> QED
      BY <1>8, <3>1, Zenon DEF ReadBd
  <2>2. field' = <<>> /\ err' = err /\ pc' = pc /\ state' = AfterBd({})
    BY <2>1 DEF GoTo
  <2>3. desc' = SubSeq(frame, 5, 6)
    <3>1. PICK a \in Nat : a = 4
      OBVIOUS
    <3>2. PICK b \in Nat : b = 5
      OBVIOUS
    <3>3. PICK c \in Nat : c = 6
      OBVIOUS
    <3>4. a <= b /\ b <= c /\ c <= Len(frame) /\ frame \in Seq(Byte)
      BY <1>6, <3>1, <3>2, <3>3, DecFacts
    <3>5. SubSeq(frame, a + 1, b) \o SubSeq(frame, b + 1, c) = SubSeq(frame, a + 1, c)
      BY <3>4, StretchesMeet
    <3> QED
      BY <1>4, <1>6, <2>1, <3>1, <3>2, <3>3, <3>5
  <2>4. max' = BlockMax(frame[6] \div 16)
    <3>1. frame[6] \in Nat
      <4>1. 6 \in 1 .. Len(frame) /\ frame \in Seq(Byte)
        BY <1>6, DecFacts
      <4> QED
        BY <4>1, ElementOfSeq, ByteIsNumber
    <3>2. PICK b \in Nat : b = frame[6]
      BY <3>1
    <3>3. b \div 16 \in 4 .. 7
      <4>1. b < 128 /\ ~(b \div 16 < 4)
        BY <1>13, <3>2 DEF BdFault
      <4> QED
        BY <4>1
    <3>4. PICK m \in Nat : m = BlockMax(b \div 16) /\ m >= SmallBlock /\ SmallBlock \in Nat
      BY <3>3, BlockMaxType
    <3> QED
      BY <1>4, <2>1, <3>2, <3>4
  <2>5. BdKnown' /\ Fresh'
    BY <1>4, <1>9, <1>13, <2>4 DEF BdKnown, FlgKnown, Fresh
  <2>6. \/ state' = "CONTENT_SIZE" /\ HasContentSize(flg')
        \/ state' = "DICT_ID" /\ HasDictId(flg') /\ DescEnd(flg') = 10
        \/ state' = "HC" /\ DescEnd(flg') = 6
    BY <1>9, <2>2, DescEndIs DEF AfterBd
  <2>7. Following'
    <3>1. PICK b \in Nat : b = 6
      OBVIOUS
    <3>2. \/ state' = "CONTENT_SIZE" /\ HasContentSize(flg') /\ b = 6
          \/ state' = "DICT_ID" /\ HasDictId(flg') /\ b = DescEnd(flg') - 4
          \/ state' = "HC" /\ b = DescEnd(flg')
      BY <2>6, <3>1
    <3>3. desc' = SubSeq(frame', 5, cp') /\ cp' = b /\ b <= Len(frame) /\ frame' = frame
      BY <1>6, <1>9, <2>3, <3>1
    <3> QED
      BY <2>2, <2>5, <3>2, <3>3, NextField
  <2> QED
    BY <1>2, <1>9, <1>10, <2>2, <2>7, TurnAnswered
<1> QED
  BY <1>11, <1>12, <1>13

LEMMA StretchOfStretch ==
    ASSUME NEW text \in Seq(Byte), NEW a \in Nat, NEW b \in Nat, a <= b, b <= Len(text),
           NEW c \in Nat, NEW d \in Nat, c <= d, a + d <= b
    PROVE  SubSeq(SubSeq(text, a + 1, b), c + 1, d) = SubSeq(text, a + c + 1, a + d)
<1> DEFINE s == SubSeq(text, a + 1, b)
           x == SubSeq(s, c + 1, d)
           y == SubSeq(text, a + c + 1, a + d)
<1>1. \A k \in a + 1 .. b : text[k] \in Byte
  OBVIOUS
<1>2. s \in Seq(Byte) /\ Len(s) = b - a
  BY StretchSize
<1>3. ASSUME NEW i \in 1 .. b - a PROVE s[i] = text[a + i]
  <2>1. b - (a + 1) + 1 = b - a /\ a + 1 + i - 1 = a + i
    OBVIOUS
  <2>2. s[i] = text[a + 1 + i - 1]
    BY <1>1, <2>1, SubSeqProperties
  <2> QED
    BY <2>1, <2>2
<1> HIDE DEF s
<1>4. d <= Len(s) /\ \A k \in c + 1 .. d : s[k] \in Byte
  BY <1>2
<1>5. x \in Seq(Byte) /\ Len(x) = d - c
  BY <1>2, <1>4, StretchSize
<1>6. PICK u, v \in Nat : u = a + c /\ v = a + d
  OBVIOUS
<1>7. u <= v /\ v <= Len(text)
  BY <1>6
<1>8. y \in Seq(Byte) /\ Len(y) = d - c
  <2>1. SubSeq(text, u + 1, v) \in Seq(Byte) /\ Len(SubSeq(text, u + 1, v)) = v - u
    BY <1>7, StretchSize
  <2>2. v - u = d - c
    BY <1>6
  <2> QED
    BY <1>6, <2>1, <2>2
<1>9. ASSUME NEW i \in 1 .. d - c PROVE x[i] = y[i]
  <2>1. /\ d - (c + 1) + 1 = d - c /\ c + 1 + i - 1 = c + i /\ c + i \in 1 .. b - a
        /\ a + d - (a + c + 1) + 1 = d - c /\ a + c + 1 + i - 1 = a + (c + i)
    OBVIOUS
  <2>2. x[i] = s[c + 1 + i - 1]
    BY <1>4, <2>1, SubSeqProperties
  <2>3. \A k \in a + c + 1 .. a + d : text[k] \in Byte
    OBVIOUS
  <2>4. y[i] = text[a + c + 1 + i - 1]
    BY <2>1, <2>3, SubSeqProperties
  <2> QED
    BY <1>3, <2>1, <2>2, <2>4
<1> HIDE DEF x, y
<1>10. Len(x) = Len(y) /\ \A i \in 1 .. Len(x) : x[i] = y[i]
  BY <1>5, <1>8, <1>9
<1>11. x = y
  BY <1>5, <1>8, <1>10, SeqEqual
<1> QED
  BY <1>11 DEF x, y, s

\* What is behind the end mark, which ends at p.
LEMMA PrefixClosing ==
    ASSUME DecInv, NEW n \in Nat, 11 <= n, n <= Len(frame), NEW p \in Nat, p <= n,
           DescEnd(flg) + 1 <= p, desc = SubSeq(frame, 5, DescEnd(flg))
    PROVE  Closing(Prefix(n), StageAt(p, out, TRUE), flg) =
             IF ~SizeHolds THEN Failure("CORRUPT_DATA")
             ELSE IF ~HasContentSum(flg) THEN [err |-> "none", out |-> out]
             ELSE IF p + 4 > n THEN Failure("CORRUPT_DATA")
             ELSE IF SubSeq(frame, p + 1, p + 4) # Checksum(out) THEN Failure("CHECKSUM_MISMATCH")
             ELSE [err |-> "none", out |-> out]
<1> DEFINE w == Prefix(n)
           s == StageAt(p, out, TRUE)
<1>1. frame \in Seq(Byte) /\ Len(frame) \in Nat
  BY DecFacts
<1>2. w \in Seq(Byte) /\ Len(w) = n
  BY <1>1, PrefixFacts
<1>3. s.sp = p /\ s.out = out /\ s.err = "none"
  BY DEF StageAt
<1>4. HasContentSize(flg) => Part(w, 6, 8) = SubSeq(desc, 3, 10)
  <2> SUFFICES ASSUME HasContentSize(flg) PROVE Part(w, 6, 8) = SubSeq(desc, 3, 10)
    OBVIOUS
  <2>1. PICK e \in Nat : e = DescEnd(flg)
    BY DescEndIs
  <2>2. 14 <= e
    BY <2>1, DescEndIs
  <2>3. PICK a, c, d \in Nat : a = 4 /\ c = 2 /\ d = 10
    OBVIOUS
  <2>4. a <= e /\ e <= Len(frame) /\ c <= d /\ a + d <= e
    BY <1>1, <2>1, <2>2, <2>3
  <2>5. SubSeq(SubSeq(frame, a + 1, e), c + 1, d) = SubSeq(frame, a + c + 1, a + d)
    BY <1>1, <2>4, StretchOfStretch
  <2>6. a + 1 = 5 /\ c + 1 = 3 /\ a + c + 1 = 7 /\ a + d = 14
    BY <2>3
  <2>11. SubSeq(desc, 3, 10) = SubSeq(frame, 7, 14)
    BY <2>1, <2>3, <2>5, <2>6, Zenon
  <2>7. PICK i, j \in Nat : i = 6 /\ j = 14
    OBVIOUS
  <2>8. i <= j /\ j <= n
    BY <1>1, <2>1, <2>2, <2>7
  <2>9. SubSeq(w, i + 1, j) = SubSeq(frame, i + 1, j)
    BY <1>1, <2>8, PrefixPart
  <2>10. i + 1 = 7 /\ 6 + 1 = 7 /\ 6 + 8 = 14
    BY <2>7
  <2> HIDE DEF w
  <2> QED
    BY <2>11, <2>7, <2>9, <2>10, Zenon DEF Part
<1>5. ~(p + 4 > n) => Part(w, p, 4) = SubSeq(frame, p + 1, p + 4)
  <2> SUFFICES ASSUME ~(p + 4 > n) PROVE Part(w, p, 4) = SubSeq(frame, p + 1, p + 4)
    OBVIOUS
  <2>1. PICK q \in Nat : q = p + 4
    OBVIOUS
  <2>2. p <= q /\ q <= n
    BY <2>1
  <2>3. SubSeq(w, p + 1, q) = SubSeq(frame, p + 1, q)
    BY <1>1, <2>2, PrefixPart
  <2> HIDE DEF w
  <2> QED
    BY <2>1, <2>3 DEF Part
<1> HIDE DEF w, s
<1>6. Closing(w, s, flg) =
        IF HasContentSize(flg) /\ Part(w, 6, 8) # Little(Len(out)) \o EndMark THEN Failure("CORRUPT_DATA")
        ELSE IF ~HasContentSum(flg) THEN [err |-> "none", out |-> out]
        ELSE IF p + 4 > n THEN Failure("CORRUPT_DATA")
        ELSE IF Part(w, p, 4) # Checksum(out) THEN Failure("CHECKSUM_MISMATCH")
        ELSE [err |-> "none", out |-> out]
  BY <1>2, <1>3, Zenon DEF Closing
<1>7. HasContentSize(flg) /\ Part(w, 6, 8) # Little(Len(out)) \o EndMark <=> ~SizeHolds
  BY <1>4 DEF SizeHolds
<1>8. CASE p + 4 > n
  BY <1>6, <1>7, <1>8, Zenon DEF w, s
<1>9. CASE ~(p + 4 > n)
  BY <1>5, <1>6, <1>7, <1>9, Zenon DEF w, s
<1> QED
  BY <1>8, <1>9

\* The optional fields are collected in the descriptor.
LEMMA DescribedMore ==
    ASSUME DecInv, NEW s \in {"CONTENT_SIZE", "DICT_ID"}, In(s), NEW b \in Nat, Begun(b),
           4 <= b, desc = SubSeq(frame, 5, cp), desc' = Described(Missing)
    PROVE  desc' = SubSeq(frame, 5, cp')
<1>1. s \in DOMAIN FieldSize /\ pc = "in" /\ state = s /\ cp' = cp + Missing /\ ~Short /\ s # "BLOCK_DATA"
  BY FieldSizes DEF In
<1>2. /\ frame \in Seq(Byte) /\ Len(frame) \in Nat /\ cp \in Nat /\ end \in Nat /\ end <= Len(frame)
      /\ cp <= end
  BY DecFacts
<1>3. Missing \in Nat /\ Missing <= end - cp
  BY <1>1, MissingType DEF Short, Left
<1>4. desc' = SubSeq(frame, 5, cp) \o SubSeq(frame, cp + 1, cp + Missing)
  BY <1>1 DEF Described, Coming
<1>5. PICK a \in Nat : a = 4
  OBVIOUS
<1>6. PICK u \in Nat : u = cp + Missing
  BY <1>2, <1>3
<1>7. a <= cp /\ cp <= u /\ u <= Len(frame)
  <2>1. b <= cp
    BY DEF Begun
  <2> QED
    BY <1>2, <1>3, <1>5, <1>6, <2>1
<1>8. SubSeq(frame, a + 1, cp) \o SubSeq(frame, cp + 1, u) = SubSeq(frame, a + 1, u)
  BY <1>2, <1>7, StretchesMeet
<1>9. a + 1 = 5
  BY <1>5
<1> QED
  BY <1>1, <1>4, <1>6, <1>8, <1>9, Zenon

LEMMA ReadContentSizeAnswered ==
    ASSUME DecInv, Answered, ReadContentSize
    PROVE  Answered'
<1>1. In("CONTENT_SIZE") /\ "CONTENT_SIZE" \in DOMAIN FieldSize /\ FieldSize["CONTENT_SIZE"] = 8
  BY FieldSizes DEF ReadContentSize
<1>2. state = "CONTENT_SIZE" /\ pc = "in" /\ err = "none"
  BY <1>1, WholeType
<1>3. PICK z \in Nat : z = 6
  OBVIOUS
<1>4. Begun(z) /\ HasContentSize(flg) /\ desc = SubSeq(frame, 5, cp) /\ BdKnown /\ Fresh
  BY <1>2, <1>3 DEF Answered, Following, InDescriptor
<1>5. cp' = z + FieldSize["CONTENT_SIZE"] /\ z + FieldSize["CONTENT_SIZE"] <= Len(frame)
  BY <1>1, <1>4, FieldRead
<1>6. /\ UNCHANGED <<frame, room, end, verdict, flg, max, out, folded, err, pc>>
      /\ field' = <<>> /\ state' = AfterBd({"size"}) /\ desc' = Described(Missing)
  BY DEF ReadContentSize, GoTo, caller, reading, written
<1>7. desc' = SubSeq(frame, 5, cp')
  <2>1. PICK s \in {"CONTENT_SIZE", "DICT_ID"} : s = "CONTENT_SIZE"
    OBVIOUS
  <2>2. In(s) /\ 4 <= z
    BY <1>1, <1>3, <2>1
  <2> QED
    BY <1>4, <1>6, <2>2, DescribedMore
<1>8. BdKnown' /\ Fresh'
  BY <1>4, <1>6 DEF BdKnown, FlgKnown, Fresh
<1>9. \/ state' = "DICT_ID" /\ HasDictId(flg') /\ DescEnd(flg') = 18
      \/ state' = "HC" /\ DescEnd(flg') = 14
  BY <1>4, <1>6, DescEndIs DEF AfterBd
<1>10. Following'
  <2>1. PICK b \in Nat : b = 14
    OBVIOUS
  <2>2. \/ state' = "DICT_ID" /\ HasDictId(flg') /\ b = DescEnd(flg') - 4
        \/ state' = "HC" /\ b = DescEnd(flg')
    BY <1>9, <2>1
  <2>3. cp' = b /\ b <= Len(frame) /\ desc' = SubSeq(frame', 5, cp')
    BY <1>1, <1>3, <1>5, <1>6, <1>7, <2>1
  <2> QED
    BY <1>6, <1>8, <2>2, <2>3, NextField
<1>11. out' \in Seq(Byte)
  BY <1>6 DEF Answered
<1> QED
  BY <1>2, <1>6, <1>10, <1>11, TurnAnswered

LEMMA ReadDictIdAnswered ==
    ASSUME DecInv, Answered, ReadDictId
    PROVE  Answered'
<1>1. In("DICT_ID") /\ "DICT_ID" \in DOMAIN FieldSize /\ FieldSize["DICT_ID"] = 4
  BY FieldSizes DEF ReadDictId
<1>2. state = "DICT_ID" /\ pc = "in" /\ err = "none"
  BY <1>1, WholeType
<1>3. HasDictId(flg) /\ Begun(DescEnd(flg) - 4) /\ desc = SubSeq(frame, 5, cp) /\ BdKnown /\ Fresh
  BY <1>2 DEF Answered, Following, InDescriptor
<1>4. PICK z \in Nat : z = DescEnd(flg) - 4 /\ 4 <= z
  <2>1. DescEnd(flg) \in {10, 18}
    BY <1>3, DescEndIs
  <2>2. DescEnd(flg) - 4 \in Nat /\ 4 <= DescEnd(flg) - 4
    BY <2>1
  <2> QED
    BY <2>2
<1>5. Begun(z)
  BY <1>3, <1>4
<1>6. cp' = z + FieldSize["DICT_ID"] /\ z + FieldSize["DICT_ID"] <= Len(frame)
  BY <1>1, <1>5, FieldRead
<1>7. /\ UNCHANGED <<frame, room, end, verdict, flg, max, out, folded, err, pc>>
      /\ field' = <<>> /\ state' = "HC" /\ desc' = Described(Missing)
  BY DEF ReadDictId, GoTo, AfterBd, caller, reading, written
<1>8. desc' = SubSeq(frame, 5, cp')
  <2>1. PICK s \in {"CONTENT_SIZE", "DICT_ID"} : s = "DICT_ID"
    OBVIOUS
  <2>2. In(s)
    BY <1>1, <2>1
  <2> QED
    BY <1>3, <1>4, <1>5, <1>7, <2>2, DescribedMore
<1>9. BdKnown' /\ Fresh'
  BY <1>3, <1>7 DEF BdKnown, FlgKnown, Fresh
<1>10. PICK b \in Nat : b = DescEnd(flg)
  BY DescEndIs
<1>11. cp' = b /\ b <= Len(frame) /\ b = DescEnd(flg')
  BY <1>1, <1>4, <1>6, <1>7, <1>10
<1>12. desc' = SubSeq(frame', 5, cp')
  BY <1>7, <1>8
<1>13. Following'
  BY <1>7, <1>9, <1>11, <1>12, NextField
<1>14. out' \in Seq(Byte)
  BY <1>7 DEF Answered
<1> QED
  BY <1>2, <1>7, <1>13, <1>14, TurnAnswered
\* What is known stays so while the frame and what was read of it do.
LEMMA GetsStays ==
    ASSUME NEW p, NEW d, Gets(p, d), UNCHANGED <<frame, room, flg, max, out>>
    PROVE  Gets(p, d)'
  BY DEF Gets, Prefix

LEMMA DescStays ==
    ASSUME DecInv, DescKnown, UNCHANGED <<frame, flg, max, desc, out, folded>>, cp' \in Nat, cp <= cp'
    PROVE  DescKnown'
<1>1. PICK d \in Nat : d = DescEnd(flg) + 1
  BY DescEndIs
<1>2. cp \in Nat
  BY DecFacts
<1>3. d <= cp'
  BY <1>1, <1>2 DEF DescKnown
<1>4. DescEnd(flg)' = DescEnd(flg)
  OBVIOUS
<1>5. BdKnown'
  BY DEF DescKnown, BdKnown, FlgKnown
<1> QED
  BY <1>1, <1>3, <1>4, <1>5 DEF DescKnown

LEMMA ReadHcAnswered ==
    ASSUME DecInv, Answered, ReadHc
    PROVE  Answered'
<1>1. In("HC") /\ "HC" \in DOMAIN FieldSize /\ FieldSize["HC"] = 1
  BY FieldSizes DEF ReadHc, FieldSize
<1>2. state = "HC" /\ pc = "in" /\ err = "none" /\ cp' \in 0 .. end
  BY <1>1, WholeType
<1>3. PICK z \in Nat : z = DescEnd(flg)
  BY DescEndIs
<1>4. Begun(z) /\ desc = SubSeq(frame, 5, z) /\ BdKnown /\ Fresh
  BY <1>2, <1>3 DEF Answered, Following, InDescriptor
<1>5. /\ Whole = SubSeq(frame, z + 1, z + FieldSize["HC"]) /\ cp' = z + FieldSize["HC"]
      /\ z + FieldSize["HC"] <= Len(frame)
  BY <1>1, <1>4, FieldRead
<1>6. PICK p \in 1 .. Len(frame) : p = z + 1
  BY <1>1, <1>5, DecFacts
<1>7. Whole = SubSeq(frame, p, p) /\ cp' = p /\ p <= end
  BY <1>1, <1>2, <1>5, <1>6, DecFacts
<1>8. Whole = <<frame[p]>>
  BY <1>7, DecFacts, OneByte
<1>9. Whole[1] = frame[p]
  BY <1>8
<1>10. UNCHANGED <<frame, room, end, verdict, flg, desc, max, block, out, folded>>
  BY DEF ReadHc, caller, reading, written
<1>11. out' \in Seq(Byte)
  BY <1>10 DEF Answered
<1>12. frame \in Seq(Byte) /\ Len(frame) \in Nat /\ end \in Nat /\ end <= Len(frame)
  BY DecFacts
<1>13. ASSUME NEW n \in Nat, 11 <= n, n <= Len(frame), p <= n
       PROVE  HeaderFault(Prefix(n)) = IF HeaderSum(desc) # frame[p] THEN "CHECKSUM_MISMATCH" ELSE "none"
  <2>1. ~(z + 1 > n)
    BY <1>6, <1>13
  <2>2. /\ SubSeq(frame, 1, 4) = Magic /\ FlgFault(frame[5]) = "none" /\ BdFault(frame[6]) = "none"
        /\ DescEnd(frame[5]) = z
    BY <1>3, <1>4 DEF BdKnown, FlgKnown
  <2>3. HeaderFault(Prefix(n)) =
          IF SubSeq(frame, 1, 4) # Magic THEN "CORRUPT_DATA"
          ELSE IF FlgFault(frame[5]) # "none" THEN FlgFault(frame[5])
          ELSE IF BdFault(frame[6]) # "none" THEN BdFault(frame[6])
          ELSE IF DescEnd(frame[5]) + 1 > n THEN "CORRUPT_DATA"
          ELSE IF HeaderSum(SubSeq(frame, 5, DescEnd(frame[5]))) # frame[DescEnd(frame[5]) + 1]
            THEN "CHECKSUM_MISMATCH"
          ELSE "none"
    BY <1>12, <1>13, PrefixHeader
  <2> QED
    BY <1>4, <1>6, <2>1, <2>2, <2>3, Zenon
<1>14. CASE HeaderSum(desc) # Whole[1]
  <2>1. Poison("CHECKSUM_MISMATCH")
    BY <1>14 DEF ReadHc
  <2>2. err' = "CHECKSUM_MISMATCH" /\ pc' = "out"
    BY <2>1 DEF Poison
  <2>3. 11 <= end => Unframe(Prefix(end), room) = Failure("CHECKSUM_MISMATCH")
    <3> SUFFICES ASSUME 11 <= end PROVE Unframe(Prefix(end), room) = Failure("CHECKSUM_MISMATCH")
      OBVIOUS
    <3>1. HeaderFault(Prefix(end)) = "CHECKSUM_MISMATCH"
      BY <1>7, <1>9, <1>12, <1>13, <1>14
    <3> QED
      BY <3>1, BatchOfHeader
  <2> QED
    BY <1>2, <1>10, <2>2, <2>3, TurnFails
<1>15. CASE HeaderSum(desc) = Whole[1]
  <2>1. state' = "BLOCK_SIZE" /\ field' = <<>> /\ err' = err /\ pc' = pc
    BY <1>15 DEF ReadHc, GoTo
  <2>2. ASSUME NEW n \in 11 .. Len(frame), p <= n
        PROVE  Unframe(Prefix(n), room) = Walk(Prefix(n), flg, room, max)[StageAt(p, out, FALSE)]
    <3>1. n \in Nat /\ 11 <= n /\ n <= Len(frame)
      BY <1>12
    <3>2. HeaderFault(Prefix(n)) = "none"
      BY <1>9, <1>13, <1>15, <2>2, <3>1
    <3>3. Prefix(n)[5] = flg /\ Prefix(n)[6] = frame[6]
      <4>1. 5 \in 1 .. n /\ 6 \in 1 .. n
        BY <3>1
      <4> QED
        BY <1>4, <1>12, <3>1, <4>1, PrefixFacts DEF BdKnown, FlgKnown
    <3>4. BlockMax(Prefix(n)[6] \div 16) = max /\ DescEnd(Prefix(n)[5]) + 1 = p /\ out = <<>>
      BY <1>3, <1>4, <1>6, <3>3 DEF BdKnown, Fresh
    <3>5. Unframe(Prefix(n), room) =
             Walk(Prefix(n), Prefix(n)[5], room, BlockMax(Prefix(n)[6] \div 16))
               [StageAt(DescEnd(Prefix(n)[5]) + 1, <<>>, FALSE)]
      BY <3>2, UnframeWalks
    <3> QED
      BY <3>3, <3>4, <3>5, Zenon
  <2>3. p \in DescEnd(flg) + 1 .. Len(frame)
    BY <1>3, <1>6
  <2>4. Gets(p, FALSE)
    BY <2>2, <2>3 DEF Gets
  <2>5. Gets(p, FALSE)'
    BY <1>10, <2>4, GetsStays
  <2>6. BdKnown'
    BY <1>4, <1>10 DEF BdKnown, FlgKnown
  <2>7. DescKnown'
    <3>1. DescEnd(flg') + 1 <= cp' /\ desc' = SubSeq(frame', 5, DescEnd(flg'))
      BY <1>3, <1>4, <1>6, <1>7, <1>10
    <3>2. HeaderSum(desc') = frame'[DescEnd(flg') + 1]
      BY <1>3, <1>6, <1>9, <1>10, <1>15
    <3>3. folded' = <<>> /\ out' = <<>>
      BY <1>4, <1>10 DEF Fresh
    <3> QED
      BY <2>6, <3>1, <3>2, <3>3 DEF DescKnown
  <2>8. Begun(p)'
    BY <1>6, <1>7, <1>10, <2>1, BegunNext
  <2>9. AtSize(p)'
    BY <2>5, <2>7, <2>8 DEF AtSize
  <2>10. Following'
    BY <1>6, <2>1, <2>9 DEF Following
  <2> QED
    BY <1>2, <1>10, <1>11, <2>1, <2>10, TurnAnswered
<1> QED
  BY <1>14, <1>15


\* The size field of a block, which begins at p.
LEMMA BlockSizeRead ==
    ASSUME DecInv, Answered, In("BLOCK_SIZE")
    PROVE  \E p \in Nat :
              /\ AtSize(p) /\ Whole = SubSeq(frame, p + 1, p + 4) /\ cp' = p + 4
              /\ p + 4 <= end /\ Whole \in Seq(Byte) /\ Len(Whole) = 4
              /\ pc = "in" /\ err = "none" /\ state = "BLOCK_SIZE"
<1>1. In("BLOCK_SIZE") /\ "BLOCK_SIZE" \in DOMAIN FieldSize /\ FieldSize["BLOCK_SIZE"] = 4
  BY FieldSizes
<1>2. /\ state = "BLOCK_SIZE" /\ pc = "in" /\ err = "none" /\ cp' \in 0 .. end
      /\ Whole \in Seq(Byte) /\ Len(Whole) = 4
  BY <1>1, WholeType
<1>3. PICK p \in Nat : AtSize(p)
  BY <1>2 DEF Answered, Following
<1>4. Begun(p)
  BY <1>3 DEF AtSize
<1>5. Whole = SubSeq(frame, p + 1, p + FieldSize["BLOCK_SIZE"]) /\ cp' = p + FieldSize["BLOCK_SIZE"]
  BY <1>1, <1>4, FieldRead
<1>6. Whole = SubSeq(frame, p + 1, p + 4) /\ cp' = p + 4
  BY <1>1, <1>5
<1>7. p + 4 <= end
  BY <1>2, <1>6, DecFacts
<1> QED
  BY <1>2, <1>3, <1>6, <1>7

\* The end mark, which ends at c.
LEMMA EndMarkFound ==
    ASSUME frame \in Seq(Byte), out \in Seq(Byte), NEW p \in Nat, Gets(p, FALSE),
           SubSeq(frame, p + 1, p + 4) = EndMark, NEW c \in Nat, c = p + 4, c <= Len(frame)
    PROVE  Gets(c, TRUE)
<1>1. ASSUME NEW n \in 11 .. Len(frame), c <= n
      PROVE  Unframe(Prefix(n), room) = Walk(Prefix(n), flg, room, max)[StageAt(c, out, TRUE)]
  <2>1. n \in Nat /\ 11 <= n /\ n <= Len(frame) /\ p <= n /\ ~(p + 4 > n)
    BY <1>1
  <2>2. Block(Prefix(n), StageAt(p, out, FALSE), flg, room, max) = BlockFrom(n, p)
    BY <2>1, PrefixBlock
  <2>3. BlockFrom(n, p) = StageAt(c, out, TRUE)
    BY <2>1, Zenon DEF BlockFrom
  <2>4. PICK b : b = Block(Prefix(n), StageAt(p, out, FALSE), flg, room, max)
    OBVIOUS
  <2>5. Unframe(Prefix(n), room) = Walk(Prefix(n), flg, room, max)[b]
    BY <2>1, <2>4, GetsOn
  <2> QED
    BY <2>2, <2>3, <2>4, <2>5
<1>2. c \in DescEnd(flg) + 1 .. Len(frame)
  <2>1. PICK d \in Nat : d = DescEnd(flg)
    BY DescEndIs
  <2>2. d + 1 <= p
    BY <2>1 DEF Gets
  <2> QED
    BY <2>1, <2>2
<1> QED
  BY <1>1, <1>2 DEF Gets

\* What the batch decoder says behind the end mark.
LEMMA BatchBehindEnd ==
    ASSUME DecInv, DescKnown, out \in Seq(Byte), NEW c \in Nat, Gets(c, TRUE),
           NEW n \in Nat, 11 <= n, n <= Len(frame), c <= n
    PROVE  Unframe(Prefix(n), room) =
             IF ~SizeHolds THEN Failure("CORRUPT_DATA")
             ELSE IF ~HasContentSum(flg) THEN [err |-> "none", out |-> out]
             ELSE IF c + 4 > n THEN Failure("CORRUPT_DATA")
             ELSE IF SubSeq(frame, c + 1, c + 4) # Checksum(out) THEN Failure("CHECKSUM_MISMATCH")
             ELSE [err |-> "none", out |-> out]
<1>1. frame \in Seq(Byte)
  BY DecFacts
<1>2. DescEnd(flg) + 1 <= c
  <2>1. PICK d \in Nat : d = DescEnd(flg)
    BY DescEndIs
  <2> QED
    BY <2>1 DEF Gets
<1>3. desc = SubSeq(frame, 5, DescEnd(flg))
  BY DEF DescKnown
<1>4. Unframe(Prefix(n), room) = Closing(Prefix(n), StageAt(c, out, TRUE), flg)
  BY <1>1, GetsClosing
<1>5. Closing(Prefix(n), StageAt(c, out, TRUE), flg) =
             IF ~SizeHolds THEN Failure("CORRUPT_DATA")
             ELSE IF ~HasContentSum(flg) THEN [err |-> "none", out |-> out]
             ELSE IF c + 4 > n THEN Failure("CORRUPT_DATA")
             ELSE IF SubSeq(frame, c + 1, c + 4) # Checksum(out) THEN Failure("CHECKSUM_MISMATCH")
             ELSE [err |-> "none", out |-> out]
  BY <1>2, <1>3, PrefixClosing
<1> QED
  BY <1>4, <1>5

LEMMA ReadEndMarkAnswered ==
    ASSUME DecInv, Answered, ReadEndMark
    PROVE  Answered'
<1>1. PICK p \in Nat :
         /\ AtSize(p) /\ Whole = SubSeq(frame, p + 1, p + 4) /\ cp' = p + 4 /\ p + 4 <= end
         /\ pc = "in" /\ err = "none" /\ state = "BLOCK_SIZE"
  BY BlockSizeRead DEF ReadEndMark
<1>2. DescKnown /\ Gets(p, FALSE) /\ Begun(p)
  BY <1>1 DEF AtSize
<1>3. PICK c \in Nat : c = p + 4
  OBVIOUS
<1>4. /\ frame \in Seq(Byte) /\ Len(frame) \in Nat /\ end \in Nat /\ end <= Len(frame)
      /\ cp \in Nat /\ c <= end /\ c <= Len(frame)
  BY <1>1, <1>3, DecFacts
<1>5. SubSeq(frame, p + 1, p + 4) = EndMark
  BY <1>1 DEF ReadEndMark
<1>6. out \in Seq(Byte)
  BY DEF Answered
<1>7. Gets(c, TRUE)
  BY <1>2, <1>3, <1>4, <1>5, <1>6, EndMarkFound
<1>8. 11 <= c
  <2>1. PICK d \in Nat : d = DescEnd(flg) /\ 6 <= d
    BY DescEndIs
  <2>2. d + 1 <= p
    BY <1>2, <2>1 DEF Gets
  <2> QED
    BY <1>3, <2>1, <2>2
<1>9. UNCHANGED <<frame, room, end, verdict, flg, desc, max, block, out, folded>> /\ out' \in Seq(Byte)
  BY <1>6 DEF ReadEndMark, caller, reading, written
<1>10. cp' = c /\ cp <= cp' /\ cp' \in Nat
  <2>1. p <= cp /\ cp <= p + 4
    <3>1. field = SubSeq(frame, p + 1, cp) /\ p <= cp /\ cp <= Len(frame)
      BY <1>2, DecFacts DEF Begun
    <3>2. Len(field) = cp - p
      BY <1>4, <3>1, StretchSize
    <3>3. Len(field) < 4
      BY <1>1, FieldSizes DEF DecInv
    <3> QED
      BY <1>4, <3>1, <3>2, <3>3
  <2> QED
    BY <1>1, <1>3, <1>4, <2>1
<1>11. CASE ~SizeHolds
  <2>1. err' = "CORRUPT_DATA" /\ pc' = "out"
    BY <1>11 DEF ReadEndMark, Poison
  <2>2. 11 <= end => Unframe(Prefix(end), room) = Failure("CORRUPT_DATA")
    BY <1>2, <1>4, <1>6, <1>7, <1>11, BatchBehindEnd
  <2> QED
    BY <1>1, <1>9, <2>1, <2>2, TurnFails
<1>12. CASE SizeHolds /\ HasContentSum(flg)
  <2>1. state' = "CONTENT_CHECKSUM" /\ field' = <<>> /\ err' = err /\ pc' = pc
    BY <1>12 DEF ReadEndMark, GoTo
  <2>2. DescKnown'
    BY <1>2, <1>9, <1>10, DescStays
  <2>3. Gets(c, TRUE)'
    BY <1>7, <1>9, GetsStays
  <2>4. Begun(c)'
    BY <1>4, <1>9, <1>10, <2>1, BegunNext
  <2>5. HasContentSum(flg)' /\ SizeHolds'
    BY <1>9, <1>12 DEF SizeHolds
  <2>6. AtContentSum(c)'
    BY <2>2, <2>3, <2>4, <2>5 DEF AtContentSum
  <2>7. Following'
    BY <2>1, <2>6 DEF Following
  <2> QED
    BY <1>1, <1>9, <2>1, <2>7, TurnAnswered
<1>13. CASE SizeHolds /\ ~HasContentSum(flg)
  <2>1. state' = "DONE" /\ err' = err /\ pc' = "out"
    BY <1>13 DEF ReadEndMark
  <2>2. ASSUME NEW n \in 11 .. Len(frame), c <= n
        PROVE  Unframe(Prefix(n), room) = [err |-> "none", out |-> out]
    <3>1. n \in Nat /\ 11 <= n /\ n <= Len(frame)
      BY <1>4
    <3> QED
      BY <1>2, <1>6, <1>7, <1>13, <2>2, <3>1, BatchBehindEnd
  <2>3. AtEnd'
    BY <1>8, <1>9, <1>10, <2>2 DEF AtEnd, Prefix
  <2>4. Following'
    BY <2>1, <2>3 DEF Following
  <2> QED
    BY <1>1, <1>9, <2>1, <2>4, TurnAnswered
<1> QED
  BY <1>11, <1>12, <1>13

LEMMA ReadBlockSizeAnswered ==
    ASSUME DecInv, Answered, ReadBlockSize
    PROVE  Answered'
<1>1. PICK p \in Nat :
         /\ AtSize(p) /\ Whole = SubSeq(frame, p + 1, p + 4) /\ cp' = p + 4 /\ p + 4 <= end
         /\ Whole \in Seq(Byte) /\ Len(Whole) = 4
         /\ pc = "in" /\ err = "none" /\ state = "BLOCK_SIZE"
  BY BlockSizeRead DEF ReadBlockSize
<1>2. DescKnown /\ Gets(p, FALSE) /\ Begun(p)
  BY <1>1 DEF AtSize
<1>3. PICK c \in Nat : c = p + 4
  OBVIOUS
<1>4. /\ frame \in Seq(Byte) /\ Len(frame) \in Nat /\ end \in Nat /\ end <= Len(frame)
      /\ cp \in Nat /\ c <= end /\ c <= Len(frame) /\ max \in Nat
  BY <1>1, <1>3, DecFacts
<1>5. SubSeq(frame, p + 1, p + 4) # EndMark /\ Whole # EndMark
  BY <1>1 DEF ReadBlockSize
<1>6. out \in Seq(Byte)
  BY DEF Answered
<1>7. UNCHANGED <<frame, room, end, verdict, flg, desc, max, out, folded>> /\ out' \in Seq(Byte)
  BY <1>6 DEF ReadBlockSize, GoTo, caller, reading, written
<1>8. cp' = c /\ cp <= cp' /\ cp' \in Nat
  <2>1. p <= cp /\ cp <= p + 4
    <3>1. field = SubSeq(frame, p + 1, cp) /\ p <= cp /\ cp <= Len(frame)
      BY <1>2, DecFacts DEF Begun
    <3>2. Len(field) = cp - p
      BY <1>4, <3>1, StretchSize
    <3>3. Len(field) < 4
      BY <1>1, FieldSizes DEF DecInv
    <3> QED
      BY <1>4, <3>1, <3>2, <3>3
  <2> QED
    BY <1>1, <1>3, <1>4, <2>1
<1>9. SizeOf(Whole) \in Nat
  BY <1>1, SizeOfType
<1>10. CASE TooLarge
  <2>1. err' = "CORRUPT_DATA" /\ pc' = "out"
    BY <1>10 DEF ReadBlockSize, Poison
  <2>2. 11 <= end => Unframe(Prefix(end), room) = Failure("CORRUPT_DATA")
    <3> SUFFICES ASSUME 11 <= end PROVE Unframe(Prefix(end), room) = Failure("CORRUPT_DATA")
      OBVIOUS
    <3>4. PICK n \in Nat : n = end
      BY <1>4
    <3>5. p <= n /\ ~(p + 4 > n) /\ n <= Len(frame)
      BY <1>1, <1>4, <3>4
    <3>6. Block(Prefix(n), StageAt(p, out, FALSE), flg, room, max) = BlockFrom(n, p)
      BY <1>1, <1>4, <1>6, <3>4, <3>5, PrefixBlock
    <3>7. SizeOf(SubSeq(frame, p + 1, p + 4)) > max
      BY <1>1, <1>10 DEF TooLarge
    <3>8. BlockFrom(n, p) = Refuses(StageAt(p, out, FALSE), "CORRUPT_DATA")
      BY <1>5, <3>5, <3>7, Zenon DEF BlockFrom
    <3>9. "CORRUPT_DATA" \in Errors
      BY DEF Errors
    <3>10. Block(Prefix(n), StageAt(p, out, FALSE), flg, room, max) = Refuses(StageAt(p, out, FALSE), "CORRUPT_DATA")
      BY <3>6, <3>8
    <3>11. 11 <= n
      BY <3>4
    <3>12. Unframe(Prefix(n), room) = Failure("CORRUPT_DATA")
      BY <1>1, <1>2, <1>4, <1>6, <3>4, <3>5, <3>9, <3>10, <3>11, GetsRefused
    <3> QED
      BY <3>4, <3>12
  <2> QED
    BY <1>1, <1>7, <2>1, <2>2, TurnFails
<1>11. CASE ~TooLarge
  <2>1. /\ state' = "BLOCK_DATA" /\ field' = <<>> /\ err' = err /\ pc' = pc
        /\ size' = SizeOf(Whole) /\ raw' = IsRaw(Whole) /\ block' = <<>>
    BY <1>11 DEF ReadBlockSize, GoTo
  <2>2. DescKnown'
    BY <1>2, <1>7, <1>8, DescStays
  <2>3. Gets(p, FALSE)'
    BY <1>2, <1>7, GetsStays
  <2>4. SizeKnown(p)'
    <3>1. SizeOf(Whole) <= max
      BY <1>4, <1>9, <1>11 DEF TooLarge
    <3>2. p + 4 <= Len(frame)
      BY <1>3, <1>4
    <3> QED
      BY <1>1, <1>5, <1>7, <2>1, <3>1, <3>2 DEF SizeKnown
  <2>5. InBody(p + 4)'
    <3>1. SubSeq(frame, c + 1, c) = <<>>
      BY <1>4, NoPiece
    <3>2. InBody(c)'
      BY <1>7, <1>8, <2>1, <3>1 DEF InBody
    <3> QED
      BY <1>3, <3>2
  <2>6. AtData(p)'
    BY <2>2, <2>3, <2>4, <2>5 DEF AtData
  <2>7. Following'
    BY <2>1, <2>6 DEF Following
  <2> QED
    BY <1>1, <1>7, <2>1, <2>7, TurnAnswered
<1> QED
  BY <1>10, <1>11

-----------------------------------------------------------------------------
(* A block that is complete.                                               *)

\* What is behind x in y makes it y.
LEMMA ContinuesBy ==
    ASSUME NEW x, NEW y, Continues(x, y)
    PROVE  x \o SubSeq(y, Len(x) + 1, Len(y)) = y
<1>1. x \in Seq(Byte) /\ y \in Seq(Byte) /\ \A i \in 1 .. Len(x) : y[i] = x[i]
  BY DEF Continues
<1>2. PICK a, b \in Nat : a = Len(x) /\ b = Len(y)
  BY <1>1
<1>3. a <= b /\ b <= Len(y)
  BY <1>2 DEF Continues
<1>4. SubSeq(y, 1, a) \o SubSeq(y, a + 1, b) = SubSeq(y, 1, b)
  BY <1>1, <1>2, <1>3, StretchesJoin
<1>5. PICK z \in Nat : z = 0
  OBVIOUS
<1>6. z + 1 = 1 /\ z <= a /\ z <= b
  BY <1>5
<1>7. \A i \in 1 .. b : y[i] \in Byte
  BY <1>1, <1>2
<1>8. SubSeq(y, 1, a) = x
  <2> DEFINE s == SubSeq(y, 1, a)
  <2>1. SubSeq(y, z + 1, a) \in Seq(Byte) /\ Len(SubSeq(y, z + 1, a)) = a - z
    BY <1>1, <1>2, <1>3, <1>6, StretchSize
  <2>2. s \in Seq(Byte) /\ Len(s) = a
    BY <1>5, <1>6, <2>1
  <2>3. ASSUME NEW i \in 1 .. a PROVE s[i] = y[i]
    <3>1. a - 1 + 1 = a /\ 1 + i - 1 = i /\ \A k \in 1 .. a : y[k] \in Byte
      BY <1>3, <1>7
    <3>2. s[i] = y[1 + i - 1]
      BY <3>1, SubSeqProperties
    <3> QED
      BY <3>1, <3>2
  <2> HIDE DEF s
  <2>4. Len(s) = Len(x) /\ \A i \in 1 .. Len(s) : s[i] = x[i]
    BY <1>1, <1>2, <2>2, <2>3
  <2>5. s = x
    BY <1>1, <2>2, <2>4, SeqEqual
  <2> QED
    BY <2>5 DEF s
<1>9. SubSeq(y, 1, b) = y
  <2> DEFINE s == SubSeq(y, 1, b)
  <2>1. SubSeq(y, z + 1, b) \in Seq(Byte) /\ Len(SubSeq(y, z + 1, b)) = b - z
    BY <1>1, <1>2, <1>6, StretchSize
  <2>2. s \in Seq(Byte) /\ Len(s) = b
    BY <1>5, <1>6, <2>1
  <2>3. ASSUME NEW i \in 1 .. b PROVE s[i] = y[i]
    <3>1. b - 1 + 1 = b /\ 1 + i - 1 = i
      OBVIOUS
    <3>2. s[i] = y[1 + i - 1]
      BY <1>7, <3>1, SubSeqProperties
    <3> QED
      BY <3>1, <3>2
  <2> HIDE DEF s
  <2>4. Len(s) = Len(y) /\ \A i \in 1 .. Len(s) : s[i] = y[i]
    BY <1>2, <2>2, <2>3
  <2>5. s = y
    BY <1>1, <2>2, <2>4, SeqEqual
  <2> QED
    BY <2>5 DEF s
<1> QED
  BY <1>2, <1>4, <1>8, <1>9

\* The batch decoder at a block whose size it knows.
LEMMA BatchAtBlock ==
    ASSUME DecInv, out \in Seq(Byte), NEW p \in Nat, SizeKnown(p),
           NEW n \in Nat, n <= Len(frame), p + 4 + size <= n,
           NEW e, e = Meant(p, size, raw).err, NEW o, o = Meant(p, size, raw).out
    PROVE  /\ e # "none" =>
                BlockFrom(n, p) = Refuses(StageAt(p, out, FALSE), e)
           /\ e = "none" /\ ~HasBlockSums(flg) =>
                BlockFrom(n, p) = StageAt(p + 4 + size, o, FALSE)
           /\ e = "none" /\ HasBlockSums(flg) /\ p + 4 + size + 4 <= n =>
                BlockFrom(n, p) =
                  IF SubSeq(frame, p + 4 + size + 1, p + 4 + size + 4)
                       # Checksum(SubSeq(frame, p + 4 + 1, p + 4 + size))
                    THEN Refuses(StageAt(p, out, FALSE), "CHECKSUM_MISMATCH")
                  ELSE StageAt(p + 4 + size + 4, o, FALSE)
<1>1. PICK lead : lead = SubSeq(frame, p + 1, p + 4)
  OBVIOUS
<1>2. size \in Nat /\ max \in Nat /\ size <= max
  BY DecFacts DEF SizeKnown
<1>3. lead # EndMark /\ SizeOf(lead) = size /\ IsRaw(lead) = raw
  BY <1>1 DEF SizeKnown
<1>4. ~(p + 4 > n) /\ ~(size > max) /\ ~(p + 4 + size > n)
  BY <1>2
<1>5. PICK s : s = StageAt(p, out, FALSE)
  OBVIOUS
<1>6. BlockFrom(n, p) =
        IF e # "none" THEN Refuses(s, e)
        ELSE IF ~HasBlockSums(flg) THEN StageAt(p + 4 + size, o, FALSE)
        ELSE IF p + 4 + size + 4 > n THEN Refuses(s, "CORRUPT_DATA")
        ELSE IF SubSeq(frame, p + 4 + size + 1, p + 4 + size + 4)
                  # Checksum(SubSeq(frame, p + 4 + 1, p + 4 + size))
          THEN Refuses(s, "CHECKSUM_MISMATCH")
        ELSE StageAt(p + 4 + size + 4, o, FALSE)
  BY <1>1, <1>3, <1>4, <1>5, Zenon DEF BlockFrom
<1>7. p + 4 + size + 4 <= n => ~(p + 4 + size + 4 > n)
  BY <1>2
<1> QED
  BY <1>5, <1>6, <1>7, Zenon

\* What a block stands for goes out behind the output, and the next block begins at q.
LEMMA EmitAnswered ==
    ASSUME DecInv, Answered, pc = "in", err = "none", DescKnown, NEW p \in Nat, Gets(p, FALSE),
           SizeKnown(p), NEW data, data = SubSeq(frame, p + 4 + 1, p + 4 + size), EmitDecoded(data),
           NEW q \in Nat, cp' = q, q <= end,
           ~HasBlockSums(flg) => q = p + 4 + size,
           HasBlockSums(flg) =>
             q = p + 4 + size + 4 /\ SubSeq(frame, p + 4 + size + 1, p + 4 + size + 4) = Checksum(data),
           UNCHANGED <<frame, room, end, verdict, flg, desc, max, raw>>
    PROVE  Answered'
<1>1. /\ frame \in Seq(Byte) /\ Len(frame) \in Nat /\ end \in Nat /\ end <= Len(frame)
      /\ size \in Nat
  BY DecFacts
<1>2. out \in Seq(Byte)
  BY DEF Answered
<1>3. p + 4 + size <= q
  BY <1>1
<1>4. p + 4 + size <= Len(frame)
  BY <1>1, <1>3
<1>5. PICK d : d = Meant(p, size, raw)
  OBVIOUS
<1>6. d.err \in Errors /\ d.out \in Seq(Byte) /\ Continues(out, d.out)
  <2>1. PICK z \in Nat : z = size
    BY <1>1
  <2>2. p + 4 + z <= Len(frame)
    BY <1>4, <2>1
  <2> QED
    BY <1>1, <1>2, <1>5, <2>1, <2>2, MeantType
<1>7. /\ Decoded(data).out = d.out
      /\ Decoded(data).err = d.err \/ (Decoded(data).err = "OUTPUT_LIMIT" /\ raw)
      /\ Decoded(data).err = "none" => d.err = "none"
  <2>1. data = SubSeq(frame, p + 4 + 1, p + 4 + size)
    OBVIOUS
  <2> QED
    BY <1>5, <2>1, DecodedMeant, Zenon
<1>8. PICK e, o : e = d.err /\ o = d.out
  OBVIOUS
<1>9. ASSUME NEW n \in Nat, n <= Len(frame), q <= n
      PROVE  Block(Prefix(n), StageAt(p, out, FALSE), flg, room, max) =
               IF e # "none" THEN Refuses(StageAt(p, out, FALSE), e) ELSE StageAt(q, o, FALSE)
  <2>1. p <= n /\ p + 4 + size <= n
    BY <1>1, <1>3, <1>9
  <2>2. Block(Prefix(n), StageAt(p, out, FALSE), flg, room, max) = BlockFrom(n, p)
    BY <1>1, <1>2, <1>9, <2>1, PrefixBlock
  <2>3. e = Meant(p, size, raw).err /\ o = Meant(p, size, raw).out
    BY <1>5, <1>8
  <2>4. /\ e # "none" =>
                BlockFrom(n, p) = Refuses(StageAt(p, out, FALSE), e)
        /\ e = "none" /\ ~HasBlockSums(flg) =>
                BlockFrom(n, p) = StageAt(p + 4 + size, o, FALSE)
        /\ e = "none" /\ HasBlockSums(flg) /\ p + 4 + size + 4 <= n =>
                BlockFrom(n, p) =
                  IF SubSeq(frame, p + 4 + size + 1, p + 4 + size + 4)
                       # Checksum(SubSeq(frame, p + 4 + 1, p + 4 + size))
                    THEN Refuses(StageAt(p, out, FALSE), "CHECKSUM_MISMATCH")
                  ELSE StageAt(p + 4 + size + 4, o, FALSE)
    BY <1>2, <1>9, <2>1, <2>3, BatchAtBlock
  <2>5. CASE e # "none"
    BY <2>2, <2>4, <2>5, Zenon
  <2>6. CASE e = "none" /\ ~HasBlockSums(flg)
    BY <2>2, <2>4, <2>6, Zenon
  <2>7. CASE e = "none" /\ HasBlockSums(flg)
    <3>1. p + 4 + size + 4 <= n
      BY <1>9, <2>7
    <3> QED
      BY <2>2, <2>4, <2>7, <3>1, Zenon
  <2> QED
    BY <2>5, <2>6, <2>7
<1>10. CASE Decoded(data).err # "none"
  <2>1. Poison(Decoded(data).err) /\ UNCHANGED written
    BY <1>10, Zenon DEF EmitDecoded
  <2>2. pc' = "out" /\ err' = Decoded(data).err /\ UNCHANGED <<out, folded>> /\ out' \in Seq(Byte)
    BY <1>2, <2>1 DEF Poison, written
  <2>3. CASE Decoded(data).err = "OUTPUT_LIMIT" /\ raw
    <3>1. Agree(err, Unframe(Received, room))'
      BY <2>2, <2>3 DEF Agree, OnlyHere
    <3> QED
      BY <2>2, <2>3, <3>1, TurnAnswered
  <2>4. CASE Decoded(data).err = d.err
    <3>1. err' = e /\ e # "none" /\ e \in Errors /\ e # "ok"
      BY <1>6, <1>8, <1>10, <2>2, <2>4 DEF Errors
    <3>2. 11 <= end => Unframe(Prefix(end), room) = Failure(e)
      <4> SUFFICES ASSUME 11 <= end PROVE Unframe(Prefix(end), room) = Failure(e)
        OBVIOUS
      <4>1. PICK n \in Nat : n = end
        BY <1>1
      <4>2. 11 <= n /\ n <= Len(frame) /\ q <= n /\ p <= n
        BY <1>1, <1>3, <4>1
      <4>3. Block(Prefix(n), StageAt(p, out, FALSE), flg, room, max) = Refuses(StageAt(p, out, FALSE), e)
        BY <1>9, <3>1, <4>2, Zenon
      <4>4. Unframe(Prefix(n), room) = Failure(e)
        BY <1>1, <1>2, <3>1, <4>2, <4>3, GetsRefused
      <4> QED
        BY <4>1, <4>4
    <3> QED
      BY <2>2, <3>1, <3>2, TurnFails
  <2> QED
    BY <1>7, <2>3, <2>4
<1>11. CASE Decoded(data).err = "none"
  <2>1. e = "none"
    BY <1>7, <1>8, <1>11
  <2>2. /\ GoTo("BLOCK_SIZE") /\ out' = Decoded(data).out
        /\ folded' = IF HasContentSum(flg)
                       THEN folded \o SubSeq(Decoded(data).out, Len(out) + 1, Len(Decoded(data).out))
                     ELSE folded
    BY <1>11, Zenon DEF EmitDecoded
  <2>3. /\ state' = "BLOCK_SIZE" /\ field' = <<>> /\ err' = err /\ pc' = pc /\ out' = o
        /\ folded' = IF HasContentSum(flg) THEN folded \o SubSeq(o, Len(out) + 1, Len(o)) ELSE folded
    BY <1>7, <1>8, <2>2, Zenon DEF GoTo
  <2>4. o \in Seq(Byte) /\ Continues(out, o)
    BY <1>6, <1>8
  <2>5. out \o SubSeq(o, Len(out) + 1, Len(o)) = o
    BY <2>4, ContinuesBy
  <2>6. PICK f \in Nat : f = DescEnd(flg) + 1
    BY DescEndIs
  <2>7. f <= p /\ f <= q
    BY <1>1, <1>3, <2>6 DEF Gets
  <2>8. ASSUME NEW n \in 11 .. Len(frame), q <= n
        PROVE  Unframe(Prefix(n), room) = Walk(Prefix(n), flg, room, max)[StageAt(q, o, FALSE)]
    <3>1. n \in Nat /\ 11 <= n /\ n <= Len(frame) /\ p <= n
      BY <1>1, <1>3, <2>8
    <3>2. PICK b : b = Block(Prefix(n), StageAt(p, out, FALSE), flg, room, max)
      OBVIOUS
    <3>3. b = StageAt(q, o, FALSE)
      BY <1>9, <2>1, <2>8, <3>1, <3>2, Zenon
    <3>4. Unframe(Prefix(n), room) = Walk(Prefix(n), flg, room, max)[b]
      BY <1>1, <1>2, <3>1, <3>2, GetsOn
    <3> QED
      BY <3>3, <3>4
  <2>9. Gets(q, FALSE)'
    <3>1. q \in DescEnd(flg) + 1 .. Len(frame)
      BY <1>1, <2>6, <2>7
    <3> QED
      BY <2>3, <2>8, <3>1 DEF Gets, Prefix
  <2>10. DescKnown'
    <3>1. BdKnown'
      BY DEF DescKnown, BdKnown, FlgKnown
    <3>2. DescEnd(flg')  + 1 <= cp'
      BY <2>6, <2>7
    <3>3. desc' = SubSeq(frame', 5, DescEnd(flg')) /\ HeaderSum(desc') = frame'[DescEnd(flg') + 1]
      BY DEF DescKnown
    <3>4. folded' = IF HasContentSum(flg') THEN out' ELSE <<>>
      <4>1. CASE HasContentSum(flg)
        BY <2>3, <2>5, <4>1 DEF DescKnown
      <4>2. CASE ~HasContentSum(flg)
        BY <2>3, <4>2 DEF DescKnown
      <4> QED
        BY <4>1, <4>2
    <3> QED
      BY <3>1, <3>2, <3>3, <3>4 DEF DescKnown
  <2>11. Begun(q)'
    <3>1. q <= Len(frame)
      BY <1>1
    <3> QED
      BY <2>3, <3>1, BegunNext
  <2>12. AtSize(q)'
    BY <2>9, <2>10, <2>11 DEF AtSize
  <2>13. Following'
    BY <2>3, <2>12 DEF Following
  <2> QED
    BY <2>3, <2>4, <2>13, TurnAnswered
<1> QED
  BY <1>10, <1>11

LEMMA SizeStays ==
    ASSUME NEW p, SizeKnown(p), UNCHANGED <<frame, size, raw, max>>
    PROVE  SizeKnown(p)'
  BY DEF SizeKnown

LEMMA ReadBlockDataAnswered ==
    ASSUME DecInv, Answered, ReadBlockData
    PROVE  Answered'
<1>1. /\ state = "BLOCK_DATA" /\ pc = "in" /\ err = "none" /\ In("BLOCK_DATA")
      /\ UNCHANGED <<frame, room, end, verdict, flg, desc, max, size, raw>>
      /\ block' = block \o Coming(Missing)
  BY DEF ReadBlockData, In, DecInv, caller
<1>2. PICK p \in Nat : AtData(p)
  BY <1>1 DEF Answered, Following
<1>3. DescKnown /\ Gets(p, FALSE) /\ SizeKnown(p) /\ InBody(p + 4)
  BY <1>2 DEF AtData
<1>4. PICK c \in Nat : c = p + 4
  BY <1>2
<1>5. block' = SubSeq(frame, c + 1, c + size) /\ cp' = c + size /\ c + size <= Len(frame) /\ size \in Nat
  BY <1>1, <1>3, <1>4, BodyRead
<1>6. PICK q \in Nat : q = c + size
  BY <1>5
<1>7. cp' = q /\ q <= end /\ q <= Len(frame) /\ cp <= cp' /\ cp' \in Nat
  <2>1. cp' \in 0 .. end'
    BY ReadBlockDataInv DEF DecInv
  <2>2. cp' = cp + Missing /\ Missing \in Nat
    BY <1>1, MissingType DEF In
  <2> QED
    BY <1>1, <1>5, <1>6, <2>1, <2>2, DecFacts
<1>8. CASE HasBlockSums(flg)
  <2>1. /\ state' = "BLOCK_CHECKSUM" /\ field' = <<>> /\ err' = err /\ pc' = pc
        /\ UNCHANGED <<out, folded>>
    BY <1>8, Zenon DEF ReadBlockData, GoTo, written
  <2>2. DescKnown'
    BY <1>1, <1>3, <1>7, <2>1, DescStays
  <2>3. Gets(p, FALSE)'
    BY <1>1, <1>3, <2>1, GetsStays
  <2>4. SizeKnown(p)'
    BY <1>1, <1>3, SizeStays
  <2>5. Begun(q)'
    BY <1>1, <1>7, <2>1, BegunNext
  <2>6. block' = SubSeq(frame', p + 4 + 1, p + 4 + size')
    BY <1>1, <1>4, <1>5
  <2>7. Begun(p + 4 + size)'
    BY <1>1, <1>4, <1>6, <2>5
  <2>8. AtSum(p)'
    BY <1>1, <1>8, <2>2, <2>3, <2>4, <2>6, <2>7 DEF AtSum
  <2>9. Following'
    BY <1>2, <2>1, <2>8 DEF Following
  <2>10. out' \in Seq(Byte)
    BY <2>1 DEF Answered
  <2> QED
    BY <1>1, <2>1, <2>9, <2>10, TurnAnswered
<1>9. CASE ~HasBlockSums(flg)
  <2>1. PICK data : data = block'
    OBVIOUS
  <2>2. EmitDecoded(data)
    <3>1. EmitDecoded(block')
      BY <1>9, Zenon DEF ReadBlockData
    <3> QED
      BY <2>1, <3>1
  <2>3. data = SubSeq(frame, p + 4 + 1, p + 4 + size) /\ q = p + 4 + size
    BY <1>4, <1>5, <1>6, <2>1
  <2> QED
    BY <1>1, <1>2, <1>3, <1>7, <1>9, <2>2, <2>3, EmitAnswered
<1> QED
  BY <1>8, <1>9

LEMMA ReadBlockChecksumAnswered ==
    ASSUME DecInv, Answered, ReadBlockChecksum
    PROVE  Answered'
<1>1. In("BLOCK_CHECKSUM") /\ "BLOCK_CHECKSUM" \in DOMAIN FieldSize /\ FieldSize["BLOCK_CHECKSUM"] = 4
  BY FieldSizes DEF ReadBlockChecksum, FieldSize
<1>2. state = "BLOCK_CHECKSUM" /\ pc = "in" /\ err = "none" /\ cp' \in 0 .. end
  BY <1>1, WholeType
<1>3. PICK p \in Nat : AtSum(p)
  BY <1>2 DEF Answered, Following
<1>4. /\ DescKnown /\ Gets(p, FALSE) /\ SizeKnown(p) /\ HasBlockSums(flg)
      /\ block = SubSeq(frame, p + 4 + 1, p + 4 + size) /\ Begun(p + 4 + size)
  BY <1>3 DEF AtSum
<1>5. /\ frame \in Seq(Byte) /\ Len(frame) \in Nat /\ end \in Nat /\ end <= Len(frame)
      /\ size \in Nat
  BY DecFacts
<1>6. PICK z \in Nat : z = p + 4 + size
  BY <1>5
<1>7. Begun(z)
  BY <1>4, <1>6
<1>8. /\ Whole = SubSeq(frame, z + 1, z + FieldSize["BLOCK_CHECKSUM"])
      /\ cp' = z + FieldSize["BLOCK_CHECKSUM"]
  BY <1>1, <1>7, FieldRead
<1>9. PICK q \in Nat : q = z + 4
  OBVIOUS
<1>10. Whole = SubSeq(frame, p + 4 + size + 1, p + 4 + size + 4) /\ q = p + 4 + size + 4
       /\ cp' = q /\ q <= end
  BY <1>1, <1>2, <1>5, <1>6, <1>8, <1>9
<1>11. out \in Seq(Byte)
  BY DEF Answered
<1>12. UNCHANGED <<frame, room, end, verdict, flg, desc, max, raw>>
  BY DEF ReadBlockChecksum, caller, reading
<1>13. CASE Whole = Checksum(block)
  <2>1. EmitDecoded(block)
    BY <1>13 DEF ReadBlockChecksum
  <2>2. PICK data : data = block
    OBVIOUS
  <2>3. EmitDecoded(data) /\ data = SubSeq(frame, p + 4 + 1, p + 4 + size)
        /\ SubSeq(frame, p + 4 + size + 1, p + 4 + size + 4) = Checksum(data)
    BY <1>4, <1>10, <1>13, <2>1, <2>2
  <2> QED
    BY <1>2, <1>3, <1>4, <1>10, <1>12, <2>3, EmitAnswered
<1>14. CASE Whole # Checksum(block)
  <2>1. Poison("CHECKSUM_MISMATCH") /\ UNCHANGED written
    BY <1>14 DEF ReadBlockChecksum
  <2>2. err' = "CHECKSUM_MISMATCH" /\ pc' = "out" /\ UNCHANGED <<out, folded>> /\ out' \in Seq(Byte)
    BY <1>11, <2>1 DEF Poison, written
  <2>3. Unframe(Prefix(end), room).err # "none"
    <3>1. CASE end < 11
      <4>1. PICK n \in Nat : n = end
        BY <1>5
      <4>2. Unframe(Prefix(n), room) = Failure("INVALID_INPUT")
        BY <1>5, <3>1, <4>1, BatchOfShort
      <4> QED
        BY <4>1, <4>2 DEF Failure
    <3>2. CASE ~(end < 11)
      <4>1. PICK n \in Nat : n = end
        BY <1>5
      <4>2. 11 <= n /\ n <= Len(frame) /\ p <= n /\ p + 4 + size <= n /\ p + 4 + size + 4 <= n
        BY <1>5, <1>10, <3>2, <4>1
      <4>3. PICK e, o : e = Meant(p, size, raw).err /\ o = Meant(p, size, raw).out
        OBVIOUS
      <4>4. e \in Errors
        <5>1. PICK y \in Nat : y = size
          BY <1>5
        <5>2. p + 4 + y <= Len(frame)
          BY <1>5, <4>2, <5>1
        <5> QED
          BY <1>3, <1>5, <1>11, <4>3, <5>1, <5>2, MeantType
      <4>5. Block(Prefix(n), StageAt(p, out, FALSE), flg, room, max) = BlockFrom(n, p)
        BY <1>3, <1>5, <1>11, <4>1, <4>2, PrefixBlock
      <4>6. /\ e # "none" =>
                  BlockFrom(n, p) = Refuses(StageAt(p, out, FALSE), e)
            /\ e = "none" /\ ~HasBlockSums(flg) =>
                  BlockFrom(n, p) = StageAt(p + 4 + size, o, FALSE)
            /\ e = "none" /\ HasBlockSums(flg) /\ p + 4 + size + 4 <= n =>
                  BlockFrom(n, p) =
                    IF SubSeq(frame, p + 4 + size + 1, p + 4 + size + 4)
                         # Checksum(SubSeq(frame, p + 4 + 1, p + 4 + size))
                      THEN Refuses(StageAt(p, out, FALSE), "CHECKSUM_MISMATCH")
                    ELSE StageAt(p + 4 + size + 4, o, FALSE)
        <5>1. SizeKnown(p) /\ p \in Nat
          BY <1>3, <1>4
        <5>2. n <= Len(frame) /\ p + 4 + size <= n
          BY <4>2
        <5> QED
          BY <1>11, <4>1, <4>3, <5>1, <5>2, BatchAtBlock
      <4>7. PICK f \in Errors : f # "none" /\ BlockFrom(n, p) = Refuses(StageAt(p, out, FALSE), f)
        <5>1. CASE e # "none"
          BY <4>4, <4>6, <5>1
        <5>2. CASE e = "none"
          <6>1. BlockFrom(n, p) = Refuses(StageAt(p, out, FALSE), "CHECKSUM_MISMATCH")
            BY <1>4, <1>10, <1>14, <4>2, <4>6, <5>2, Zenon
          <6>2. "CHECKSUM_MISMATCH" \in Errors
            BY DEF Errors
          <6> QED
            BY <6>1, <6>2
        <5> QED
          BY <5>1, <5>2
      <4>8. Block(Prefix(n), StageAt(p, out, FALSE), flg, room, max) = Refuses(StageAt(p, out, FALSE), f)
        BY <4>5, <4>7
      <4>9. Unframe(Prefix(n), room) = Failure(f)
        BY <1>3, <1>4, <1>5, <1>11, <4>1, <4>2, <4>7, <4>8, GetsRefused
      <4> QED
        BY <4>1, <4>7, <4>9 DEF Failure
    <3> QED
      BY <3>1, <3>2
  <2>4. Agree(err, Unframe(Received, room))'
    <3>1. Unframe(Received, room)' = Unframe(Prefix(end), room)
      BY <1>12 DEF Received, Prefix
    <3>2. Otherwise'
      BY <1>4, <1>12 DEF Otherwise
    <3>3. PICK b : b = Unframe(Prefix(end), room)
      OBVIOUS
    <3>4. b.err # "none" /\ Unframe(Received, room)' = b
      BY <2>3, <3>1, <3>3
    <3> QED
      BY <2>2, <3>2, <3>4 DEF Agree
  <2> QED
    BY <1>2, <1>12, <2>2, <2>4, TurnAnswered
<1> QED
  BY <1>13, <1>14

LEMMA ReadContentChecksumAnswered ==
    ASSUME DecInv, Answered, ReadContentChecksum
    PROVE  Answered'
<1>1. In("CONTENT_CHECKSUM") /\ "CONTENT_CHECKSUM" \in DOMAIN FieldSize
      /\ FieldSize["CONTENT_CHECKSUM"] = 4
  BY FieldSizes DEF ReadContentChecksum, FieldSize
<1>2. state = "CONTENT_CHECKSUM" /\ pc = "in" /\ err = "none" /\ cp' \in 0 .. end
  BY <1>1, WholeType
<1>3. PICK c \in Nat : AtContentSum(c)
  BY <1>2 DEF Answered, Following
<1>4. DescKnown /\ Gets(c, TRUE) /\ HasContentSum(flg) /\ SizeHolds /\ Begun(c)
  BY <1>3 DEF AtContentSum
<1>5. Whole = SubSeq(frame, c + 1, c + FieldSize["CONTENT_CHECKSUM"])
      /\ cp' = c + FieldSize["CONTENT_CHECKSUM"]
  BY <1>1, <1>3, <1>4, FieldRead
<1>6. Whole = SubSeq(frame, c + 1, c + 4) /\ cp' = c + 4
  BY <1>1, <1>5
<1>7. /\ frame \in Seq(Byte) /\ Len(frame) \in Nat /\ end \in Nat /\ end <= Len(frame)
      /\ c + 4 <= end /\ c <= end
  BY <1>2, <1>3, <1>6, DecFacts
<1>8. out \in Seq(Byte) /\ folded = out
  BY <1>4 DEF Answered, DescKnown
<1>9. UNCHANGED <<frame, room, end, verdict, out>> /\ out' \in Seq(Byte)
  BY <1>8 DEF ReadContentChecksum, caller, written
<1>10. 11 <= c + 4
  <2>1. PICK d \in Nat : d = DescEnd(flg) /\ 6 <= d
    BY DescEndIs
  <2>2. d + 1 <= c
    BY <1>4, <2>1 DEF Gets
  <2> QED
    BY <1>3, <2>1, <2>2
<1>11. ASSUME NEW n \in Nat, 11 <= n, n <= Len(frame), c + 4 <= n
       PROVE  Unframe(Prefix(n), room) =
                IF Whole # Checksum(out) THEN Failure("CHECKSUM_MISMATCH") ELSE [err |-> "none", out |-> out]
  <2>1. c <= n /\ ~(c + 4 > n)
    BY <1>3, <1>11
  <2>2. Unframe(Prefix(n), room) =
             IF ~SizeHolds THEN Failure("CORRUPT_DATA")
             ELSE IF ~HasContentSum(flg) THEN [err |-> "none", out |-> out]
             ELSE IF c + 4 > n THEN Failure("CORRUPT_DATA")
             ELSE IF SubSeq(frame, c + 1, c + 4) # Checksum(out) THEN Failure("CHECKSUM_MISMATCH")
             ELSE [err |-> "none", out |-> out]
    BY <1>3, <1>4, <1>8, <1>11, <2>1, BatchBehindEnd
  <2> QED
    BY <1>4, <1>6, <2>1, <2>2, Zenon
<1>12. CASE Whole # Checksum(folded)
  <2>1. err' = "CHECKSUM_MISMATCH" /\ pc' = "out"
    BY <1>12 DEF ReadContentChecksum, Poison
  <2>2. 11 <= end => Unframe(Prefix(end), room) = Failure("CHECKSUM_MISMATCH")
    BY <1>7, <1>8, <1>11, <1>12
  <2> QED
    BY <1>2, <1>9, <2>1, <2>2, TurnFails
<1>13. CASE Whole = Checksum(folded)
  <2>1. state' = "DONE" /\ err' = err /\ pc' = "out"
    BY <1>13 DEF ReadContentChecksum
  <2>2. ASSUME NEW n \in 11 .. Len(frame), cp' <= n
        PROVE  Unframe(Prefix(n), room) = [err |-> "none", out |-> out]
    <3>1. n \in Nat /\ 11 <= n /\ n <= Len(frame) /\ c + 4 <= n
      BY <1>6, <1>7, <2>2
    <3> QED
      BY <1>8, <1>11, <1>13, <3>1
  <2>3. 11 <= cp'
    BY <1>6, <1>10
  <2>4. AtEnd'
    BY <1>9, <2>2, <2>3 DEF AtEnd, Prefix
  <2>5. Following'
    BY <2>1, <2>4 DEF Following
  <2> QED
    BY <1>2, <1>9, <2>1, <2>5, TurnAnswered
<1> QED
  BY <1>12, <1>13

-----------------------------------------------------------------------------
(* A turn that runs out of input.                                          *)

LEMMA SuspendEffect ==
    ASSUME DecInv, Suspend
    PROVE  /\ pc = "in" /\ err = "none" /\ err' = err /\ cp' = end /\ end' = end /\ pc' = "out"
           /\ cp' \in Nat /\ cp <= cp'
           /\ UNCHANGED <<frame, room, verdict, state, flg, max, size, raw, out, folded>>
           /\ state # "BLOCK_DATA" => block' = block
           /\ state = "BLOCK_DATA" =>
                block' = block \o SubSeq(frame, cp + 1, end) /\ Len(block') < size
           /\ state \notin {"CONTENT_SIZE", "DICT_ID"} => desc' = desc
           /\ state \in {"CONTENT_SIZE", "DICT_ID"} => desc' = desc \o SubSeq(frame, cp + 1, end)
<1>1. cp \in Nat /\ end \in Nat /\ cp <= end
  BY DecFacts
<1>2. pc = "in" /\ err = "none" /\ err' = err /\ cp' = end /\ end' = end /\ pc' = "out"
      /\ UNCHANGED <<frame, room, verdict, state, flg, max, size, raw, out, folded>>
  BY DEF Suspend, DecInv, caller, written
<1>3. cp + (end - cp) = end
  BY <1>1
<1>4. Coming(Left) = SubSeq(frame, cp + 1, end)
  BY <1>3 DEF Coming, Left
<1>5. desc' = Described(Left)
  BY DEF Suspend
<1>6. state \notin {"CONTENT_SIZE", "DICT_ID"} => desc' = desc
  BY <1>5 DEF Described
<1>7. state \in {"CONTENT_SIZE", "DICT_ID"} => desc' = desc \o SubSeq(frame, cp + 1, end)
  BY <1>4, <1>5 DEF Described
<1>8. /\ state # "BLOCK_DATA" => block' = block
      /\ state = "BLOCK_DATA" => block' = block \o SubSeq(frame, cp + 1, end)
  BY <1>4 DEF Suspend
<1>9. state = "BLOCK_DATA" => Len(block') < size
  <2> SUFFICES ASSUME state = "BLOCK_DATA" PROVE Len(block') < size
    OBVIOUS
  <2>1. frame \in Seq(Byte) /\ block \in Seq(Byte) /\ size \in Nat /\ end <= Len(frame)
    BY DecFacts
  <2>2. PICK m : m = SubSeq(frame, cp + 1, end)
    OBVIOUS
  <2>3. m \in Seq(Byte) /\ Len(m) = end - cp
    BY <1>1, <2>1, <2>2, StretchSize
  <2>4. Len(block \o m) = Len(block) + Len(m)
    BY <2>1, <2>3, Behind
  <2>5. end - cp < size - Len(block)
    BY DEF Suspend, Short, Left, Missing
  <2> QED
    BY <1>1, <1>8, <2>1, <2>2, <2>3, <2>4, <2>5
<1> QED
  BY <1>1, <1>2, <1>6, <1>7, <1>8, <1>9

\* The descriptor goes on with what there is of an optional field.
LEMMA SuspendDescribed ==
    ASSUME DecInv, Suspend, state \in {"CONTENT_SIZE", "DICT_ID"}, NEW b \in Nat, Begun(b), 4 <= b,
           desc = SubSeq(frame, 5, cp)
    PROVE  desc' = SubSeq(frame', 5, cp')
<1>1. desc' = desc \o SubSeq(frame, cp + 1, end) /\ cp' = end /\ frame' = frame
  BY SuspendEffect
<1>2. frame \in Seq(Byte) /\ cp \in Nat /\ end \in Nat /\ cp <= end /\ end <= Len(frame)
  BY DecFacts
<1>3. PICK a \in Nat : a = 4
  OBVIOUS
<1>4. a <= cp
  <2>1. b <= cp
    BY DEF Begun
  <2> QED
    BY <1>2, <1>3, <2>1
<1>5. SubSeq(frame, a + 1, cp) \o SubSeq(frame, cp + 1, end) = SubSeq(frame, a + 1, end)
  BY <1>2, <1>4, StretchesMeet
<1>6. a + 1 = 5
  BY <1>3
<1> QED
  BY <1>1, <1>5, <1>6, Zenon

LEMMA SuspendBody ==
    ASSUME DecInv, Suspend, state = "BLOCK_DATA", NEW b \in Nat, InBody(b)
    PROVE  InBody(b)'
<1>1. block' = block \o SubSeq(frame, cp + 1, end) /\ cp' = end /\ frame' = frame
  BY SuspendEffect
<1>2. frame \in Seq(Byte) /\ cp \in Nat /\ end \in Nat /\ cp <= end /\ end <= Len(frame)
  BY DecFacts
<1>3. b <= cp /\ block = SubSeq(frame, b + 1, cp)
  BY DEF InBody
<1>4. SubSeq(frame, b + 1, cp) \o SubSeq(frame, cp + 1, end) = SubSeq(frame, b + 1, end)
  BY <1>2, <1>3, StretchesMeet
<1>5. b <= end
  BY <1>2, <1>3
<1> QED
  BY <1>1, <1>3, <1>4, <1>5 DEF InBody

LEMMA SuspendAnswered ==
    ASSUME DecInv, Answered, Suspend
    PROVE  Answered'
<1>1. /\ pc = "in" /\ err = "none" /\ err' = err /\ cp' = end /\ end' = end /\ pc' = "out"
      /\ cp' \in Nat /\ cp <= cp'
      /\ UNCHANGED <<frame, room, verdict, state, flg, max, size, raw, out, folded>>
      /\ state # "BLOCK_DATA" => block' = block
      /\ state = "BLOCK_DATA" => Len(block') < size
      /\ state \notin {"CONTENT_SIZE", "DICT_ID"} => desc' = desc
  BY SuspendEffect
<1>2. Following /\ out' \in Seq(Byte)
  BY <1>1 DEF Answered
<1>3. ASSUME NEW b \in Nat, Begun(b), state # "BLOCK_DATA" PROVE Begun(b)'
  BY <1>3, SuspendBegun
<1>4. ASSUME DescKnown, state \notin {"CONTENT_SIZE", "DICT_ID"} PROVE DescKnown'
  BY <1>1, <1>4, DescStays
<1>5. ASSUME NEW p, NEW d, Gets(p, d) PROVE Gets(p, d)'
  BY <1>1, <1>5, GetsStays
<1>6. ASSUME NEW p, SizeKnown(p) PROVE SizeKnown(p)'
  BY <1>1, <1>6, SizeStays
<1>7. Fresh => Fresh'
  BY <1>1 DEF Fresh
<1>8. BdKnown => BdKnown'
  BY <1>1 DEF BdKnown, FlgKnown
<1>9. CASE state = "MAGIC"
  <2>1. PICK z \in Nat : z = 0
    OBVIOUS
  <2>2. Begun(z)'
    BY <1>2, <1>3, <1>9, <2>1 DEF Following
  <2>3. Following'
    BY <1>1, <1>2, <1>7, <1>9, <2>1, <2>2 DEF Following
  <2> QED
    BY <1>1, <1>2, <2>3, TurnAnswered
<1>10. CASE state = "FLG"
  <2>1. PICK z \in Nat : z = 4
    OBVIOUS
  <2>2. Begun(z)'
    BY <1>2, <1>3, <1>10, <2>1 DEF Following
  <2>3. Following'
    BY <1>1, <1>2, <1>7, <1>10, <2>1, <2>2 DEF Following
  <2> QED
    BY <1>1, <1>2, <2>3, TurnAnswered
<1>11. CASE state = "BD"
  <2>1. PICK z \in Nat : z = 5
    OBVIOUS
  <2>2. Begun(z)'
    BY <1>2, <1>3, <1>11, <2>1 DEF Following
  <2>3. FlgKnown'
    BY <1>1, <1>2, <1>11 DEF Following, FlgKnown
  <2>4. Following'
    BY <1>1, <1>2, <1>7, <1>11, <2>1, <2>2, <2>3 DEF Following
  <2> QED
    BY <1>1, <1>2, <2>4, TurnAnswered
<1>12. CASE state \in {"CONTENT_SIZE", "DICT_ID", "HC"}
  <2>1. BdKnown' /\ Fresh' /\ InDescriptor
    BY <1>2, <1>7, <1>8, <1>12 DEF Following, InDescriptor
  <2>2. state = "CONTENT_SIZE" => HasContentSize(flg') /\ Begun(6)' /\ desc' = SubSeq(frame', 5, cp')
    <3> SUFFICES ASSUME state = "CONTENT_SIZE"
                 PROVE  HasContentSize(flg') /\ Begun(6)' /\ desc' = SubSeq(frame', 5, cp')
      OBVIOUS
    <3>1. PICK z \in Nat : z = 6
      OBVIOUS
    <3>2. HasContentSize(flg) /\ Begun(z) /\ desc = SubSeq(frame, 5, cp) /\ 4 <= z
      BY <2>1, <3>1 DEF InDescriptor
    <3>3. Begun(z)'
      BY <1>3, <3>2
    <3>4. desc' = SubSeq(frame', 5, cp')
      BY <3>2, SuspendDescribed
    <3> QED
      BY <1>1, <3>1, <3>2, <3>3, <3>4
  <2>3. state = "DICT_ID" => /\ HasDictId(flg') /\ Begun(DescEnd(flg) - 4)'
                             /\ desc' = SubSeq(frame', 5, cp')
    <3> SUFFICES ASSUME state = "DICT_ID"
                 PROVE  HasDictId(flg') /\ Begun(DescEnd(flg) - 4)' /\ desc' = SubSeq(frame', 5, cp')
      OBVIOUS
    <3>1. HasDictId(flg)
      BY <2>1 DEF InDescriptor
    <3>2. PICK z \in Nat : z = DescEnd(flg) - 4 /\ 4 <= z
      <4>1. DescEnd(flg) \in {10, 18}
        BY <3>1, DescEndIs
      <4>2. DescEnd(flg) - 4 \in Nat /\ 4 <= DescEnd(flg) - 4
        BY <4>1
      <4> QED
        BY <4>2
    <3>3. Begun(z) /\ desc = SubSeq(frame, 5, cp)
      BY <2>1, <3>2 DEF InDescriptor
    <3>4. Begun(z)'
      BY <1>3, <3>3
    <3>5. desc' = SubSeq(frame', 5, cp')
      BY <3>2, <3>3, SuspendDescribed
    <3>6. z = DescEnd(flg') - 4
      BY <1>1, <3>2
    <3> QED
      BY <1>1, <3>1, <3>4, <3>5, <3>6
  <2>4. state = "HC" => Begun(DescEnd(flg))' /\ desc' = SubSeq(frame', 5, DescEnd(flg'))
    <3> SUFFICES ASSUME state = "HC"
                 PROVE  Begun(DescEnd(flg))' /\ desc' = SubSeq(frame', 5, DescEnd(flg'))
      OBVIOUS
    <3>1. PICK z \in Nat : z = DescEnd(flg)
      BY DescEndIs
    <3>2. Begun(z) /\ desc = SubSeq(frame, 5, z)
      BY <2>1, <3>1 DEF InDescriptor
    <3>3. Begun(z)'
      BY <1>3, <3>2
    <3>4. z = DescEnd(flg') /\ desc' = SubSeq(frame', 5, z)
      BY <1>1, <3>1, <3>2
    <3> QED
      BY <3>3, <3>4
  <2>5. InDescriptor'
    BY <1>1, <2>1, <2>2, <2>3, <2>4 DEF InDescriptor
  <2>6. Following'
    BY <1>1, <1>12, <2>5 DEF Following
  <2> QED
    BY <1>1, <1>2, <2>6, TurnAnswered
<1>13. CASE state = "BLOCK_SIZE"
  <2>1. PICK p \in Nat : AtSize(p)
    BY <1>2, <1>13 DEF Following
  <2>2. AtSize(p)'
    BY <1>3, <1>4, <1>5, <1>13, <2>1 DEF AtSize
  <2>3. Following'
    BY <1>1, <1>13, <2>1, <2>2 DEF Following
  <2> QED
    BY <1>1, <1>2, <2>3, TurnAnswered
<1>14. CASE state = "BLOCK_DATA"
  <2>1. PICK p \in Nat : AtData(p)
    BY <1>2, <1>14 DEF Following
  <2>2. DescKnown /\ Gets(p, FALSE) /\ SizeKnown(p) /\ InBody(p + 4)
    BY <2>1 DEF AtData
  <2>3. InBody(p + 4)'
    <3>1. PICK c \in Nat : c = p + 4
      BY <2>1
    <3>2. InBody(c)'
      BY <1>14, <2>2, <3>1, SuspendBody
    <3> QED
      BY <3>1, <3>2
  <2>4. AtData(p)'
    BY <1>4, <1>5, <1>6, <1>14, <2>2, <2>3 DEF AtData
  <2>5. Following'
    BY <1>1, <1>14, <2>1, <2>4 DEF Following
  <2> QED
    BY <1>1, <1>2, <2>5, TurnAnswered
<1>15. CASE state = "BLOCK_CHECKSUM"
  <2>1. PICK p \in Nat : AtSum(p)
    BY <1>2, <1>15 DEF Following
  <2>2. /\ DescKnown /\ Gets(p, FALSE) /\ SizeKnown(p) /\ HasBlockSums(flg)
        /\ block = SubSeq(frame, p + 4 + 1, p + 4 + size) /\ Begun(p + 4 + size)
    BY <2>1 DEF AtSum
  <2>3. Begun(p + 4 + size)'
    <3>1. PICK z \in Nat : z = p + 4 + size
      BY <2>1, DecFacts
    <3>2. Begun(z)'
      BY <1>3, <1>15, <2>2, <3>1
    <3>3. z = p + 4 + size'
      BY <1>1, <3>1
    <3> QED
      BY <3>2, <3>3
  <2>4. AtSum(p)'
    BY <1>1, <1>4, <1>5, <1>6, <1>15, <2>2, <2>3 DEF AtSum
  <2>5. Following'
    BY <1>1, <1>15, <2>1, <2>4 DEF Following
  <2> QED
    BY <1>1, <1>2, <2>5, TurnAnswered
<1>16. CASE state = "CONTENT_CHECKSUM"
  <2>1. PICK p \in Nat : AtContentSum(p)
    BY <1>2, <1>16 DEF Following
  <2>2. AtContentSum(p)'
    BY <1>1, <1>3, <1>4, <1>5, <1>16, <2>1 DEF AtContentSum, SizeHolds
  <2>3. Following'
    BY <1>1, <1>16, <2>1, <2>2 DEF Following
  <2> QED
    BY <1>1, <1>2, <2>3, TurnAnswered
<1>17. state \in States /\ state \notin {"DONE", "CLOSED"}
  BY <1>1 DEF DecInv
<1> QED
  BY <1>9, <1>10, <1>11, <1>12, <1>13, <1>14, <1>15, <1>16, <1>17, StateNames

-----------------------------------------------------------------------------
(* The caller, and what lz4f_dec_finish says.                              *)

\* A field that is not complete.
LEMMA FieldShort ==
    ASSUME DecInv, NEW s \in DOMAIN FieldSize, state = s, NEW b \in Nat, Begun(b),
           NEW k \in Nat, k = FieldSize[s]
    PROVE  b <= cp /\ cp < b + k
<1>1. /\ frame \in Seq(Byte) /\ Len(frame) \in Nat /\ cp \in Nat /\ end \in Nat /\ cp <= end
      /\ end <= Len(frame)
  BY DecFacts
<1>2. b <= cp /\ field = SubSeq(frame, b + 1, cp)
  BY DEF Begun
<1>3. Len(field) = cp - b
  BY <1>1, <1>2, StretchSize
<1>4. Len(field) < k
  BY DEF DecInv
<1> QED
  BY <1>1, <1>2, <1>3, <1>4

\* A frame that ends before the decoder is done is refused by both.
LEMMA Truncated ==
    ASSUME DecInv, Answered, pc = "out", err = "none", state \notin {"DONE", "CLOSED"}
    PROVE  Agree("CORRUPT_DATA", Unframe(Received, room))
<1>1. /\ frame \in Seq(Byte) /\ Len(frame) \in Nat /\ cp \in Nat /\ end \in Nat /\ end <= Len(frame)
      /\ size \in Nat /\ max \in Nat
  BY DecFacts
<1>2. Received = Prefix(end) /\ cp = end /\ Following /\ out \in Seq(Byte)
      /\ (state = "BLOCK_DATA" => Len(block) < size)
  BY DEF Answered, Received, Prefix
<1>3. PICK n \in Nat : n = end /\ n = cp /\ n <= Len(frame)
  BY <1>1, <1>2
<1>4. SUFFICES \/ Unframe(Prefix(n), room) = Failure("CORRUPT_DATA")
               \/ Otherwise /\ \E e : e # "none" /\ Unframe(Prefix(n), room) = Failure(e)
  <2>1. PICK b : b = Unframe(Prefix(n), room)
    OBVIOUS
  <2>2. b.err = "CORRUPT_DATA" \/ (Otherwise /\ b.err # "none")
    BY <1>4, <2>1 DEF Failure
  <2>3. Unframe(Received, room) = b
    BY <1>2, <1>3, <2>1
  <2> QED
    BY <2>2, <2>3 DEF Agree
<1>5. CASE n < 11
  <2>1. Otherwise
    BY <1>3, <1>5 DEF Otherwise
  <2>2. Unframe(Prefix(n), room) = Failure("INVALID_INPUT")
    BY <1>1, <1>3, <1>5, BatchOfShort
  <2> QED
    BY <2>1, <2>2
<1>6. CASE 11 <= n
  <2>1. "CORRUPT_DATA" \in Errors
    BY DEF Errors
  <2>2. PICK d \in Nat : d = DescEnd(flg) /\ 6 <= d
    BY DescEndIs
  <2>3. state \notin {"MAGIC", "FLG", "BD"}
    <3>1. ASSUME NEW s \in {"MAGIC", "FLG", "BD"}, state = s PROVE FALSE
      <4>1. PICK b \in {0, 4, 5} : Begun(b)
        BY <1>2, <3>1 DEF Following
      <4>2. s \in DOMAIN FieldSize /\ FieldSize[s] \in {1, 4}
        BY FieldSizes, <3>1
      <4>3. (s = "MAGIC" => Begun(0)) /\ (s = "FLG" => Begun(4)) /\ (s = "BD" => Begun(5))
        BY <1>2, <3>1 DEF Following
      <4>4. PICK z, k \in Nat : Begun(z) /\ z <= 5 /\ k = FieldSize[s] /\ k <= 4
        BY <4>2, <4>3, <3>1, FieldSizes
      <4>5. cp < z + k
        BY <3>1, <4>2, <4>4, FieldShort
      <4> QED
        BY <1>1, <1>3, <1>6, <4>4, <4>5
    <3> QED
      BY <3>1
  <2>4. CASE state \in {"CONTENT_SIZE", "DICT_ID", "HC"}
    <3>1. InDescriptor /\ BdKnown
      BY <1>2, <2>4 DEF Following, InDescriptor
    <3>2. n < d + 1
      <4>1. CASE state = "CONTENT_SIZE"
        <5>1. PICK z, k \in Nat : z = 6 /\ k = 8
          OBVIOUS
        <5>2. Begun(z) /\ HasContentSize(flg)
          BY <3>1, <4>1, <5>1 DEF InDescriptor
        <5>3. PICK s \in DOMAIN FieldSize : s = state /\ k = FieldSize[s]
          BY <4>1, <5>1, FieldSizes
        <5>4. cp < z + k
          BY <5>2, <5>3, FieldShort
        <5>5. 14 <= d
          BY <2>2, <5>2, DescEndIs
        <5> QED
          BY <1>3, <2>2, <5>1, <5>4, <5>5
      <4>2. CASE state = "DICT_ID"
        <5>1. HasDictId(flg) /\ Begun(DescEnd(flg) - 4)
          BY <3>1, <4>2 DEF InDescriptor
        <5>2. PICK z, k \in Nat : z = d - 4 /\ k = 4
          BY <2>2
        <5>3. Begun(z)
          BY <2>2, <5>1, <5>2
        <5>4. PICK s \in DOMAIN FieldSize : s = state /\ k = FieldSize[s]
          BY <4>2, <5>2, FieldSizes
        <5>5. cp < z + k
          BY <5>3, <5>4, FieldShort
        <5> QED
          BY <1>3, <2>2, <5>2, <5>5
      <4>3. CASE state = "HC"
        <5>1. PICK k \in Nat : k = 1
          OBVIOUS
        <5>2. Begun(d)
          BY <2>2, <3>1, <4>3 DEF InDescriptor
        <5>3. PICK s \in DOMAIN FieldSize : s = state /\ k = FieldSize[s]
          BY <4>3, <5>1, FieldSizes DEF FieldSize
        <5>4. cp < d + k
          BY <2>2, <5>2, <5>3, FieldShort
        <5> QED
          BY <1>3, <2>2, <5>1, <5>4
      <4> QED
        BY <2>4, <4>1, <4>2, <4>3
    <3>3. /\ SubSeq(frame, 1, 4) = Magic /\ FlgFault(frame[5]) = "none" /\ BdFault(frame[6]) = "none"
          /\ DescEnd(frame[5]) = d
      BY <2>2, <3>1 DEF BdKnown, FlgKnown
    <3>4. HeaderFault(Prefix(n)) =
            IF SubSeq(frame, 1, 4) # Magic THEN "CORRUPT_DATA"
            ELSE IF FlgFault(frame[5]) # "none" THEN FlgFault(frame[5])
            ELSE IF BdFault(frame[6]) # "none" THEN BdFault(frame[6])
            ELSE IF DescEnd(frame[5]) + 1 > n THEN "CORRUPT_DATA"
            ELSE IF HeaderSum(SubSeq(frame, 5, DescEnd(frame[5]))) # frame[DescEnd(frame[5]) + 1]
              THEN "CHECKSUM_MISMATCH"
            ELSE "none"
      BY <1>1, <1>3, <1>6, PrefixHeader
    <3>5. d + 1 > n
      BY <1>3, <2>2, <3>2
    <3>6. HeaderFault(Prefix(n)) = "CORRUPT_DATA"
      BY <3>3, <3>4, <3>5, Zenon
    <3>7. Unframe(Prefix(n), room) = Failure("CORRUPT_DATA")
      BY <3>6, UnframeFails
    <3> QED
      BY <3>7
  <2>5. CASE state = "BLOCK_SIZE"
    <3>1. PICK p \in Nat : AtSize(p)
      BY <1>2, <2>5 DEF Following
    <3>2. Gets(p, FALSE) /\ Begun(p)
      BY <3>1 DEF AtSize
    <3>3. PICK k \in Nat : k = 4
      OBVIOUS
    <3>4. PICK s \in DOMAIN FieldSize : s = state /\ k = FieldSize[s]
      BY <2>5, <3>3, FieldSizes
    <3>5. p <= cp /\ cp < p + k
      BY <3>1, <3>2, <3>4, FieldShort
    <3>6. p <= n /\ p + 4 > n
      BY <1>3, <3>1, <3>3, <3>5
    <3>7. Block(Prefix(n), StageAt(p, out, FALSE), flg, room, max) = BlockFrom(n, p)
      BY <1>1, <1>2, <1>3, <3>1, <3>6, PrefixBlock
    <3>8. BlockFrom(n, p) = Refuses(StageAt(p, out, FALSE), "CORRUPT_DATA")
      BY <3>6, Zenon DEF BlockFrom
    <3>9. Block(Prefix(n), StageAt(p, out, FALSE), flg, room, max) = Refuses(StageAt(p, out, FALSE), "CORRUPT_DATA")
      BY <3>7, <3>8
    <3>10. Unframe(Prefix(n), room) = Failure("CORRUPT_DATA")
      BY <1>1, <1>2, <1>3, <1>6, <2>1, <3>1, <3>2, <3>6, <3>9, GetsRefused
    <3> QED
      BY <3>10
  <2>6. CASE state = "BLOCK_DATA"
    <3>1. PICK p \in Nat : AtData(p)
      BY <1>2, <2>6 DEF Following
    <3>2. Gets(p, FALSE) /\ SizeKnown(p) /\ InBody(p + 4)
      BY <3>1 DEF AtData
    <3>3. PICK c \in Nat : c = p + 4
      BY <3>1
    <3>4. c <= n /\ c + size > n
      <4>1. c <= n /\ block = SubSeq(frame, c + 1, n)
        BY <1>3, <3>2, <3>3 DEF InBody
      <4>2. Len(block) = n - c
        BY <1>1, <1>3, <4>1, StretchSize
      <4> QED
        BY <1>1, <1>2, <1>3, <2>6, <4>1, <4>2
    <3>5. p <= n /\ ~(p + 4 > n) /\ p + 4 + size > n
      BY <1>1, <1>3, <3>1, <3>3, <3>4
    <3>6. Block(Prefix(n), StageAt(p, out, FALSE), flg, room, max) = BlockFrom(n, p)
      BY <1>1, <1>2, <1>3, <3>1, <3>5, PrefixBlock
    <3>7. SubSeq(frame, p + 1, p + 4) # EndMark /\ size = SizeOf(SubSeq(frame, p + 1, p + 4))
      BY <3>2 DEF SizeKnown
    <3>8. BlockFrom(n, p) = Refuses(StageAt(p, out, FALSE), "CORRUPT_DATA")
      BY <3>5, <3>7, Zenon DEF BlockFrom
    <3>9. Block(Prefix(n), StageAt(p, out, FALSE), flg, room, max) = Refuses(StageAt(p, out, FALSE), "CORRUPT_DATA")
      BY <3>6, <3>8
    <3>10. Unframe(Prefix(n), room) = Failure("CORRUPT_DATA")
      BY <1>1, <1>2, <1>3, <1>6, <2>1, <3>1, <3>2, <3>5, <3>9, GetsRefused
    <3> QED
      BY <3>10
  <2>7. CASE state = "BLOCK_CHECKSUM"
    <3>1. PICK p \in Nat : AtSum(p)
      BY <1>2, <2>7 DEF Following
    <3>2. Gets(p, FALSE) /\ SizeKnown(p) /\ HasBlockSums(flg) /\ Begun(p + 4 + size)
      BY <3>1 DEF AtSum
    <3>3. PICK z, k \in Nat : z = p + 4 + size /\ k = 4
      BY <1>1, <3>1
    <3>4. PICK s \in DOMAIN FieldSize : s = state /\ k = FieldSize[s]
      BY <2>7, <3>3, FieldSizes DEF FieldSize
    <3>5. z <= cp /\ cp < z + k
      BY <3>2, <3>3, <3>4, FieldShort
    <3>6. p <= n /\ p + 4 + size <= n /\ p + 4 + size + 4 > n
      BY <1>1, <1>3, <3>1, <3>3, <3>5
    <3>7. Block(Prefix(n), StageAt(p, out, FALSE), flg, room, max) = BlockFrom(n, p)
      BY <1>1, <1>2, <1>3, <3>1, <3>6, PrefixBlock
    <3>8. PICK e : e = Meant(p, size, raw).err
      OBVIOUS
    <3>9. e \in Errors
      <4>1. PICK y \in Nat : y = size
        BY <1>1
      <4>2. p + 4 + y <= Len(frame)
        BY <1>1, <1>3, <3>1, <3>6, <4>1
      <4> QED
        BY <1>1, <1>2, <3>1, <3>8, <4>1, <4>2, MeantType
    <3>10. ~(p + 4 > n) /\ ~(size > max) /\ ~(p + 4 + size > n)
      BY <1>1, <1>3, <3>1, <3>2, <3>6 DEF SizeKnown
    <3>11. /\ SubSeq(frame, p + 1, p + 4) # EndMark /\ SizeOf(SubSeq(frame, p + 1, p + 4)) = size
           /\ IsRaw(SubSeq(frame, p + 1, p + 4)) = raw
      BY <3>2 DEF SizeKnown
    <3>12. BlockFrom(n, p) = IF e # "none" THEN Refuses(StageAt(p, out, FALSE), e)
                             ELSE Refuses(StageAt(p, out, FALSE), "CORRUPT_DATA")
      BY <3>2, <3>6, <3>8, <3>10, <3>11, Zenon DEF BlockFrom
    <3>13. PICK f \in Errors : f # "none" /\ BlockFrom(n, p) = Refuses(StageAt(p, out, FALSE), f)
      BY <2>1, <3>9, <3>12
    <3>14. Block(Prefix(n), StageAt(p, out, FALSE), flg, room, max) = Refuses(StageAt(p, out, FALSE), f)
      BY <3>7, <3>13
    <3>15. Unframe(Prefix(n), room) = Failure(f)
      BY <1>1, <1>2, <1>3, <1>6, <3>1, <3>2, <3>6, <3>13, <3>14, GetsRefused
    <3> QED
      BY <3>2, <3>13, <3>15 DEF Otherwise
  <2>8. CASE state = "CONTENT_CHECKSUM"
    <3>1. PICK c \in Nat : AtContentSum(c)
      BY <1>2, <2>8 DEF Following
    <3>2. DescKnown /\ Gets(c, TRUE) /\ HasContentSum(flg) /\ SizeHolds /\ Begun(c)
      BY <3>1 DEF AtContentSum
    <3>3. PICK k \in Nat : k = 4
      OBVIOUS
    <3>4. PICK s \in DOMAIN FieldSize : s = state /\ k = FieldSize[s]
      BY <2>8, <3>3, FieldSizes DEF FieldSize
    <3>5. c <= cp /\ cp < c + k
      BY <3>1, <3>2, <3>4, FieldShort
    <3>6. c <= n /\ c + 4 > n
      BY <1>3, <3>1, <3>3, <3>5
    <3>7. Unframe(Prefix(n), room) =
             IF ~SizeHolds THEN Failure("CORRUPT_DATA")
             ELSE IF ~HasContentSum(flg) THEN [err |-> "none", out |-> out]
             ELSE IF c + 4 > n THEN Failure("CORRUPT_DATA")
             ELSE IF SubSeq(frame, c + 1, c + 4) # Checksum(out) THEN Failure("CHECKSUM_MISMATCH")
             ELSE [err |-> "none", out |-> out]
      BY <1>2, <1>3, <1>6, <3>1, <3>2, <3>6, BatchBehindEnd
    <3>8. Unframe(Prefix(n), room) = Failure("CORRUPT_DATA")
      BY <3>2, <3>6, <3>7, Zenon
    <3> QED
      BY <3>8
  <2>9. state \in States
    BY DEF DecInv
  <2> QED
    BY <2>3, <2>4, <2>5, <2>6, <2>7, <2>8, <2>9, StateNames
<1> QED
  BY <1>3, <1>5, <1>6

\* What the decoder knows of the frame stays so while it does not read on.
LEMMA FollowingStays ==
    ASSUME Following,
           UNCHANGED <<frame, room, cp, state, flg, max, desc, field, block, size, raw, out, folded>>
    PROVE  Following'
<1>1. /\ Fresh' = Fresh /\ FlgKnown' = FlgKnown /\ BdKnown' = BdKnown /\ SizeHolds' = SizeHolds
      /\ DescEnd(flg)' = DescEnd(flg) /\ HasContentSum(flg)' = HasContentSum(flg)
      /\ HasBlockSums(flg)' = HasBlockSums(flg)
      /\ HasContentSize(flg)' = HasContentSize(flg) /\ HasDictId(flg)' = HasDictId(flg)
  BY DEF Fresh, FlgKnown, BdKnown, SizeHolds
<1>2. DescKnown' = DescKnown
  BY <1>1 DEF DescKnown
<1>3. \A b : Begun(b)' = Begun(b) /\ InBody(b)' = InBody(b)
  BY DEF Begun, InBody
<1>4. \A p, d : Gets(p, d)' = Gets(p, d)
  BY DEF Gets, Prefix
<1>5. \A p : SizeKnown(p)' = SizeKnown(p)
  BY DEF SizeKnown
<1>6. /\ \A p : AtSize(p)' = AtSize(p)
      /\ \A p : AtData(p)' = AtData(p)
      /\ \A p : AtSum(p)' = AtSum(p)
      /\ \A p : AtContentSum(p)' = AtContentSum(p)
  BY <1>1, <1>2, <1>3, <1>4, <1>5 DEF AtSize, AtData, AtSum, AtContentSum
<1>7. AtEnd' = AtEnd
  BY DEF AtEnd, Prefix
<1>8. InDescriptor' = InDescriptor
  BY <1>1, <1>3 DEF InDescriptor
<1> QED
  BY <1>1, <1>3, <1>6, <1>7, <1>8 DEF Following

\* The caller's steps: the decoder stays where it is.
LEMMA DecWriteAnswered ==
    ASSUME DecInv, Answered, NEW n, DecWrite(n)
    PROVE  Answered'
<1>1. /\ err = "none" /\ err' = "none" /\ pc' = "in"
      /\ UNCHANGED <<frame, room, verdict, cp, state, flg, max, desc, field, block, size, raw, out, folded>>
  BY DEF DecWrite, reading, written
<1>2. Following'
  BY <1>1, FollowingStays DEF Answered
<1> QED
  BY <1>1, <1>2 DEF Answered

LEMMA DecMisuseAnswered ==
    ASSUME Answered, DecMisuse
    PROVE  Answered'
<1>1. err' = "INVALID_INPUT" /\ UNCHANGED <<room, out, pc, verdict>>
  BY DEF DecMisuse, caller, written
<1> QED
  BY <1>1 DEF Answered

LEMMA DecFinishAnswered ==
    ASSUME Answered, DecFinish
    PROVE  Answered'
<1>1. pc' = "out" /\ state' = "CLOSED" /\ UNCHANGED <<room, out>>
  BY DEF DecFinish, written
<1>2. Following'
  BY <1>1 DEF Following
<1> QED
  BY <1>1, <1>2 DEF Answered

LEMMA DecNextAnswered ==
    ASSUME DecInv, Answered, DecNext
    PROVE  Answered'
<1>1. CASE DecStep
  BY <1>1, SuspendAnswered, ReadMagicAnswered, ReadFlgAnswered, ReadBdAnswered,
     ReadContentSizeAnswered, ReadDictIdAnswered, ReadHcAnswered, ReadEndMarkAnswered,
     ReadBlockSizeAnswered, ReadBlockDataAnswered, ReadBlockChecksumAnswered,
     ReadContentChecksumAnswered DEF DecStep
<1> QED
  BY <1>1, DecWriteAnswered, DecMisuseAnswered, DecFinishAnswered DEF DecNext

\* A decoder that was just opened has read nothing.
LEMMA OpenedAnswered ==
    ASSUME NEW f \in Seq(Byte), NEW r \in Nat, Opened(f, r)
    PROVE  Answered'
<1>1. /\ frame' = f /\ room' = r /\ end' = 0 /\ cp' = 0 /\ pc' = "out" /\ state' = "MAGIC"
      /\ max' = SmallBlock /\ desc' = <<>> /\ field' = <<>> /\ out' = <<>> /\ folded' = <<>>
      /\ err' = "none" /\ verdict' = "open"
  BY DEF Opened
<1>2. PICK z \in Nat : z = 0
  OBVIOUS
<1>3. z <= Len(f) /\ <<>> \in Seq(Byte)
  BY <1>2
<1>4. SubSeq(f, z + 1, z) = <<>>
  BY <1>3, NoPiece
<1>5. Begun(0)' /\ Fresh'
  BY <1>1, <1>2, <1>4 DEF Begun, Fresh
<1>6. Following'
  BY <1>1, <1>5 DEF Following
<1> QED
  BY <1>1, <1>3, <1>6 DEF Answered

LEMMA DecodeAnswered ==
    ASSUME EncInv, Decode
    PROVE  Answered'
<1>1. CASE FromEncoder
  BY <1>1, EncFacts, OpenedAnswered DEF FromEncoder
<1>2. CASE FromElsewhere
  <2>1. PICK f \in Frames : Opened(f.bytes, f.room)
    BY <1>2 DEF FromElsewhere
  <2>2. f.bytes \in Seq(Byte) /\ f.room \in Nat
    BY Lz4fAssumption
  <2> QED
    BY <2>1, <2>2, OpenedAnswered
<1> QED
  BY <1>1, <1>2 DEF Decode

LEMMA DecInitAnswered ==
    ASSUME DecInit
    PROVE  Answered
<1>1. /\ frame = <<>> /\ room = 0 /\ cp = 0 /\ pc = "none" /\ state = "MAGIC"
      /\ max = SmallBlock /\ desc = <<>> /\ field = <<>> /\ out = <<>> /\ folded = <<>>
      /\ err = "none" /\ verdict = "open"
  BY DEF DecInit
<1>2. PICK z \in Nat : z = 0
  OBVIOUS
<1>3. frame \in Seq(Byte) /\ z <= Len(frame) /\ <<>> \in Seq(Byte)
  BY <1>1, <1>2
<1>4. SubSeq(frame, z + 1, z) = <<>>
  BY <1>3, NoPiece
<1>5. Begun(0) /\ Fresh
  BY <1>1, <1>2, <1>4 DEF Begun, Fresh
<1>6. Following
  BY <1>1, <1>5 DEF Following
<1> QED
  BY <1>1, <1>3, <1>6 DEF Answered

LEMMA AnsweredUnchanged ==
    ASSUME Answered, UNCHANGED decVars
    PROVE  Answered'
<1>1. UNCHANGED <<frame, room, end, cp, pc, state, flg, desc, field, max, block, size, raw,
                  out, folded, err, verdict>>
  BY DEF decVars
<1>2. err = "none" => Following'
  BY <1>1, FollowingStays DEF Answered
<1>3. Agree(err, Unframe(Received, room))' = Agree(err, Unframe(Received, room))
  BY <1>1 DEF Agree, OnlyHere, Otherwise, Received
<1> QED
  BY <1>1, <1>2, <1>3 DEF Answered

\* lz4f_dec_finish says what the batch decoder says.
LEMMA FinishAgrees ==
    ASSUME DecInv, Answered, DecFinish, err # "INVALID_INPUT"
    PROVE  Agree(verdict', Unframe(Received, room))
<1>1. /\ pc = "out" /\ state # "CLOSED"
      /\ verdict' = IF err # "none" THEN err
                    ELSE IF state # "DONE" THEN "CORRUPT_DATA" ELSE "ok"
  BY DEF DecFinish
<1>2. CASE err # "none"
  BY <1>1, <1>2 DEF Answered
<1>3. CASE err = "none" /\ state # "DONE"
  BY <1>1, <1>3, Truncated
<1>4. CASE err = "none" /\ state = "DONE"
  <2>1. AtEnd
    BY <1>4 DEF Answered, Following
  <2>2. cp \in Nat /\ end \in Nat /\ cp <= end /\ end <= Len(frame) /\ Len(frame) \in Nat
    BY DecFacts
  <2>3. end \in 11 .. Len(frame) /\ cp <= end
    BY <2>1, <2>2 DEF AtEnd
  <2>4. Unframe(Prefix(end), room) = [err |-> "none", out |-> out]
    BY <2>1, <2>3 DEF AtEnd
  <2>5. Unframe(Received, room) = [err |-> "none", out |-> out]
    BY <2>4 DEF Received, Prefix
  <2>6. verdict' = "ok"
    BY <1>1, <1>4
  <2> QED
    BY <2>5, <2>6 DEF Agree
<1> QED
  BY <1>2, <1>3, <1>4

\* No other step of the decoder has a verdict.
LEMMA OnlyFinishSays ==
    ASSUME Answered, [Next]_vars, verdict' # verdict
    PROVE  DecFinish
<1>1. ASSUME UNCHANGED decVars PROVE FALSE
  BY <1>1 DEF decVars
<1>2. ~Decode
  BY DEF Decode, FromEncoder, FromElsewhere, Opened, Answered
<1>3. ~DecStep
  BY DEF DecStep, Suspend, ReadMagic, ReadFlg, ReadBd, ReadContentSize, ReadDictId, ReadHc,
     ReadEndMark, ReadBlockSize, ReadBlockData, ReadBlockChecksum, ReadContentChecksum, caller
<1>4. \A n : ~DecWrite(n)
  BY DEF DecWrite
<1>5. ~DecMisuse
  BY DEF DecMisuse, caller
<1> QED
  BY <1>1, <1>2, <1>3, <1>4, <1>5 DEF Next, DecNext, vars

\* However a frame is cut into the pieces given to lz4f_dec_write, and wherever it ends,
\* lz4f_dec_finish says of it what lz4f_decompress says of the bytes handed over, and the
\* output is the same when they accept it; the exceptions are those Agree names.
THEOREM PiecesSayWhatTheWholeSays ==
    ASSUME Typed
    PROVE  Spec => SaysWhatBatchSays
<1>1. Init => Answered
  BY DecInitAnswered DEF Init
<1>2. EncInv /\ DecInv /\ Answered /\ [Next]_vars => Answered'
  <2> SUFFICES ASSUME EncInv, DecInv, Answered, [Next]_vars PROVE Answered'
    OBVIOUS
  <2> QED
    BY DecodeAnswered, DecNextAnswered, AnsweredUnchanged DEF Next, vars
<1>3. DecInv /\ Answered /\ [Next]_vars =>
        [verdict' # verdict /\ err # "INVALID_INPUT" => Agree(verdict', Unframe(Received, room))]_decVars
  BY OnlyFinishSays, FinishAgrees
<1> QED
  BY <1>1, <1>2, <1>3, Invariance, PTL DEF Spec, SaysWhatBatchSays
=============================================================================
