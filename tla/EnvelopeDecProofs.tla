------------------------- MODULE EnvelopeDecProofs -------------------------
(***************************************************************************)
(* What the gzip and zlib decoders keep for every stream, every cut of it  *)
(* and every checksum: a gzip context that was finished takes no more, and *)
(* the checksum compared with a trailer is that of the member's output.    *)
(***************************************************************************)
EXTENDS EnvelopeDec, Lemmas

-----------------------------------------------------------------------------
(* A gzip context finishes once.                                           *)

\* Once finish has answered, the context is closed and nobody is inside it.
FinishedIsClosed ==
    verdict # "open" /\ input.kind = "gzip" => state = "CLOSED" /\ pc = "out"

LEMMA ClosedFromTheStart == Init => FinishedIsClosed
BY DEF Init, FinishedIsClosed

\* Every turn of the loop begins inside the call, and not in CLOSED.
LEMMA StepsAreInside ==
    ASSUME Step
    PROVE  pc = "in" /\ state # "CLOSED" /\ UNCHANGED <<verdict, input>>
BY DEF Step, FixedHeader, FextraLen, FextraData, Fname, Fcomment, ZeroEnded, Fhcrc, ZlibHeader,
       DictId, DeflateDrained, InflateChunk, InflateClosed, Trailer, AfterTrailer, In, caller

\* What a closed context still allows changes nothing of it.
LEMMA ClosedStaysClosed ==
    ASSUME FinishedIsClosed, [Next]_vars
    PROVE  /\ FinishedIsClosed'
           /\ verdict # "open" /\ input.kind = "gzip" => TakesNothing
<1> USE DEF FinishedIsClosed, TakesNothing
<1>1. ASSUME NEW n, Write(n) PROVE  FinishedIsClosed' /\ (verdict # "open" /\ input.kind = "gzip" => TakesNothing)
  BY <1>1 DEF Write, Writable, header, decoder
<1>2. CASE WriteInvalid
  BY <1>2 DEF WriteInvalid, caller, header, decoder
<1>3. CASE Finish
  BY <1>3 DEF Finish, Closes, header, decoder
<1>4. CASE Step
  BY <1>4, StepsAreInside
<1>5. CASE UNCHANGED vars
  BY <1>5 DEF vars, header, decoder
<1>6. QED
  BY <1>1, <1>2, <1>3, <1>4, <1>5 DEF Next

\* The writes of a gzip context, however it got there: none after finish.
THEOREM GzipFinishesOnce == Spec => GzipFinishedIsFinal
<1>1. Init => FinishedIsClosed
  BY ClosedFromTheStart
<1>2. FinishedIsClosed /\ [Next]_vars
        => FinishedIsClosed' /\ (verdict # "open" /\ input.kind = "gzip" => TakesNothing)
  BY ClosedStaysClosed
<1>3. QED
  BY <1>1, <1>2, PTL DEF Spec, GzipFinishedIsFinal

-----------------------------------------------------------------------------
(* The checksum of a member.                                               *)

\* Everything from here on is said of the output behind the earlier members.
Late == {"DEFLATE", "TRAILER", "AFTER_TRAILER", "DONE", "CLOSED"}

\* The parts of a header behind its first bytes.
Parts == {"HDR_FEXTRA_LEN", "HDR_FNAME", "HDR_FCOMMENT", "HDR_FHCRC", "DICTID"}

OfThisMember ==
    /\ ref.start \in 0 .. Len(out)
    /\ sum = SubSeq(out, ref.start + 1, Len(out))

\* Nothing is folded before the stream begins; then all that the inner decoder
\* wrote; and at the trailer that is all that the batch decoder makes of it.
SumSoFar ==
    /\ out \in Seq(Byte)
    /\ state \notin Late => sum = <<>>
    /\ state = "DEFLATE" /\ status = "open" => OfThisMember
    /\ state = "TRAILER" => OfThisMember /\ out = ref.out

\* No part of the header is a part behind it.
LEMMA PartsComeFirst ==
    \A f : \A k \in 1 .. 4 : NextPart(f, k) \in {"DEFLATE"} \cup Parts
<1> SUFFICES ASSUME NEW f, NEW k \in 1 .. 4
             PROVE  NextPart(f, k) \in {"DEFLATE"} \cup Parts
  OBVIOUS
<1> DEFINE present == {i \in k .. 4 : Bit(f, OptionalBit[i])}
<1>1. CASE present = {}
  BY <1>1 DEF NextPart
<1>2. CASE present # {}
  <2>1. present \subseteq Nat /\ present \subseteq Int
    OBVIOUS
  <2>2. PICK m \in present : \A i \in present : m <= i
    <3> HIDE DEF present
    <3>1. QED
      BY <1>2, <2>1, LeastElement
  <2>3. Min(present) = m
    <3> HIDE DEF present
    <3>1. QED
      BY <2>1, <2>2, MinIs, Zenon
  <2>4. m \in 1 .. 4
    OBVIOUS
  <2>5. NextPart(f, k) = OptionalPart[m]
    BY <1>2, <2>3 DEF NextPart
  <2>6. OptionalPart[m] \in {"HDR_FEXTRA_LEN", "HDR_FNAME", "HDR_FCOMMENT", "HDR_FHCRC"}
    BY <2>4 DEF OptionalPart
  <2>7. QED
    BY <2>5, <2>6 DEF Parts
<1>3. QED
  BY <1>1, <1>2

\* Where a member's stream begins, nothing of it is in the sum and in the output.
LEMMA MemberBegins ==
    ASSUME out \in Seq(Byte), sum = <<>>, sum' = sum, NEW at, EnterDeflate(at)
    PROVE  OfThisMember' /\ out' = out /\ status' = status
<1>1. ref'.start = Len(out) /\ out' = out /\ status' = status
  BY DEF EnterDeflate, Batch
<1>2. SubSeq(out, Len(out) + 1, Len(out)) = <<>>
  OBVIOUS
<1>3. QED
  BY <1>1, <1>2 DEF OfThisMember

\* A turn in the header: the sum is still empty, also where the stream begins.
LEMMA HeaderTurn ==
    ASSUME SumSoFar, state \notin Late, sum' = sum,
           \/ UNCHANGED <<state, decoder>>
           \/ state' \notin Late /\ UNCHANGED decoder
           \/ \E s \in {"DEFLATE"} \cup Parts : Enter(s)
    PROVE  SumSoFar'
<1>1. sum = <<>> /\ out \in Seq(Byte)
  BY DEF SumSoFar
<1>2. CASE UNCHANGED <<state, decoder>> \/ (state' \notin Late /\ UNCHANGED decoder)
  BY <1>1, <1>2 DEF SumSoFar, decoder, Late
<1>3. ASSUME NEW s \in {"DEFLATE"} \cup Parts, Enter(s) PROVE SumSoFar'
  <2>1. CASE s = "DEFLATE"
    <3>1. state' = "DEFLATE" /\ EnterDeflate(cp')
      BY <1>3, <2>1 DEF Enter
    <3>2. OfThisMember' /\ out' = out
      BY <1>1, <3>1, MemberBegins
    <3>3. QED
      BY <1>1, <3>1, <3>2 DEF SumSoFar, Late
  <2>2. CASE s # "DEFLATE"
    BY <1>1, <1>3, <2>2 DEF Enter, SumSoFar, decoder, Late, Parts
  <2>3. QED
    BY <2>1, <2>2
<1>4. QED
  BY <1>2, <1>3

\* The header of either kind.
HeaderStep == \/ FixedHeader \/ FextraLen \/ FextraData \/ Fname \/ Fcomment \/ Fhcrc
              \/ ZlibHeader \/ DictId

LEMMA HeaderKeepsSum ==
    ASSUME SumSoFar, HeaderStep
    PROVE  SumSoFar'
<1> DEFINE Turned == /\ state \notin Late /\ sum' = sum
                     /\ \/ UNCHANGED <<state, decoder>>
                        \/ state' \notin Late /\ UNCHANGED decoder
                        \/ \E s \in {"DEFLATE"} \cup Parts : Enter(s)
<1>1. ASSUME FixedHeader PROVE Turned
  <2>1. state = "HDR_FIXED" /\ sum' = sum
    BY <1>1 DEF FixedHeader, In
  <2>2. UNCHANGED <<state, decoder>> \/ Enter(NextPart(flg', 1))
    BY <1>1 DEF FixedHeader
  <2>3. NextPart(flg', 1) \in {"DEFLATE"} \cup Parts
    BY PartsComeFirst, 1 \in 1 .. 4
  <2>4. QED
    BY <2>1, <2>2, <2>3 DEF Late
<1>2. ASSUME FextraLen PROVE Turned
  BY <1>2 DEF FextraLen, In, Late
<1>3. ASSUME FextraData PROVE Turned
  <2>1. state = "HDR_FEXTRA_DATA" /\ sum' = sum
    BY <1>3 DEF FextraData, In
  <2>2. UNCHANGED <<state, decoder>> \/ Enter(NextPart(flg, 2))
    BY <1>3 DEF FextraData
  <2>3. NextPart(flg, 2) \in {"DEFLATE"} \cup Parts
    BY PartsComeFirst, 2 \in 1 .. 4
  <2>4. QED
    BY <2>1, <2>2, <2>3 DEF Late
<1>4. ASSUME NEW s \in {"HDR_FNAME", "HDR_FCOMMENT"}, NEW k \in 3 .. 4, ZeroEnded(s, k) PROVE Turned
  <2>1. state = s /\ sum' = sum
    BY <1>4 DEF ZeroEnded, In
  <2>2. UNCHANGED <<state, decoder>> \/ Enter(NextPart(flg, k))
    BY <1>4 DEF ZeroEnded
  <2>3. NextPart(flg, k) \in {"DEFLATE"} \cup Parts
    BY PartsComeFirst, k \in 1 .. 4
  <2>4. QED
    BY <2>1, <2>2, <2>3 DEF Late
<1>5. ASSUME Fhcrc PROVE Turned
  BY <1>5 DEF Fhcrc, In, Late
<1>6. ASSUME ZlibHeader PROVE Turned
  <2>1. state = "HEADER" /\ sum' = sum
    BY <1>6 DEF ZlibHeader, In
  <2>2. \/ UNCHANGED <<state, decoder>>
        \/ \E fdict \in BOOLEAN : Enter(IF fdict THEN "DICTID" ELSE "DEFLATE")
    BY <1>6, Zenon DEF ZlibHeader, Bit
  <2>3. \A fdict \in BOOLEAN :
            (IF fdict THEN "DICTID" ELSE "DEFLATE") \in {"DEFLATE"} \cup Parts
    BY DEF Parts
  <2>4. QED
    BY <2>1, <2>2, <2>3 DEF Late
<1>7. ASSUME DictId PROVE Turned
  BY <1>7 DEF DictId, In, Late
<1>8. Turned
  BY <1>1, <1>2, <1>3, <1>4, <1>5, <1>6, <1>7 DEF HeaderStep, Fname, Fcomment
<1>9. QED
  BY <1>8, HeaderTurn

\* The rest of a prefix and what is behind it, taken together.
LEMMA RestAndMore ==
    ASSUME NEW S, NEW a \in Seq(S), NEW b \in Seq(S), IsPrefix(a, b), NEW p \in 0 .. Len(a)
    PROVE  SubSeq(a, p + 1, Len(a)) \o SubSeq(b, Len(a) + 1, Len(b)) = SubSeq(b, p + 1, Len(b))
<1>1. PICK n \in Nat, m \in Nat : n = Len(a) /\ m = Len(b) /\ n <= m /\ p <= n
  BY DEF IsPrefix
<1>2. \A i \in 1 .. n : a[i] = b[i]
  <2>1. SubSeq(a, 1, n) = SubSeq(b, 1, n)
    BY <1>1 DEF IsPrefix
  <2>2. \A i \in 1 .. n : SubSeq(a, 1, n)[i] = a[i] /\ SubSeq(b, 1, n)[i] = b[i]
    BY <1>1
  <2>3. QED
    BY <2>1, <2>2
<1> DEFINE old == SubSeq(a, p + 1, n)
           more == SubSeq(b, n + 1, m)
           all == SubSeq(b, p + 1, m)
<1>3. old \in Seq(S) /\ Len(old) = n - p /\ \A i \in 1 .. n - p : old[i] = b[p + i]
  <2>1. old \in Seq(S) /\ Len(old) = n - p /\ \A i \in 1 .. n - p : old[i] = a[p + i]
    BY <1>1
  <2>2. QED
    BY <1>1, <1>2, <2>1
<1>4. more \in Seq(S) /\ Len(more) = m - n /\ \A i \in 1 .. m - n : more[i] = b[n + i]
  BY <1>1
<1>5. all \in Seq(S) /\ Len(all) = m - p /\ \A i \in 1 .. m - p : all[i] = b[p + i]
  BY <1>1
<1> HIDE DEF old, more, all
<1>6. old \o more \in Seq(S) /\ Len(old \o more) = m - p
  <2>1. Len(old) + Len(more) = m - p
    BY <1>1, <1>3, <1>4
  <2>2. QED
    BY <1>3, <1>4, <2>1, ConcatProperties
<1>7. ASSUME NEW i \in 1 .. m - p PROVE (old \o more)[i] = all[i]
  <2>1. CASE i <= n - p
    <3>1. i \in 1 .. n - p /\ i \in 1 .. Len(old)
      BY <1>1, <1>3, <2>1
    <3>2. (old \o more)[i] = old[i]
      BY <1>3, <1>4, <3>1
    <3>3. QED
      BY <1>3, <1>5, <3>1, <3>2
  <2>2. CASE i > n - p
    <3>1. (old \o more)[i] = more[i - (n - p)]
      BY <1>1, <1>3, <1>4, <2>2
    <3>2. i - (n - p) \in 1 .. m - n /\ n + (i - (n - p)) = p + i
      BY <1>1, <2>2
    <3>3. QED
      BY <1>4, <1>5, <3>1, <3>2
  <2>3. i <= n - p \/ i > n - p
    BY <1>1
  <2>4. QED
    BY <2>1, <2>2, <2>3
<1>8. old \o more = all
  BY <1>5, <1>6, <1>7, SeqEqual
<1>9. QED
  BY <1>1, <1>8 DEF old, more, all

\* What the inner decoder wrote is folded into the sum at once.
LEMMA WrittenIsFolded ==
    ASSUME out \in Seq(Byte), OfThisMember, Written,
           sum' = sum \o SubSeq(out', Len(out) + 1, Len(out')), ref' = ref
    PROVE  OfThisMember'
<1>1. out' \in Seq(Byte) /\ IsPrefix(out, out') /\ ref.start \in 0 .. Len(out)
      /\ sum = SubSeq(out, ref.start + 1, Len(out))
  BY DEF OfThisMember, Written
<1>2. sum' = SubSeq(out', ref.start + 1, Len(out'))
  BY <1>1, RestAndMore
<1>3. ref.start \in 0 .. Len(out')
  BY <1>1 DEF IsPrefix
<1>4. QED
  BY <1>2, <1>3 DEF OfThisMember

\* The stream, the trailer and what is behind it.
LEMMA TurnKeepsSum ==
    ASSUME SumSoFar, Step
    PROVE  SumSoFar'
<1>1. CASE HeaderStep
  BY <1>1, HeaderKeepsSum
<1>2. CASE DeflateDrained
  BY <1>2 DEF DeflateDrained, SumSoFar, OfThisMember, decoder
<1>3. CASE InflateClosed
  BY <1>3 DEF InflateClosed, SumSoFar, OfThisMember, decoder, Poison
<1>4. CASE InflateChunk
  <2> DEFINE n == end - cp
  <2>1. state = "DEFLATE" /\ status = "open" /\ OfThisMember /\ out \in Seq(Byte)
    BY <1>4 DEF InflateChunk, In, SumSoFar
  <2>2. Written /\ ref' = ref /\ (status' = "open" \/ out' = ref'.out)
    BY <1>4, <2>1 DEF InflateChunk, Drained, Completed, Failed
  <2>3. OfThisMember'
    BY <1>4, <2>1, <2>2, WrittenIsFolded DEF InflateChunk
  <2>4. \/ status' = "done" /\ state' = "TRAILER"
        \/ status' # "done" /\ state' = "DEFLATE"
    BY <1>4, <2>1 DEF InflateChunk
  <2>5. QED
    BY <2>2, <2>3, <2>4 DEF SumSoFar, Written, Late
<1>5. CASE Trailer
  <2>1. state = "TRAILER" /\ state' \in {"TRAILER", "AFTER_TRAILER", "DONE"}
        /\ UNCHANGED <<sum, decoder>>
    BY <1>5 DEF Trailer, In
  <2>2. QED
    BY <2>1 DEF SumSoFar, OfThisMember, decoder, Late
<1>6. CASE AfterTrailer
  <2>1. /\ state = "AFTER_TRAILER" /\ out' = out
        /\ \/ state' \in {"AFTER_TRAILER", "DONE"}
           \/ state' = "HDR_FIXED" /\ sum' = <<>>
    BY <1>6 DEF AfterTrailer, In, NewMemberSum, decoder
  <2>2. QED
    BY <2>1 DEF SumSoFar, Late
<1>7. QED
  BY <1>1, <1>2, <1>3, <1>4, <1>5, <1>6 DEF Step, HeaderStep

\* The caller folds nothing.
LEMMA CallerKeepsSum ==
    ASSUME SumSoFar, [Next]_vars
    PROVE  SumSoFar'
<1> USE DEF SumSoFar, OfThisMember
<1>1. ASSUME NEW n, Write(n) PROVE SumSoFar'
  BY <1>1 DEF Write, decoder
<1>2. CASE WriteInvalid
  BY <1>2 DEF WriteInvalid, decoder
<1>3. CASE Finish
  BY <1>3 DEF Finish, Closes, Close, Late
<1>4. CASE Step
  BY <1>4, TurnKeepsSum
<1>5. CASE UNCHANGED vars
  BY <1>5 DEF vars, decoder
<1>6. QED
  BY <1>1, <1>2, <1>3, <1>4, <1>5 DEF Next

\* The sum that a trailer is compared with is that of its member.
THEOREM SumIsTheMembers == Spec => []SumCoversMember
<1>1. Init => SumSoFar
  BY DEF Init, Fresh, SumSoFar, Late
<1>2. SumSoFar /\ [Next]_vars => SumSoFar'
  BY CallerKeepsSum
<1>3. SumSoFar => SumCoversMember
  BY DEF SumSoFar, OfThisMember, SumCoversMember
<1>4. QED
  BY <1>1, <1>2, <1>3, PTL DEF Spec
=============================================================================
