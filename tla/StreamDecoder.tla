--------------------------- MODULE StreamDecoder ---------------------------
(***************************************************************************)
(* What the streaming DEFLATE decoder promises the envelopes built on it:  *)
(* gzip_dec_write and zlib_dec_write hand it the rest of their chunk, look *)
(* at what it returns, and step back over the bytes it pulled too many.    *)
(* A call is one step here.  DeflateDec implements this (its property      *)
(* KeepsPromise); EnvelopeDec is built on it.                              *)
(***************************************************************************)
EXTENDS Bits, Integers, SequencesExt

VARIABLES
    ref,     \* the batch decoder's answer: err, out, start, and where it ends
    total,   \* how long the caller's whole stream is
    taken,   \* bytes pulled from it
    ahead,   \* when done: the whole bytes pulled beyond the end (bits >> 3)
    out,     \* the output buffer up to dp
    status   \* "open", "done", "closed", or the sticky error

decoder == <<ref, total, taken, ahead, out, status>>

Fresh ==
    /\ taken = 0 /\ ahead = 0 /\ out = <<>> /\ status = "open"

\* A call only adds to the output.
Written == out' \in Seq(Byte) /\ IsPrefix(out, out')

\* The chunk did not complete the stream: all of it is consumed.
Drained(n) ==
    /\ status = "open"
    /\ ref.err = "none" => taken + n < ref.trailer
    /\ taken + n = total => ref.err = "CORRUPT_DATA"
    /\ taken' = taken + n
    /\ Written
    /\ IsPrefix(out', ref.out) \/ ref.err = "CORRUPT_DATA"
    /\ UNCHANGED <<ref, total, ahead, status>>

\* The stream ends in this chunk.
Completed(n) ==
    /\ status = "open" /\ ref.err = "none"
    /\ taken <= ref.trailer
    /\ taken' \in ref.trailer .. taken + n
    /\ ahead' = taken' - ref.trailer
    /\ out' = ref.out /\ Written
    /\ status' = "done"
    /\ UNCHANGED <<ref, total>>

Failed(n) ==
    /\ status = "open" /\ ref.err # "none"
    /\ taken' \in taken .. taken + n
    /\ out' = ref.out /\ Written
    /\ status' = ref.err
    /\ UNCHANGED <<ref, total, ahead>>

\* A later member may copy from an earlier one, where the batch decoder, which
\* gives every member a buffer of its own, refuses: nothing is promised then.
Crossed(n) ==
    /\ status = "open" /\ ref.err = "MATCH_OUT_OF_RANGE" /\ ref.start > 0
    /\ taken' \in taken .. taken + n
    /\ Written
    /\ UNCHANGED <<ref, total>>

Call(n) == Drained(n) \/ Completed(n) \/ Failed(n) \/ Crossed(n)

\* A negative length or a null chunk.
Misused ==
    /\ status \in {"open", "done"}
    /\ status' = "INVALID_INPUT" /\ ahead' = 0
    /\ UNCHANGED <<ref, total, taken, out>>

\* A fresh stream, behind the output so far: the next member, for the envelopes.
Restart ==
    /\ status # "closed"
    /\ taken' = taken - ahead /\ ahead' = 0
    /\ status' = "open"
    /\ ref'.start = Len(out) /\ IsPrefix(out, ref'.out)
    /\ UNCHANGED <<total, out>>

Close ==
    /\ status # "closed"
    /\ status' = "closed" /\ ahead' = 0
    /\ UNCHANGED <<ref, total, taken, out>>

Promise ==
    Fresh /\ [][(\E n \in 1 .. total - taken : Call(n)) \/ Misused \/ Restart \/ Close]_decoder
=============================================================================
