----------------------------- MODULE MCRuntime -----------------------------
(* Two threads, the pair of LZ77 tables, whose first pointer alone is       *)
(* tested, and two checksum tables: crc32 publishes a finished table, crc64  *)
(* fills the published one in place.                                         *)
EXTENDS Runtime

CONSTANTS t1, t2
MCThreads == {t1, t2}
MCCodec   == {"head", "prev"}
MCBehind  == [tb \in {"prev"} |-> "head"]
MCSums    == {"crc32", "crc64"}
MCInPlace == {"crc64"}
=============================================================================
