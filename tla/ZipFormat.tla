------------------------------ MODULE ZipFormat ------------------------------
(***************************************************************************)
(* What a zip archive is made of, and the reader of src/src/zip.cyr and    *)
(* zip_methods.cyr.  A buffer is the set of the pieces that lie in it,     *)
(* headers and payloads, each at its offset and as long as in the format;  *)
(* what is written over a piece, even in part, makes an end of it.         *)
(*                                                                         *)
(* The limits of the fields are parameters, to be met by small archives.   *)
(* A checksum is the content itself.                                       *)
(***************************************************************************)
EXTENDS Integers, FiniteSets, SequencesExt

CONSTANTS
    Width,      \* the length of a component of a path
    BadParts,   \* components with control bytes or backslashes
    Size,       \* the length of a chunk of data
    U32,        \* ZIP_Z64_U32, the sentinel of a 32-bit field
    MaxCount,   \* ZIP_Z64_U16 as the largest count of the plain trailer,
    MaxName,    \* and as the longest name
    MaxOutput   \* DECOMPRESS_MAX_OUTPUT (16777216)

ASSUME FormatAssumption ==
    /\ \A c \in DOMAIN Width : Width[c] \in Nat
    /\ \A d \in DOMAIN Size : Size[d] \in Nat \ {0}
    /\ {U32, MaxCount, MaxName, MaxOutput} \subseteq Nat \ {0}

\* The sum of a sequence of numbers.
SumOf(ns) ==
    LET sum[k \in 0 .. Len(ns)] == IF k = 0 THEN 0 ELSE sum[k - 1] + ns[k]
    IN  sum[Len(ns)]

-----------------------------------------------------------------------------
(* The MS-DOS date and time of a member, and seconds since 1970.  A stamp  *)
(* is a record of its fields, each as wide as its bits; years count from   *)
(* 1980, seconds in twos.                                                  *)

Stamp(y, mo, d, h, mi, s) ==
    [year |-> y, month |-> mo, day |-> d, hour |-> h, minute |-> mi, half |-> s]

\* "unset": midnight of the first of January 1980.
Floor1980 == Stamp(0, 1, 1, 0, 0, 0)

\* Days since 1970-01-01.  A year begins with March.
DaysFromCivil(y, m, d) ==
    LET yy  == IF m <= 2 THEN y - 1 ELSE y
        yoe == yy % 400
        doy == (153 * ((m + 9) % 12) + 2) \div 5 + d - 1
    IN  (yy \div 400) * 146097 + yoe * 365 + yoe \div 4 - yoe \div 100 + doy - 719468

CivilFromDays(days) ==
    LET z   == days + 719468
        doe == z % 146097
        yoe == (doe - doe \div 1460 + doe \div 36524 - doe \div 146096) \div 365
        doy == doe - (365 * yoe + yoe \div 4 - yoe \div 100)
        mp  == (5 * doy + 2) \div 153
        m   == IF mp >= 10 THEN mp - 9 ELSE mp + 3
        y   == yoe + (z \div 146097) * 400
    IN  [y |-> IF m <= 2 THEN y + 1 ELSE y, m |-> m, d |-> doy - (153 * mp + 2) \div 5 + 1]

UnixToDos(t) ==
    LET date == CivilFromDays(t \div 86400)
        s    == t % 86400
        y    == IF date.y > 2107 THEN 2107 ELSE date.y
    IN  IF t <= 0 \/ date.y < 1980 THEN Floor1980
        ELSE Stamp(y - 1980, date.m, date.d, s \div 3600, (s % 3600) \div 60, (s % 60) \div 2)

DosToUnix(p) ==
    IF p.day < 1 \/ p.month \notin 1 .. 12 \/ p = Floor1980 THEN 0
    ELSE DaysFromCivil(1980 + p.year, p.month, p.day) * 86400
           + p.hour * 3600 + p.minute * 60 + 2 * p.half

-----------------------------------------------------------------------------
(* Names are sequences of components: "a//b" is <<"a", "", "b">>.          *)

NameLen(n) == Len(n) - 1 + SumOf([k \in DOMAIN n |-> Width[n[k]]])

PathSafe(n) ==
    /\ \A k \in DOMAIN n : n[k] = "" => k = Len(n) /\ k > 1
    /\ \A k \in DOMAIN n : n[k] # ".." /\ n[k] \notin BadParts

\* Mutant: "./l" and "l" are two paths.
CanonicalVerbatim(n) == n

\* What _zip_path_hash hashes.
Canonical(n) == SelectSeq(n, LAMBDA c : c \notin {"", "."})

\* The ledger holds hashes; two of them being equal can only refuse more.
Through(n, ledger) ==
    \E k \in 1 .. Len(Canonical(n)) - 1 : SubSeq(Canonical(n), 1, k) \in ledger

-----------------------------------------------------------------------------
(* Content and pieces.                                                     *)

Length(content) == SumOf([k \in DOMAIN content |-> Size[content[k]]])

End(p) == p.at + p.size

Wipe(dst, from, upto) ==
    IF from >= upto THEN dst ELSE {p \in dst : End(p) <= from \/ p.at >= upto}

Put(dst, p) == Wipe(dst, p.at, End(p)) \cup {p}

\* The pieces ps, one after the other.
PutAll(dst, ps) ==
    LET put[k \in 0 .. Len(ps)] == IF k = 0 THEN dst ELSE Put(put[k - 1], ps[k])
    IN  put[Len(ps)]

The(dst, kind, at) == {p \in dst : p.kind = kind /\ p.at = at}

\* A payload is one piece per chunk if it is stored, otherwise one piece.
Plain(at, content) ==
    [k \in DOMAIN content |->
        [kind |-> "plain", at |-> at + Length(SubSeq(content, 1, k - 1)),
         size |-> Size[content[k]], chunk |-> content[k]]]

Packed(at, size, method, content) ==
    [kind |-> "packed", at |-> at, size |-> size, method |-> method, content |-> content]

LocalHeader(at, size) == [kind |-> "local", at |-> at, size |-> size]

Descriptor(at) == [kind |-> "descriptor", at |-> at, size |-> 16]

\* A value that does not fit its field moves.
Overflown(v) == IF v > U32 THEN <<v>> ELSE <<>>

\* Mutant: the offset first.
ExtraOffsetFirst(r) == Overflown(r.hdr) \o Overflown(r.ulen) \o Overflown(r.csize)

\* The values that moved, in the order of the format.
Extra(r) == Overflown(r.ulen) \o Overflown(r.csize) \o Overflown(r.hdr)

Field32(v) == IF v > U32 THEN U32 ELSE v

CentralSize(r) ==
    46 + NameLen(r.name) + (IF Extra(r) = <<>> THEN 0 ELSE 4 + 8 * Len(Extra(r)))

\* A central record for the record r of a member.
Central(at, r) ==
    [kind |-> "central", at |-> at, size |-> CentralSize(r),
     name |-> r.name, method |-> r.method, crc |-> r.crc,
     fields |-> <<Field32(r.ulen), Field32(r.csize), Field32(r.hdr)>>, extra |-> Extra(r),
     encrypted |-> FALSE, unix |-> r.mode # "none", mode |-> r.mode,
     stamp |-> UnixToDos(r.mtime)]

CentralSizes(recs) == [k \in 1 .. Len(recs) |-> CentralSize(recs[k])]

\* The central records of a directory that begins at at, and where it ends.
Directory(at, recs) ==
    [k \in 1 .. Len(recs) |-> Central(at + SumOf(SubSeq(CentralSizes(recs), 1, k - 1)), recs[k])]

DirectoryEnd(at, recs) == at + SumOf(CentralSizes(recs))

\* What follows the directory.
Trailer(at, count, from) ==
    LET size   == at - from
        need64 == count > MaxCount \/ size > U32 \/ from > U32
        plain(where) == [kind |-> "eocd", at |-> where, size |-> 22, disk |-> 0,
                         count |-> IF count > MaxCount THEN MaxCount ELSE count,
                         dsize |-> Field32(size), doff |-> Field32(from)]
    IN  IF ~need64 THEN <<plain(at)>>
        ELSE <<[kind |-> "eocd64", at |-> at, size |-> 56, disk |-> 0, count |-> count,
                dsize |-> size, doff |-> from],
               [kind |-> "locator", at |-> at + 56, size |-> 20, target |-> at],
               plain(at + 76)>>

\* Mutant: a central record's extra field is not counted.
BoundWithoutExtra(members) ==
    98 + SumOf([k \in DOMAIN members |-> 96 + 2 * members[k].nlen + members[k].ulen])

\* zip_bound for members [nlen, ulen].
Bound(members) ==
    98 + SumOf([k \in DOMAIN members |-> 124 + 2 * members[k].nlen + members[k].ulen])

-----------------------------------------------------------------------------
(* zip_open_a: the index, or why there is none.                            *)

Failed(e) == [err |-> e, entries |-> <<>>]

\* The fields of a record, those that read as the sentinel from its extra
\* field; none if there are too few values in it.
Resolved(p) ==
    LET needs   == {k \in 1 .. 3 : p.fields[k] = U32}
        nth(k)  == Cardinality({j \in needs : j <= k})
    IN  IF Cardinality(needs) > Len(p.extra) THEN <<>>
        ELSE [k \in 1 .. 3 |-> IF k \in needs THEN p.extra[nth(k)] ELSE p.fields[k]]

InBounds(at, n, len) == at >= 0 /\ at <= len /\ len - at >= n

Entry(p, v) ==
    [name |-> p.name, method |-> p.method, crc |-> p.crc, usize |-> v[1],
     csize |-> v[2], lho |-> v[3], mode |-> IF p.unix THEN p.mode ELSE "none",
     mtime |-> DosToUnix(p.stamp)]

\* One turn of the walk over the directory: its state is [err, at, entries].
WalkOn(dst, len, stop, s) ==
    LET here == The(dst, "central", s.at)
        p    == CHOOSE p \in here : TRUE
        v    == Resolved(p)
        e    == IF s.at + 46 > stop \/ here = {} THEN "CORRUPT_DATA"
                ELSE IF p.encrypted THEN "UNSUPPORTED_FORMAT"
                ELSE IF End(p) > stop \/ v = <<>> THEN "CORRUPT_DATA"
                ELSE IF ~InBounds(v[3], 30, len) \/ v[1] < 0 \/ v[2] < 0 THEN "CORRUPT_DATA"
                ELSE "none"
    IN  IF s.err # "none" THEN s
        ELSE IF e # "none" THEN [s EXCEPT !.err = e]
        ELSE [err |-> "none", at |-> End(p), entries |-> Append(s.entries, Entry(p, v))]

Walk(dst, len, dir) ==
    LET w[k \in 0 .. dir.count] ==
            IF k = 0 THEN [err |-> "none", at |-> dir.doff, entries |-> <<>>]
            ELSE WalkOn(dst, len, dir.doff + dir.dsize, w[k - 1])
    IN  IF w[dir.count].err # "none" THEN Failed(w[dir.count].err)
        ELSE [err |-> "none", entries |-> w[dir.count].entries]

\* Where the directory is: the plain trailer, or the one its locator names.
OpenAt(dst, len, dir) ==
    IF dir.disk # 0 THEN Failed("UNSUPPORTED_FORMAT")
    ELSE IF dir.doff < 0 \/ dir.dsize < 0 \/ ~InBounds(dir.doff, dir.dsize, len)
              \/ dir.count < 0 \/ dir.count > dir.dsize \div 46
         THEN Failed("CORRUPT_DATA")
    ELSE Walk(dst, len, dir)

Open(dst, len) ==
    LET ends == {p \in dst : p.kind = "eocd" /\ End(p) = len}
        eocd == CHOOSE p \in ends : TRUE
        locs == The(dst, "locator", eocd.at - 20)
        z64  == The(dst, "eocd64", (CHOOSE p \in locs : TRUE).target)
    IN  IF ends = {} THEN Failed("CORRUPT_DATA")
        ELSE IF eocd.disk # 0 THEN Failed("UNSUPPORTED_FORMAT")
        ELSE IF locs = {} THEN OpenAt(dst, len, eocd)
        ELSE IF z64 = {} THEN Failed("CORRUPT_DATA")
        ELSE OpenAt(dst, len, CHOOSE p \in z64 : TRUE)

-----------------------------------------------------------------------------
(* Extraction.                                                             *)

\* Mutant: only links in front of the member, as in the cursor of tar.cyr.
LedgerBefore(entries, i) ==
    {Canonical(entries[j].name) : j \in {j \in 1 .. i - 1 : entries[j].mode = "link"}}

\* The symlink ledger is of the whole archive, whatever member it is asked for.
Ledger(entries, i) ==
    {Canonical(entries[j].name) : j \in {j \in DOMAIN entries : entries[j].mode = "link"}}

\* Mutant: a file may be written onto a link.
EscapesThroughOnly(entries, i) ==
    ~PathSafe(entries[i].name) \/ Through(entries[i].name, Ledger(entries, i))

Escapes(entries, i) ==
    LET e == entries[i]
    IN  \/ ~PathSafe(e.name)
        \/ Through(e.name, Ledger(entries, i))
        \/ e.mode # "link" /\ Canonical(e.name) \in Ledger(entries, i)

TooDense(e, ratio) ==
    ratio > 0 /\ IF e.csize = 0 THEN e.usize > 0 ELSE e.usize \div e.csize > ratio

\* _zip_prepare: the offset of the payload, or why the member is refused.
Prepare(dst, len, entries, i, room, ratio) ==
    LET e     == entries[i]
        local == The(dst, "local", e.lho)
        data  == e.lho + (CHOOSE p \in local : TRUE).size
        err   == IF Escapes(entries, i) THEN "UNSAFE_PATH"
                 ELSE IF ~InBounds(e.lho, 30, len) \/ local = {} THEN "CORRUPT_DATA"
                 ELSE IF ~InBounds(data, e.csize, len) THEN "CORRUPT_DATA"
                 ELSE IF e.usize > room THEN "BUFFER_TOO_SMALL"
                 ELSE IF TooDense(e, ratio) THEN "RATIO_LIMIT"
                 ELSE "none"
    IN  [err |-> err, data |-> IF err = "none" THEN data ELSE 0]

\* What is stored in the n bytes at at, the chunks in the order they lie in.
PlainAt(dst, at, n) ==
    LET here   == {p \in dst : p.kind = "plain" /\ p.at >= at /\ End(p) <= at + n}
        nth(k) == CHOOSE p \in here : Cardinality({q \in here : q.at < p.at}) = k - 1
    IN  [k \in 1 .. Cardinality(here) |-> nth(k).chunk]

\* The methods of zip.cyr itself.
LeanMethods == {"STORE", "DEFLATE"}

\* zstd_decompress and storing know no limit but the room; to the others
\* zip_extract_capped and zip_extract_any_capped give none of their own.
Unlimited == {"STORE", "ZSTD"}

\* How much the other codecs put out of csize bytes.
OutputLimit(csize, ratio) ==
    IF ratio = 0 \/ csize >= MaxOutput \div ratio THEN MaxOutput ELSE csize * ratio

\* Why a codec gives up that has n bytes to put out; the lowest limit is met
\* first, and of two equal ones it is asked for room first.
Overrun(e, n, room, ratio) ==
    LET limit == OutputLimit(e.csize, ratio)
    IN  IF e.method \in Unlimited THEN IF n > room THEN "INVALID_INPUT" ELSE "none"
        ELSE IF n > room /\ room <= limit THEN "BUFFER_TOO_SMALL"
        ELSE IF n <= limit THEN "none"
        ELSE IF limit = MaxOutput THEN "OUTPUT_LIMIT" ELSE "RATIO_LIMIT"

\* zip_extract_any_capped; with zip_extract_capped the methods are the lean
\* ones.  What is not the packed stream in whole does not decode.
Extract(dst, len, entries, i, room, ratio, methods) ==
    LET e      == entries[i]
        pre    == Prepare(dst, len, entries, i, room, ratio)
        packed == {p \in The(dst, "packed", pre.data) : p.method = e.method /\ p.size = e.csize}
        got    == IF e.method = "STORE" THEN PlainAt(dst, pre.data, e.usize)
                  ELSE (CHOOSE p \in packed : TRUE).content
        over   == Overrun(e, Length(got), room, ratio)
        err    == IF pre.err # "none" THEN pre.err
                  ELSE IF e.method \notin methods THEN "UNSUPPORTED_FORMAT"
                  ELSE IF e.method = "STORE" /\ e.csize # e.usize THEN "CORRUPT_DATA"
                  ELSE IF e.method # "STORE" /\ packed = {} THEN "CORRUPT_DATA"
                  ELSE IF e.method # "STORE" /\ over # "none" THEN over
                  ELSE IF e.method # "STORE" /\ Length(got) # e.usize THEN "CORRUPT_DATA"
                  ELSE IF got # e.crc THEN "CHECKSUM_MISMATCH"
                  ELSE "none"
    IN  [err |-> err, content |-> IF err = "none" THEN got ELSE <<>>]
=============================================================================
