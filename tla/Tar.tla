--------------------------------- MODULE Tar ---------------------------------
(***************************************************************************)
(* The tar cursor of src/src/tar.cyr: tar_open_auto unpacks an archive into *)
(* a buffer it grows, tar_next goes through the blocks and returns one     *)
(* entry per call, a consumer calls it for as long as it likes, also again *)
(* after an error or behind the end.                                       *)
(*                                                                         *)
(* An archive is a sequence of blocks of Block units.  A block is a header *)
(* with a type, a path, a link and a size in units; a block of zeros; or   *)
(* units of content: a component of a long name, or a PAX record.  A path  *)
(* is the sequence of what lies between its slashes: <<"">> is the empty   *)
(* path, <<"a", "">> is "a/".                                              *)
(***************************************************************************)
EXTENDS Integers, FiniteSets, SequencesExt

CONSTANTS
    Block,       \* units in a block (512 bytes)
    Content,     \* [name of a block -> record [typ, path, link, size, units]]
    Key,         \* [canonical path -> its FNV-1a hash]
    Archives,    \* records [blocks, len, format, packed, hint, corrupt]
    MinCap,      \* the smallest buffer that is tried (1048576)
    Ceiling,     \* the largest: min(TAR_MAX_OUT, DECOMPRESS_MAX_OUTPUT)
    LedgerInit,  \* slots of the first ledger (64)
    MaxFaults    \* bound on the allocations that fail

ASSUME TarAssumption ==
    /\ {Block, MinCap, Ceiling, LedgerInit} \subseteq Nat \ {0}
    /\ MaxFaults \in Nat
    /\ \A x \in Archives :
          /\ x.blocks \in Seq(DOMAIN Content) /\ x.len \in 0 .. Block * Len(x.blocks)
          /\ {x.packed, x.hint} \subseteq Nat
    /\ \A b \in DOMAIN Content :
          /\ Content[b].size \in Int
          /\ Content[b].units \in Seq(Range(Content[b].units))
          /\ \A u \in Range(Content[b].units) : u.size \in Nat

VARIABLES
    archive,   \* the archive that is given
    pc,        \* "closed", "decoding", "idle", "reading", "shut", "crashed"
    cap,       \* size of the buffer that is tried
    spent,     \* the units of all buffers so far; they are never freed
    pos,       \* where the next call of tar_next begins
    at,        \* where this one has got to
    zeros,     \* how many blocks of zeros it has just seen
    px,        \* PAX overrides of the next entry: [path, link, size], each a
    pg,        \* set that is empty when unset; those of all entries
    gnuName,   \* GNU long path of the next entry, likewise
    gnuLink,   \* GNU long link
    ledger,    \* [slots, keys]: the links so far
    entry,     \* what the accessors say: [kind, path, size, data, link]
    result,    \* of the last call
    emitted,   \* the entries that were returned
    faults,    \* how many allocations failed
    lost       \* one of them was that of a PAX value

opening == <<archive, cap, spent>>
pending == <<px, pg, gnuName, gnuLink>>
history == <<emitted, faults, lost>>
vars    == <<opening, pc, pos, at, zeros, pending, ledger, entry, result, history>>

Unset   == [path |-> {}, link |-> {}, size |-> {}]
NoEntry == [kind |-> "file", path |-> <<"">>, size |-> 0, data |-> 0, link |-> <<"">>]

Init ==
    /\ archive \in Archives
    /\ pc = "closed" /\ cap = 0 /\ spent = 0
    /\ pos = 0 /\ at = 0 /\ zeros = 0
    /\ px = Unset /\ pg = Unset /\ gnuName = {} /\ gnuLink = {}
    /\ ledger = [slots |-> LedgerInit, keys |-> {}]
    /\ entry = NoEntry /\ result = "none"
    /\ emitted = <<>> /\ faults = 0 /\ lost = FALSE

-----------------------------------------------------------------------------
(* Paths.                                                                  *)

Canonical(path) == SelectSeq(path, LAMBDA c : c \notin {"", "."})

\* Not empty, not absolute, nothing empty inside, no "..", no bad byte.
PathSafe(path) ==
    \A i \in DOMAIN path :
        /\ path[i] \notin {"..", "bad"}
        /\ path[i] = "" => i > 1 /\ i = Len(path)

\* A target without bad bytes; a relative one never climbs above the root.
LinkSafe(path, target) ==
    LET Climbs(n) == Cardinality({i \in 1 .. n : target[i] = ".."})
        Falls(n)  == Cardinality({i \in 1 .. n : target[i] \notin {"", ".", ".."}})
        depth     == Len(Canonical(path)) - 1
    IN  /\ target # <<"">>
        /\ \A i \in DOMAIN target : target[i] # "bad"
        /\ \/ target[1] = ""
           \/ \A n \in DOMAIN target : Climbs(n) <= Falls(n) + (IF depth > 0 THEN depth ELSE 0)

\* The directories on the way; the root is not one of them.
Above(path) == {SubSeq(Canonical(path), 1, n) : n \in 1 .. Len(Canonical(path)) - 1}

\* The path goes through, or writes onto, one of the links with these keys.
\* A hash that two paths share refuses more than it has to.
Crosses(keys, kind, path) ==
    \/ \E p \in Above(path) : Key[p] \in keys
    \/ kind # "link" /\ Key[Canonical(path)] \in keys

\* A file whose name ends in a slash is a directory (v7).
KindOf(typ, path) ==
    IF typ = "file" /\ Len(path) > 1 /\ Last(path) = "" THEN "dir" ELSE typ

-----------------------------------------------------------------------------
(* The blocks of the archive.                                              *)

BlockAt(p) == Content[archive.blocks[p \div Block + 1]]

Nul == [key |-> "nul", value |-> <<"">>, size |-> 0]

UnitAt(u) ==
    LET units == BlockAt(u).units
    IN  IF (u % Block) < Len(units) THEN units[(u % Block) + 1] ELSE Nul

\* Content is padded to whole blocks.
Padded(size) == ((size + Block - 1) \div Block) * Block

\* How many of size units are of these kinds, before the first one that is not.
Run(p, size, keys) ==
    CHOOSE n \in 0 .. size :
        /\ \A i \in 0 .. n - 1 : UnitAt(p + i).key \in keys
        /\ n < size => UnitAt(p + n).key \notin keys

\* A malformed record ends the parse of an extended header.
Records(p, size) ==
    [i \in 1 .. Run(p, size, {"path", "linkpath", "size", "other"}) |-> UnitAt(p + i - 1)]

\* A long name ends at a NUL.
LongName(p, size) ==
    LET n == Run(p, size, {"text"})
    IN  IF n = 0 THEN <<"">> ELSE [i \in 1 .. n |-> UnitAt(p + i - 1).value[1]]

\* The overrides after these records; the copy of record bad could not be
\* allocated, which unsets what it would have set.
Parsed(rec, records, bad) ==
    LET Of(key) == {i \in DOMAIN records : records[i].key = key}
        Latest(key) == CHOOSE i \in Of(key) : \A j \in Of(key) : j <= i
        Path(key, old) == IF Of(key) = {} THEN old
                          ELSE IF Latest(key) = bad THEN {} ELSE {records[Latest(key)].value}
    IN  [path |-> Path("path", rec.path), link |-> Path("linkpath", rec.link),
         size |-> IF Of("size") = {} THEN rec.size ELSE {records[Latest("size")].size}]

\* The first of these sets that is not empty, by its element.
FirstOf(sets, default) ==
    LET full == {i \in DOMAIN sets : sets[i] # {}}
    IN  IF full = {} THEN default ELSE CHOOSE x \in sets[Min(full)] : TRUE

First(sets, default) == CHOOSE x \in {FirstOf(s, default) : s \in {sets}} : TRUE

-----------------------------------------------------------------------------
(* Opening.  The codec is only this: it fills a buffer that is large       *)
(* enough, if the archive is sound.                                        *)

MayFail == faults < MaxFaults

Fault == MayFail /\ faults' = faults + 1

Cursor == <<pos, at, zeros, pending, ledger, entry, result, emitted, lost>>

\* The size that a zstd stream or a gzip trailer declares is a hint; any other
\* archive is taken to grow to eight times its size.
Seed ==
    LET hinted == archive.hint > 0 /\ \/ archive.format = "zstd"
                                      \/ archive.format = "gzip" /\ archive.hint <= Ceiling
    IN  IF hinted THEN archive.hint + Block ELSE 8 * archive.packed

\* Mutant: a buffer that would have to be clipped is not tried.
UnclippedOnly(c) == IF c > Ceiling THEN 0 ELSE c

Clipped(c) == IF c > Ceiling THEN Ceiling ELSE c

\* tar_open, or 0 without memory.
MakeCursor ==
    \/ pc' = "idle" /\ UNCHANGED faults
    \/ pc' = "shut" /\ Fault

Open ==
    /\ pc = "closed"
    /\ \/ archive.format = "plain" /\ MakeCursor /\ UNCHANGED cap
       \/ /\ archive.format # "plain"
          /\ cap' = Clipped(IF Seed < MinCap THEN MinCap ELSE Seed)
          /\ pc' = "decoding" /\ UNCHANGED faults
    /\ UNCHANGED <<archive, spent, Cursor>>

\* Only a buffer that is too small is worth another one.
TryLarger ==
    LET larger == Clipped(cap * 2)
    IN  IF cap >= Ceiling \/ larger = 0
          THEN pc' = "shut" /\ UNCHANGED cap
          ELSE cap' = larger /\ UNCHANGED pc

\* Where the output does not fit, zstd_decompress returns -1 or -52 (zstd.cyr
\* 656, 719, 744, 863, 870, 886), which tell nothing, and every other codec
\* ERR_BUFFER_TOO_SMALL.
SaysTooSmall == archive.format # "zstd"

Decode ==
    /\ pc = "decoding"
    /\ \/ pc' = "shut" /\ Fault /\ UNCHANGED <<cap, spent>>
       \/ /\ spent' = spent + cap
          /\ \/ ~archive.corrupt /\ archive.len <= cap /\ MakeCursor /\ UNCHANGED cap
             \/ archive.len > cap /\ SaysTooSmall /\ TryLarger /\ UNCHANGED faults
             \/ /\ archive.corrupt \/ (archive.len > cap /\ ~SaysTooSmall)
                /\ pc' = "shut" /\ UNCHANGED <<cap, faults>>
    /\ UNCHANGED <<archive, Cursor>>

-----------------------------------------------------------------------------
(* tar_next.                                                               *)

Header    == BlockAt(at)
Reading == pc = "reading" /\ at + Block <= archive.len

\* A return; an error leaves the position where the call began, and whatever
\* was pending pending: the next call reads the same blocks again.
Return(r) == pc' = "idle" /\ result' = r /\ at' = 0 /\ zeros' = 0

Fail(error) == Return(error) /\ UNCHANGED <<pos, pending, ledger, emitted, lost>>

Call ==
    /\ pc = "idle"
    /\ pc' = "reading" /\ at' = pos /\ zeros' = 0 /\ result' = "none"
    /\ UNCHANGED <<opening, pos, pending, ledger, entry, history>>

\* No room for another header: the end, with or without a terminator.
RunOut ==
    /\ pc = "reading" /\ at + Block > archive.len
    /\ Return("end") /\ pos' = at
    /\ UNCHANGED <<opening, pending, ledger, entry, history>>

\* Two blocks of zeros in a row end the archive.
SkipZeros ==
    /\ Reading /\ Header.typ = "zero"
    /\ IF zeros = 1
         THEN Return("end") /\ pos' = at + Block
         ELSE zeros' = zeros + 1 /\ at' = at + Block /\ UNCHANGED <<pc, pos, result>>
    /\ UNCHANGED <<opening, pending, ledger, entry, history>>

\* The checksum, or the size field.
Sound(head) == head.typ # "junk" /\ head.size >= 0

BadHeader ==
    /\ Reading /\ Header.typ # "zero" /\ ~Sound(Header)
    /\ Fail("BAD_HEADER") /\ UNCHANGED <<opening, entry, faults>>

\* A header whose content is read here: PAX or a long name.
Carries(types) ==
    Reading /\ Sound(Header) /\ Header.typ \in types /\ at + Block + Header.size <= archive.len

TooShort ==
    /\ Reading /\ Sound(Header) /\ Header.typ \in {"x", "g", "L", "K"}
    /\ at + Block + Header.size > archive.len
    /\ Fail("TRUNCATED") /\ UNCHANGED <<opening, entry, faults>>

GoOn == at' = at + Block + Padded(Header.size) /\ zeros' = 0 /\ UNCHANGED <<pc, pos, result>>

\* One value may find no memory.
Extended ==
    /\ Carries({"x", "g"})
    /\ LET records == Records(at + Block, Header.size)
       IN  \E bad \in {0} \cup {i \in DOMAIN records : records[i].key \in {"path", "linkpath"}} :
              /\ bad = 0 \/ MayFail
              /\ faults' = IF bad = 0 THEN faults ELSE faults + 1
              /\ lost' = (lost \/ bad # 0)
              /\ px' = IF Header.typ = "x" THEN Parsed(px, records, bad) ELSE px
              /\ pg' = IF Header.typ = "g" THEN Parsed(pg, records, bad) ELSE pg
    /\ GoOn /\ UNCHANGED <<opening, gnuName, gnuLink, ledger, entry, emitted>>

LongNamed ==
    /\ Carries({"L", "K"})
    /\ \/ /\ LET name == LongName(at + Block, Header.size)
             IN  /\ gnuName' = IF Header.typ = "L" THEN {name} ELSE gnuName
                 /\ gnuLink' = IF Header.typ = "K" THEN {name} ELSE gnuLink
          /\ GoOn /\ UNCHANGED <<opening, px, pg, ledger, entry, history>>
       \/ Fault /\ Fail("OOM") /\ UNCHANGED <<opening, entry>>

-----------------------------------------------------------------------------
(* Entries.  A PAX value of the entry goes before one of the archive, both *)
(* before a GNU name, and that before the header.                          *)

Path == First(<<px.path, pg.path, gnuName>>, Header.path)
Link == First(<<px.link, pg.link, gnuLink>>, Header.link)
Size == First(<<px.size, pg.size>>, Header.size)
Kind == KindOf(Header.typ, Path)

EntryTypes == {"file", "dir", "link"}

EntryAhead == Reading /\ Sound(Header) /\ Header.typ \notin {"zero", "x", "g", "L", "K"}

\* Why a path is refused before anything is written down.
PathRefusal ==
    IF Header.typ \notin EntryTypes THEN "UNSUPPORTED"
    ELSE IF ~PathSafe(Path) \/ Crosses(ledger.keys, Kind, Path) THEN "UNSAFE"
    ELSE "none"

RefusePath ==
    /\ EntryAhead /\ PathRefusal # "none"
    /\ Fail(PathRefusal) /\ UNCHANGED <<opening, entry, faults>>

NoPath == EntryAhead /\ Fault /\ Fail("OOM") /\ UNCHANGED <<opening, entry>>

\* From here on the kind and the path are already those of this entry.
Accepted == EntryAhead /\ PathRefusal = "none"

HalfWritten == entry' = [entry EXCEPT !.kind = Kind, !.path = Path]

Missing == Kind = "file" /\ Size > archive.len - at - Block

RefuseEntry ==
    /\ Accepted
    /\ \/ Kind = "link" /\ ~LinkSafe(Path, Link) /\ Fail("UNSAFE")
       \/ Missing /\ Fail("TRUNCATED")
    /\ HalfWritten /\ UNCHANGED <<opening, faults>>

\* Mutant: a GNU name stays for the entries behind.
NamesStay == px' = Unset /\ UNCHANGED <<pg, gnuName, gnuLink>>

\* What was pending was for this entry.
Settled == px' = Unset /\ gnuName' = {} /\ gnuLink' = {} /\ UNCHANGED pg

Emit(e, size) ==
    /\ entry' = e /\ emitted' = Append(emitted, e)
    /\ Return("entry") /\ pos' = at + Block + size
    /\ Settled /\ UNCHANGED <<opening, lost>>

\* Only a file has content to go past, whatever the header says.
EmitPlain ==
    /\ Accepted /\ Kind # "link" /\ ~Missing
    /\ LET size == IF Kind = "file" THEN Size ELSE 0
       IN  Emit([kind |-> Kind, path |-> Path, size |-> size, link |-> <<"">>,
                 data |-> IF Kind = "file" THEN at + Block ELSE 0], Padded(size))
    /\ UNCHANGED <<ledger, faults>>

\* The ledger with one more key; it is never more than half full.
Crowded == (Cardinality(ledger.keys) + 1) * 2 > ledger.slots

\* Mutant: only links that leave their directory are remembered.
RememberedIfRisky(key) ==
    [slots |-> ledger.slots,
     keys  |-> ledger.keys \cup IF Link[1] = "" \/ ".." \in ToSet(Link) THEN {key} ELSE {}]

Remembered(key) ==
    [slots |-> IF Crowded THEN ledger.slots * 2 ELSE ledger.slots, keys |-> ledger.keys \cup {key}]

LinkAhead == Accepted /\ Kind = "link"

EmitLink ==
    /\ LinkAhead /\ LinkSafe(Path, Link)
    /\ ledger' = Remembered(Key[Canonical(Path)])
    /\ Emit([kind |-> "link", path |-> Path, size |-> 0, data |-> 0, link |-> Link], 0)
    /\ UNCHANGED faults

\* The ledger finds no memory to grow.
NoLedger ==
    /\ LinkAhead /\ LinkSafe(Path, Link) /\ Crowded
    /\ Fault /\ Fail("OOM") /\ HalfWritten /\ UNCHANGED opening

\* The copy of the link in the header finds none: nothing looks at that, and
\* without an override the length of a null string is taken.
NoLink ==
    /\ LinkAhead /\ px.link = {} /\ pg.link = {} /\ gnuLink = {}
    /\ Fault /\ pc' = "crashed"
    /\ UNCHANGED <<opening, pos, at, zeros, pending, ledger, entry, result, emitted, lost>>

Next ==
    \/ Open \/ Decode
    \/ Call \/ RunOut \/ SkipZeros \/ BadHeader
    \/ TooShort \/ Extended \/ LongNamed
    \/ RefusePath \/ NoPath \/ RefuseEntry
    \/ EmitPlain \/ EmitLink \/ NoLedger \/ NoLink

Spec == Init /\ [][Next]_vars

-----------------------------------------------------------------------------
(* The meaning of an archive: its headers one behind the other, and of each *)
(* entry what is to be found in those before it.                           *)

Extensions == {"x", "g", "L", "K"}

\* hs are the positions of headers, the last one that of an entry.  Those
\* headers of a type that count for the entry: all, or those that are its own.
Counting(hs, typ, own) ==
    {i \in 1 .. Len(hs) - 1 :
        /\ BlockAt(hs[i]).typ = typ
        /\ own => \A j \in i .. Len(hs) - 1 : BlockAt(hs[j]).typ \in Extensions}

\* The latest record with a key, if there is one.
LatestOf(records, key) ==
    {records[i] : i \in {i \in DOMAIN records :
                            /\ records[i].key = key
                            /\ \A j \in i + 1 .. Len(records) : records[j].key # key}}

Said(hs, typ, key, own) ==
    LET Recs(S) == [i \in DOMAIN hs |-> IF i \in S THEN Records(hs[i] + Block, BlockAt(hs[i]).size)
                                                   ELSE <<>>]
    IN  UNION {LatestOf(FlattenSeq(Recs(S)), key) : S \in {Counting(hs, typ, own)}}

\* The latest long name of a type since the entry before.
Named(hs, typ) ==
    {LongName(hs[i] + Block, BlockAt(hs[i]).size) :
        i \in {i \in Counting(hs, typ, TRUE) : \A j \in Counting(hs, typ, TRUE) : j <= i}}

Paths(units) == {u.value : u \in units}

EntryOf(hs) ==
    LET p == Last(hs)
        h == BlockAt(p)
        Entry(kind, path, link, size) ==
            [kind |-> kind, path |-> path,
             size |-> IF kind = "file" THEN size ELSE 0,
             data |-> IF kind = "file" THEN p + Block ELSE 0,
             link |-> IF kind = "link" THEN link ELSE <<"">>]
    IN  CHOOSE e \in {Entry(KindOf(h.typ, path), path, link, size) :
            path \in {First(<<Paths(Said(hs, "x", "path", TRUE)), Paths(Said(hs, "g", "path", FALSE)),
                              Named(hs, "L")>>, h.path)},
            link \in {First(<<Paths(Said(hs, "x", "linkpath", TRUE)),
                              Paths(Said(hs, "g", "linkpath", FALSE)), Named(hs, "K")>>, h.link)},
            size \in {First(<<{u.size : u \in Said(hs, "x", "size", TRUE)},
                              {u.size : u \in Said(hs, "g", "size", FALSE)}>>, h.size)}} : TRUE

\* An entry is taken behind the entries before it.
Takes(before, e, p) ==
    LET links == {Key[Canonical(before[i].path)] : i \in {i \in DOMAIN before : before[i].kind = "link"}}
    IN  /\ PathSafe(e.path) /\ ~Crosses(links, e.kind, e.path)
        /\ e.kind = "link" => LinkSafe(e.path, e.link)
        /\ p + Block + e.size <= archive.len

\* One block or header on: where the next one is, the headers so far and the
\* entries among them; done where reading cannot go on.
Stopped(w)    == [w EXCEPT !.done = TRUE]
Past(w, size) == [w EXCEPT !.next = @ + Block + Padded(size), !.heads = Append(@, w.next)]

Entered(w, e) ==
    IF Takes(w.entries, e, w.next) THEN [Past(w, e.size) EXCEPT !.entries = Append(@, e)]
    ELSE Stopped(w)

Onward(w) ==
    IF w.done \/ w.next + Block > archive.len THEN w
    ELSE LET h == BlockAt(w.next)
         IN  IF h.typ = "zero" THEN [w EXCEPT !.next = @ + Block]
             ELSE IF ~Sound(h) \/ h.typ \notin Extensions \cup EntryTypes THEN Stopped(w)
             ELSE IF h.typ \in Extensions
               THEN IF w.next + Block + h.size > archive.len THEN Stopped(w) ELSE Past(w, h.size)
             ELSE CHOOSE x \in {Entered(w, e) : e \in {EntryOf(Append(w.heads, w.next))}} : TRUE

\* The entries after n such steps; each is taken once the one before is known.
Meaning ==
    LET start == [next |-> 0, heads |-> <<>>, entries |-> <<>>, done |-> FALSE]
        walk[n \in Nat] ==
            IF n = 0 THEN start ELSE CHOOSE x \in {Onward(w) : w \in {walk[n - 1]}} : TRUE
    IN  walk[Len(archive.blocks)].entries

-----------------------------------------------------------------------------
(* Properties.                                                             *)

Errors == {"BAD_HEADER", "TRUNCATED", "UNSAFE", "UNSUPPORTED"}

\* No larger than the least buffer, or than the declared size or the guess.
Foreseen ==
    \/ archive.len <= MinCap
    \/ archive.len <= IF archive.hint > 0 THEN archive.hint + Block ELSE 8 * archive.packed

\* A packed archive that may be refused though it is sound.  zstd has one
\* buffer only, whatever tar.cyr 660 says of every codec.
TooLarge ==
    /\ archive.format # "plain"
    /\ archive.len > Ceiling \/ (archive.format = "zstd" /\ ~Foreseen)

\* Sound archives of at most the ceiling are opened, whatever size they
\* declare, and those of zstd if their size is foreseen; and the buffers on
\* the way to that, none of which is given back, take less than three times
\* the ceiling (tar.cyr 660-710).
OpensWhatFits ==
    /\ pc = "shut" => faults > 0 \/ archive.corrupt \/ TooLarge
    /\ spent < 3 * Ceiling

\* The entries that were returned are those of the archive, in order, each
\* with its own names, sizes and data and no other's, however often the
\* consumer called again after an error or the end.  An end is reported where
\* the entries end or behind two blocks of zeros, an error where nothing more
\* can be read; failed allocations change nothing in that, but that of a PAX
\* value does (tar.cyr 520-643).  And it was opened.
ReadsTheArchive ==
    /\ OpensWhatFits
    /\ lost \/ /\ IsPrefix(emitted, Meaning)
               /\ result \in Errors => emitted = Meaning
               /\ result = "end" =>
                     \/ pos + Block > archive.len /\ emitted = Meaning
                     \/ BlockAt(pos - Block).typ = "zero" /\ BlockAt(pos - 2 * Block).typ = "zero"

\* No entry goes through a link that an earlier one planted, and no file or
\* directory is written onto one, lost allocations and repeated calls or not,
\* and whatever paths share a hash (tar.cyr 220-356, 585-596).
NothingThroughALink ==
    \A i, j \in DOMAIN emitted :
        i < j /\ emitted[i].kind = "link" =>
            /\ Canonical(emitted[i].path) \notin Above(emitted[j].path)
            /\ emitted[j].kind # "link" =>
                  Canonical(emitted[j].path) # Canonical(emitted[i].path)
=============================================================================
