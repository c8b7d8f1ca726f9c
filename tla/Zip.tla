--------------------------------- MODULE Zip ---------------------------------
(***************************************************************************)
(* The zip writer of src/src/zip.cyr and zip_methods.cyr, over a DEFLATE   *)
(* encoder of which only this is said: it holds the library's mutex from   *)
(* deflate_enc_init until deflate_enc_finish, and puts out at any time some *)
(* of what the content packs to.  (DeflateEnc has the encoder itself.)     *)
(*                                                                         *)
(* A consumer opens what a finish returned and unpacks members in any      *)
(* order, while the writer may go on; or somebody tampered with the buffer.*)
(***************************************************************************)
EXTENDS ZipFormat

CONSTANTS
    Members,     \* what may be added: records [name, content, mode, mtime];
                 \* without content they may be streamed
    Caps,        \* sizes of the destination
    PackedSize,  \* [content -> how many bytes it packs to]
    OtherCodecs, \* the methods of zip_methods.cyr
    RecInit,     \* ZIP_REC_INIT
    MaxEntries,  \* ZIP_MAX_ENTRIES
    MaxTotal,    \* bound on the members that are begun
    Asks         \* what a consumer asks for: records [room, ratio, methods]

ASSUME ZipAssumption ==
    /\ \A c \in Caps : c \in Nat /\ c >= 22
    /\ \A s \in DOMAIN PackedSize : PackedSize[s] \in Nat \ {0}
    /\ {RecInit, MaxEntries, MaxTotal} \subseteq Nat \ {0}
    /\ \A m \in Members : /\ m.name \in Seq(DOMAIN Width) \ {<<>>} /\ m.mtime \in Int
                         /\ m.content \in DOMAIN PackedSize
    /\ <<>> \in DOMAIN PackedSize /\ DOMAIN PackedSize \subseteq Seq(DOMAIN Size)

VARIABLES
    cap,       \* the size of the destination
    dst,       \* what lies in it
    pos,       \* where the next member goes
    recs,      \* the records of the members
    reccap,    \* how many the record table has room for
    err,       \* sticky error, or "none"
    open,      \* a streamed member is open,
    inner,     \* with an encoder of its own,
    member,    \* and this is it
    held,      \* the writer's encoder holds the mutex
    result,    \* what the last call returned, if it did anything
    total,     \* what the last finish returned, 0 if dst changed since
    begun,     \* how many members were offered
    accepted,  \* those whose call returned 0, in order
    refused,   \* the one for which there was no room, if any
    tampered,  \* somebody wrote into a finished archive
    reader,    \* what zip_open made of it: [err, entries, len, given]
    disk       \* what the consumer unpacked: records [path, link]

stream   == <<open, inner, member>>
writer   == <<cap, dst, pos, recs, reccap, err, stream, held, total>>
history  == <<begun, accepted, refused>>
consumer == <<tampered, reader, disk>>
vars     == <<writer, result, history, consumer>>

NoMember == [name |-> <<>>, content |-> <<>>, mode |-> "none", mtime |-> 0,
             hdr |-> 0, body |-> 0, method |-> "STORE", out |-> 0]
NoReader == [err |-> "closed", entries |-> <<>>, len |-> 0, given |-> <<>>]

Init ==
    /\ cap \in Caps
    /\ dst = {} /\ pos = 0 /\ recs = <<>> /\ reccap = RecInit
    /\ err = "none" /\ held = FALSE
    /\ open = FALSE /\ inner = FALSE /\ member = NoMember
    /\ result = "ok" /\ total = 0
    /\ begun = 0 /\ accepted = <<>> /\ refused = <<>>
    /\ tampered = FALSE /\ reader = NoReader /\ disk = {}

-----------------------------------------------------------------------------
(* Helpers.                                                                *)

\* The calls are those of one caller, who also keeps its hands off an archive
\* somebody else has changed.
Calling == ~tampered
Adding  == Calling /\ begun < MaxTotal /\ begun' = begun + 1

\* Mutant: a member may be added while a streamed one is open.
RefusalUnlessStreaming(name) ==
    IF err # "none" THEN err
    ELSE IF ~PathSafe(name) THEN "UNSAFE_PATH"
    ELSE IF NameLen(name) > MaxName THEN "INVALID_INPUT"
    ELSE IF Len(recs) >= MaxEntries THEN "OUTPUT_LIMIT"
    ELSE "none"

\* Why no member of this name can be added now.
Refusal(name) ==
    IF err # "none" THEN err
    ELSE IF open THEN "INVALID_INPUT"
    ELSE IF ~PathSafe(name) THEN "UNSAFE_PATH"
    ELSE IF NameLen(name) > MaxName THEN "INVALID_INPUT"
    ELSE IF Len(recs) >= MaxEntries THEN "OUTPUT_LIMIT"
    ELSE "none"

\* An archive is no longer what it was if anything was written into it.
Touched == total' = IF dst' = dst THEN total ELSE 0

Return(e) == result' = e
Stick(e)  == err' = e /\ result' = e

\* What a bound has to know of a member.
Measure(m, method, content, streamed) ==
    [nlen |-> NameLen(m.name), ulen |-> Length(content),
     expands |-> streamed /\ method = "DEFLATE"]

OutOfRoom(m) == Stick("BUFFER_TOO_SMALL") /\ refused' = <<m>>

\* Mutant: the table grows one record too late.
GrowsLate == Len(recs) > reccap

TableFull == Len(recs) >= reccap

\* _zip_record: the table grows and the name is copied, or there is no memory
\* for one of these.
Record(r) ==
    \/ /\ recs' = Append(recs, r)
       /\ reccap' = IF TableFull THEN 2 * reccap ELSE reccap
       /\ Return("ok") /\ UNCHANGED err
    \/ /\ Stick("OOM")
       /\ reccap' \in {reccap, IF TableFull THEN 2 * reccap ELSE reccap}
       /\ UNCHANGED recs

RecordOf(m, method, content, csize, hdr) ==
    [name |-> m.name, method |-> method, crc |-> content, csize |-> csize,
     ulen |-> Length(content), hdr |-> hdr, mode |-> m.mode, mtime |-> m.mtime]

\* A member whose call returned 0.
Accept(m, content, size) ==
    IF err' = "none"
      THEN accepted' = Append(accepted,
               [name |-> m.name, content |-> content, mode |-> m.mode, mtime |-> m.mtime,
                nlen |-> size.nlen, ulen |-> size.ulen, expands |-> size.expands])
      ELSE UNCHANGED accepted

-----------------------------------------------------------------------------
(* zip_add_meta and zip_add_any_meta.                                      *)

LocalSize(name, ulen) == 30 + NameLen(name) + IF ulen > U32 THEN 20 ELSE 0

\* Mutant: a packed member is kept even if it grew.
KeptAnyway(packed, content, room) == packed <= room

\* Only what shrinks is kept packed, everything else is stored.
Shrinks(packed, content, room) == packed <= room /\ packed < Length(content)

\* Which codec a method of either call has tried.
Tried(method, content) == content # <<>> /\ method # "STORE"

Added(m, method) ==
    LET body   == pos + LocalSize(m.name, Length(m.content))
        room   == cap - body
        packed == IF Tried(method, m.content) THEN PackedSize[m.content] ELSE 0
        packs  == Tried(method, m.content) /\ Shrinks(packed, m.content, room)
        csize  == IF packs THEN packed ELSE Length(m.content)
        \* what the codec wrote before it was given up
        spoilt == Wipe(dst, body, IF packed <= room THEN body + packed ELSE cap)
        local  == LocalHeader(pos, body - pos)
        used   == IF packs THEN method ELSE "STORE"
        payload == IF packs THEN <<Packed(body, csize, method, m.content)>>
                            ELSE Plain(body, m.content)
        size   == Measure(m, method, m.content, FALSE)
    IN  IF body > cap
          THEN OutOfRoom(size) /\ UNCHANGED <<dst, pos, recs, reccap, accepted>>
        ELSE IF body + csize > cap
          THEN /\ OutOfRoom(size) /\ dst' = spoilt
               /\ UNCHANGED <<pos, recs, reccap, accepted>>
        ELSE /\ Record(RecordOf(m, used, m.content, csize, pos))
             /\ dst' = PutAll(spoilt, <<local>> \o payload)
             /\ pos' = IF err' = "none" THEN body + csize ELSE pos
             /\ Accept(m, m.content, size)
             /\ UNCHANGED refused

\* The method of zip_add, one that is not DEFLATE stores; so does a codec that
\* finds no memory.
Add(m, method) ==
    /\ Adding /\ Refusal(m.name) = "none"
    /\ \/ \E tried \in {method, "STORE"} : Added(m, tried)
       \/ /\ Return("OOM")        \* of the checksum's table
          /\ UNCHANGED <<dst, pos, recs, reccap, err, accepted, refused>>
    /\ Touched
    /\ UNCHANGED <<cap, stream, held, consumer>>

\* A refused call to add or to begin a member: nothing changes.
Refuse(m) ==
    /\ Calling /\ Refusal(m.name) # "none"
    /\ UNCHANGED vars

-----------------------------------------------------------------------------
(* Streamed members.                                                       *)

\* Mutant: the open member is only forgotten.
ForgetMember == open' = FALSE /\ inner' = FALSE /\ UNCHANGED <<member, held>>

\* _zip_abandon: the encoder's finish gives the mutex back.
AbandonMember ==
    /\ open' = FALSE /\ inner' = FALSE
    /\ held' = (held /\ ~(open /\ inner))
    /\ UNCHANGED member

Begin(m, method) ==
    /\ m.content = <<>>
    /\ Adding /\ Refusal(m.name) = "none"
    /\ LET body  == pos + 30 + NameLen(m.name)
           local == LocalHeader(pos, body - pos)
       IN  IF body > cap
             THEN /\ OutOfRoom(Measure(m, method, <<>>, TRUE))
                  /\ UNCHANGED <<dst, stream, held>>
             ELSE \/ /\ Stick("OOM")    \* of the name or the checksum
                     /\ UNCHANGED <<dst, stream, held, refused>>
                  \/ /\ method = "DEFLATE" /\ Stick("OOM")    \* of the encoder
                     /\ dst' = Put(dst, local)
                     /\ UNCHANGED <<stream, held, refused>>
                  \/ /\ dst' = Put(dst, local)
                     /\ open' = TRUE /\ inner' = (method = "DEFLATE") /\ held' = inner'
                     /\ member' = [name |-> m.name, content |-> <<>>, mode |-> m.mode,
                                   mtime |-> m.mtime, hdr |-> pos, body |-> body,
                                   method |-> method, out |-> 0]
                     /\ Return("ok") /\ UNCHANGED <<err, refused>>
    /\ Touched
    /\ UNCHANGED <<cap, pos, recs, reccap, accepted, consumer>>

\* The encoder puts out nothing, or all it can.
WritePacked(content) ==
    \E out \in {member.out, PackedSize[content]} :
        IF out > cap - member.body
          THEN /\ OutOfRoom(Measure(member, "DEFLATE", content, TRUE))
               /\ dst' = Wipe(dst, member.body, cap)
               /\ AbandonMember
          ELSE /\ dst' = Wipe(dst, member.body, member.body + out)
               /\ member' = [member EXCEPT !.content = content, !.out = out]
               /\ Return("ok") /\ UNCHANGED <<err, open, inner, held, refused>>

WritePlain(chunk, content) ==
    LET at == member.body + Length(member.content)
    IN  /\ member' = [member EXCEPT !.content = content]
        /\ IF at + Size[chunk] > cap
             THEN OutOfRoom(Measure(member, "STORE", content, TRUE)) /\ UNCHANGED dst
             ELSE dst' = PutAll(dst, Plain(at, <<chunk>>)) /\ Return("ok") /\ UNCHANGED <<err, refused>>
        /\ UNCHANGED <<open, inner, held>>

EncWrite(chunk) ==
    /\ Calling /\ open /\ err = "none"
    /\ LET content == Append(member.content, chunk)
       IN  /\ content \in DOMAIN PackedSize
           /\ IF member.method = "DEFLATE" THEN WritePacked(content)
                                           ELSE WritePlain(chunk, content)
    /\ UNCHANGED <<cap, pos, recs, reccap, total, begun, accepted, consumer>>

\* The end of a member, given the length of its payload.  The encoder is gone
\* by now; an error leaves the member open.
EndMember(csize) ==
    LET at     == member.body + csize
        packed == IF member.method = "DEFLATE"
                    THEN <<Packed(member.body, csize, "DEFLATE", member.content)>> ELSE <<>>
        size   == Measure(member, member.method, member.content, TRUE)
    IN  IF at + 16 > cap
          THEN /\ OutOfRoom(size)
               /\ dst' = PutAll(dst, packed)
               /\ UNCHANGED <<open, pos, recs, reccap, accepted>>
          ELSE /\ dst' = PutAll(dst, packed \o <<Descriptor(at)>>)
               /\ Record(RecordOf(member, member.method, member.content, csize, member.hdr))
               /\ pos' = IF err' = "none" THEN at + 16 ELSE pos
               /\ open' = (err' # "none")
               /\ Accept(member, member.content, size)
               /\ UNCHANGED refused

EncEnd ==
    /\ Calling /\ open /\ err = "none"
    /\ inner' = FALSE /\ held' = FALSE
    /\ LET csize == IF member.method = "STORE" THEN Length(member.content)
                    ELSE PackedSize[member.content]
       IN  IF member.method = "DEFLATE" /\ csize > cap - member.body
             THEN /\ OutOfRoom(Measure(member, "DEFLATE", member.content, TRUE))
                  /\ dst' = Wipe(dst, member.body, cap)
                  /\ UNCHANGED <<open, pos, recs, reccap, accepted>>
             ELSE EndMember(csize)
    /\ UNCHANGED <<cap, member, total, begun, consumer>>

\* With an error, or with nothing to write to or to end.
EncEndFailed ==
    /\ Calling /\ err # "none"
    /\ AbandonMember
    /\ UNCHANGED <<cap, dst, pos, recs, reccap, err, total, result, history, consumer>>

EncNothingOpen ==
    /\ Calling /\ (err # "none" \/ ~open)
    /\ UNCHANGED vars

-----------------------------------------------------------------------------
(* zip_writer_finish: of a directory without room for all of it the first   *)
(* records are written.  It can be called again, and more members be added  *)
(* where the directory was.                                                 *)

\* Mutant: a finish leaves the open member be.
KeepOpen == UNCHANGED <<stream, held>>

DropOpen == AbandonMember

FirstThatFit(dir) ==
    SubSeq(dir, 1, Max({n \in 0 .. Len(dir) : \A k \in 1 .. n : End(dir[k]) <= cap}))

Finish ==
    /\ Calling /\ err = "none"
    /\ IF open
         THEN DropOpen /\ Return("INVALID_INPUT") /\ UNCHANGED <<dst, total>>
         ELSE LET dir   == Directory(pos, recs)
                  after == Trailer(DirectoryEnd(pos, recs), Len(recs), pos)
                  last  == End(after[Len(after)])
              IN  /\ IF last <= cap
                       THEN Return("ok") /\ total' = last /\ dst' = PutAll(dst, dir \o after)
                       ELSE Return("BUFFER_TOO_SMALL") /\ total' = 0 /\ dst' = PutAll(dst, FirstThatFit(dir))
                  /\ UNCHANGED <<stream, held>>
    /\ UNCHANGED <<cap, pos, recs, reccap, err, history, consumer>>

FinishFailed ==
    /\ Calling /\ err # "none"
    /\ UNCHANGED vars

-----------------------------------------------------------------------------
(* The consumer.                                                           *)

\* Somebody else's archive: one with another value in one place.
Altered(p) ==
    CASE p.kind = "central" ->
            {[p EXCEPT !.encrypted = TRUE], [p EXCEPT !.unix = FALSE],
             [p EXCEPT !.fields[1] = @ + 1], [p EXCEPT !.fields[2] = @ + 1],
             [p EXCEPT !.fields[3] = U32], [p EXCEPT !.extra = <<>>],
             [p EXCEPT !.extra = [k \in DOMAIN @ |-> -1]]}
            \cup {[p EXCEPT !.name = m.name, !.mode = "link", !.unix = TRUE] :
                     m \in {m \in Members : NameLen(m.name) = NameLen(p.name)}}
      [] p.kind \in {"eocd", "eocd64"} ->
            {[p EXCEPT !.disk = 1], [p EXCEPT !.doff = -1], [p EXCEPT !.count = @ + 1],
             [p EXCEPT !.dsize = @ - 1]}
      [] p.kind = "locator" -> {[p EXCEPT !.target = @ + 1]}
      [] p.kind = "local" -> {[p EXCEPT !.size = @ + 1]}
      [] p.kind = "packed" -> {[p EXCEPT !.content = <<>>]}
      [] OTHER -> {}

Tamper ==
    /\ total > 0 /\ ~tampered /\ reader = NoReader
    /\ \E p \in dst : \E q \in Altered(p) : dst' = (dst \ {p}) \cup {q}
    /\ tampered' = TRUE
    /\ UNCHANGED <<cap, pos, recs, reccap, err, stream, held, total, result, history, reader, disk>>

OpenArchive ==
    /\ total > 0 /\ total # reader.len
    /\ \E index \in {Open(dst, total), Failed("OOM")} :
          reader' = [err |-> index.err, entries |-> index.entries, len |-> total, given |-> accepted]
    /\ disk' = {}
    /\ UNCHANGED <<writer, result, history, tampered>>

\* The consumer writes the member where its name says; what that is to a file
\* system that has no links.  A name such as "." says the root, which is there
\* and makes room for nothing.  Every decoder waits for the mutex.
FilePath(n) == SelectSeq(n, LAMBDA c : c \notin {"", "."})

Unpack(i, ask) ==
    LET e == reader.entries[i]
    IN  /\ held => e.method = "STORE"
        /\ Extract(dst, reader.len, reader.entries, i, ask.room, ask.ratio, ask.methods).err = "none"
        /\ disk' = disk \cup {[path |-> n, link |-> e.mode = "link"] :
                                  n \in {FilePath(e.name)} \ {<<>>}}
        /\ UNCHANGED <<writer, result, history, tampered, reader>>

-----------------------------------------------------------------------------
Next ==
    \/ \E m \in Members, method \in {"STORE", "DEFLATE"} \cup OtherCodecs : Add(m, method)
    \/ \E m \in Members : Refuse(m)
    \/ \E m \in Members, method \in {"STORE", "DEFLATE"} : Begin(m, method)
    \/ \E chunk \in DOMAIN Size : EncWrite(chunk)
    \/ EncEnd \/ EncEndFailed \/ EncNothingOpen
    \/ Finish \/ FinishFailed
    \/ Tamper \/ OpenArchive
    \/ \E i \in DOMAIN reader.entries, ask \in Asks : Unpack(i, ask)

Spec == Init /\ [][Next]_vars

-----------------------------------------------------------------------------
(* Properties.                                                             *)

\* zip.cyr:1101-1106: the mutex an open DEFLATE member holds is given back on
\* every path that leaves the member: by the end of the call that meets a sticky
\* error and by a finish that is refused, since nothing else would give it back.
MutexGivenBack ==
    /\ held <=> open /\ inner
    /\ err # "none" \/ result = "INVALID_INPUT" => ~held

\* A value that is itself the sentinel: the writer takes it for one that fits
\* (zip.cyr:1275-1277), the reader for one that moved (zip.cyr:520-522).
AtSentinel ==
    \E k \in DOMAIN recs : U32 \in {recs[k].ulen, recs[k].csize, recs[k].hdr}

\* A stamp has a resolution of two seconds, and midnight of 1980 is "unset";
\* stamps end with 2107, this many days after 1970 began.
KeptTime(t) == IF t < 315532802 THEN 0 ELSE t - (t % 2)
Day(t)      == t \div 86400
StampDays   == 50403

\* What the writer took and closed, the reader finds: every member whose call
\* returned 0, whatever calls failed or were refused in between, in order, with
\* its metadata; and it still does when the writer went on to add to the same
\* buffer.  Room for the content is enough to unpack it, but for members that
\* lie behind a link and, whatever CHANGELOG.md:1957-1959 promises, those that
\* DEFLATE, bzip2 or xz packed and that are larger than what these put out
\* when nobody asks for more (deflate.cyr 374, 408).
ReadsBack ==
    reader.err \notin {"closed", "OOM"} /\ ~tampered /\ ~AtSentinel =>
        /\ reader.err = "none" /\ Len(reader.entries) = Len(reader.given)
        /\ \A i \in DOMAIN reader.given :
              LET g == reader.given[i]
                  e == reader.entries[i]
                  x == Extract(dst, reader.len, reader.entries, i, Length(g.content), 0,
                               LeanMethods \cup OtherCodecs)
              IN  /\ e.name = g.name /\ e.mode = g.mode
                  /\ e.mtime = KeptTime(g.mtime) \/ Day(g.mtime) >= StampDays
                  /\ \/ x.err = "none" /\ x.content = g.content
                     \/ /\ x.err = "UNSAFE_PATH"
                        /\ \E k \in DOMAIN reader.given : reader.given[k].mode = "link"
                     \/ /\ x.err = "OUTPUT_LIMIT"
                        /\ Length(g.content) > MaxOutput /\ e.method \notin Unlimited

\* Nothing is written behind the end of the buffer or of the record table, which
\* grows before it is written to; and (zip.cyr:944-946) in a buffer of zip_bound
\* bytes no write fails for space.  The last is true of all members but streamed
\* DEFLATE ones, which may grow.
RoomSuffices ==
    /\ pos <= cap /\ \A p \in dst : tampered \/ End(p) <= cap
    /\ open => member.hdr = pos /\ member.body <= cap
    /\ Len(recs) <= reccap /\ Len(recs) <= MaxEntries
    /\ LET all == accepted \o refused
       IN  result = "BUFFER_TOO_SMALL" /\ (\A k \in DOMAIN all : ~all[k].expands)
               => cap < Bound(all)

\* The paths a path goes through.
Above(path) == {SubSeq(path, 1, n) : n \in 1 .. Len(path) - 1}

\* zip.cyr:224-231: whatever members a consumer unpacks, of any archive and in
\* any order, none is written through or onto a link another one put there.
NothingThroughALink ==
    \A f \in disk, l \in disk :
        l.link => l.path \notin Above(f.path) /\ (l.path = f.path => f.link)

\* zip.cyr:48-50, CHANGELOG.md:1957-1959: an all-ones field means that the value
\* has moved, so that members and offsets of any size are handled on both sides.
FinishedOpens == total > 0 /\ ~tampered => Open(dst, total).err = "none"
=============================================================================
