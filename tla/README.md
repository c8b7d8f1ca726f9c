# sankoch in TLA+

Specifications of sankoch, the compression library of this repository (`src/`,
written in Cyrius), their model-checking configurations and machine-checked
proofs. Paths like `deflate.cyr:2740` are below `src/src/`; `README.md:203` and
`docs/...` are the repository's own documents.

How to run one of them, in this directory:

    tlc -workers 2 -config DeflateEnc.cfg MCDeflateEnc
    tlapm RuntimeProofs.tla

`PROJECT.json` lists the runs, what each property is broken by (the mutants),
which lines each definition models, the hazards, and the theorems.

## 1. The system

### Parts, state, operations

| Part | Code | State it keeps | Operations |
|---|---|---|---|
| Shared runtime | `runtime.cyr`, `lib.cyr`, table builders in `checksum.cyr`, `lz77.cyr`, `huffman.cyr` | one mutex; the canary and its `lost` flag; a pointer per lazily built table | lock (with the arena guard), unlock, allocate, build a table, reset all table pointers |
| DEFLATE decoder | `deflate.cyr:1-1445`, `bitreader.cyr`, `huffman.cyr` | batch: position and output. Streaming: bit accumulator, state, block and match in hand, half-read tables, output, ceilings, sticky error | `deflate_decompress_*`; `deflate_dec_init`, `_write`, `_reset`, `_finish` |
| DEFLATE encoder | `deflate.cyr:1446-`, `lz77.cyr`, `bitwriter.cyr` | sliding window, hash heads and chains in absolute positions, buffered symbols, bit writer, sticky error | `deflate_compress_*`; `deflate_enc_init`, `_write`, `_flush`, `_reset_context`, `_finish` |
| gzip, zlib decoders | `gzip.cyr`, `zlib.cyr` | header state, trailer, running checksum, the inner decoder | batch; `*_dec_init`, `_write`, `_finish` |
| gzip, zlib encoders | `gzip.cyr`, `zlib.cyr` | running checksum, the inner encoder | batch; `*_enc_init`, `_write`, `_flush`, `_finish` |
| LZ4 block and frame | `lz4.cyr`, `lz4_decode.cyr`, `xxhash32.cyr` | frame decoder: state, block in hand, content hash; frame encoder: staging block, reserve of output space | batch; `lz4f_enc_*`, `lz4f_dec_*` |
| Streaming dispatch | `stream.cyr`, `types.cyr` | which context, a growing buffer | `compress_init*`, `_write`, `_finish`, the same to decompress |
| zip | `zip.cyr`, `zip_methods.cyr` | writer: records, position, open member and its encoder; reader: central directory | open, find, extract, add, streamed member, finish |
| tar | `tar.cyr` | cursor, pending PAX and GNU names, ledger of symlinks | open, open a packed archive, next, accessors; safety checks of paths and links |
| Brotli decoder | `brotli.cyr`, `brotli_dict.cyr` | a slab with all tables, kept between calls; per call the bit reader, the ring of distances, and per meta-block types, counts and context maps | `brotli_decompress`, `brotli_decompress_capped` |
| Brotli oracle and corpus | `scripts/brotli_ref_decoder.py`, `scripts/brotli-craft.py`, `scripts/brotli-manifest.py`, `docs/sources/brotli/extract_tables.py` | none | decode bits with an error class, write streams and what they play, judge them |
| xz / LZMA2, bzip2, Zstandard, Brotli encoder | `xz.cyr`, `bzip2.cyr`, `zstd.cyr`, `brotli_enc.cyr` | per call: models, tables, offset rings; LZMA2 and Zstandard carry some from chunk to chunk | batch compress and decompress |
| Checksums | `checksum.cyr`, `xxhash32.cyr` | tables only | update functions |
| Profiles | `reset_*.cyr` | none | a list of tables each |

### How they interact

- **Calls.** gzip, zlib and zip call the DEFLATE contexts; tar and zip call the
  format decoders; the dispatch calls all of them. Everything else is pure
  computation on the caller's buffers.
- **Shared state.** The mutex, the canary and the table pointers are the only
  state shared between calls. A batch call holds the mutex for its length; a
  streaming context takes it at `*_init` and keeps it until `*_finish`, over
  any number of calls. The checksum table builders are public and take no lock.
- **The program.** Owns the buffers, the schedule, and the arena all tables are
  allocated from: it may call `alloc_reset()` between calls, and the library
  learns of it only by its canary.

### What is hard about it

1. *Threads*: the lock is not recursive, is kept across calls, and a dozen
   failure paths must release it exactly once; three builders run without it.
2. *Stale memory*: after `alloc_reset` every memoized pointer is wrong, and the
   canary that says so may itself fail to be allocated, or survive the reset.
3. *Suspension*: the streaming decoders stop at any bit and must come to the
   same end as the batch ones, with the same error, wherever the chunks are cut,
   and must give back bytes they read too far.
4. *Sliding*: the encoder moves its window while its hash table keeps positions.
5. *Full buffers*: every write may be refused; what was half done must not be
   lost silently, nor written twice.
6. *Protocol*: flush, reset, finish and error in any order.
7. *Lookups without tests*: the Brotli decoder indexes tables, maps and trees by
   what it read earlier in the header, tests the room for its output once for
   millions of bytes, and loops over reads that may cost no bits.

What would make each part correct is listed with the hazards in `PROJECT.json`
and, for the parts modelled so far, in section 3.

## 2. Plan

Written, in this order (the most shared part first, then the code with the most
state behind one call):

| Module | What it is | Builds on |
|---|---|---|
| `Lemmas` | facts about sums, stretches of sequences, and recursion over data, for the proofs | |
| `Runtime`, `RuntimeProofs` | threads, lock, guard, tables; its theorems | |
| `Bits`, `Huffman`, `Inflate` | the batch DEFLATE decoder, as functions | |
| `StreamDecoder` | abstract: what a streaming DEFLATE decoder promises | |
| `DeflateDec` | the streaming decoder, shown to implement `StreamDecoder` and to agree with `Inflate` | `Inflate` |
| `Envelope`, `EnvelopeDec`, `EnvelopeDecProofs` | batch and streaming gzip and zlib decoders; theorems | `StreamDecoder`, `Lemmas` |
| `Lz77`, `BlockStream` | match finder; the items an encoder writes, the bit writer, and a reader of them | |
| `DeflateEnc`, `DeflateBatch` | streaming encoder as a state machine, batch encoder as a function | `Lz77`, `BlockStream` |
| `DeflateEncProofs` | what the match finder and a reader of items do; the theorems about both encoders | `DeflateBatch`, `Lemmas` |
| `HuffmanEnc`, `DynamicBlock` | code lengths from frequencies, as functions; a block of the dynamic path, bit by bit | `Inflate` |
| `Lz4Block`, `Lz4Frame` | LZ4 blocks, and the batch frame functions, as functions | |
| `Lz4BlockProofs` | the round trip of a block, and how a block ends | `Lz4Block`, `Lemmas` |
| `Lz4fEnc`, `Lz4fDec` | the streaming frame encoder and decoder | `Lz4Frame` |
| `Lz4f`, `Lz4fProofs` | both, one behind the other; its theorems | `Lz4fEnc`, `Lz4fDec`, `Lz4BlockProofs` |
| `ZipFormat` | MS-DOS stamps, what an archive is made of, and its reader, as functions | |
| `Zip`, `ZipProofs` | the writer, somebody who alters the archive, and a consumer; its theorems | `ZipFormat`, `Lemmas` |
| `BrotliTables`, `BrotliCodes`, `BrotliOracle` | the reference decoder, as functions, with its wrong readings of the RFC | `Bits` |
| `BrotliCraft`, `BrotliCorpus` | the writer of the corpus, its streams and their verdicts | `BrotliOracle` |
| `Brotli` | the decoder, read by read | `BrotliTables` |
| `Tar`, `TarProofs` | the tar cursor, a consumer that calls on, and the opening of packed archives; its theorems | `Lemmas` |

Next, in this order:

1. **gzip and zlib encoders** (`EnvelopeEnc`), over the promise of a DEFLATE
   encoder, composed with `EnvelopeDec` for a round trip with flushes.
2. **Streaming dispatch** (`Dispatch`): the mode that collects its input in a
   growing buffer, over the batch decoders.
3. **xz** (`Lzma2`): what a control byte resets, chunk by chunk, and the index.
   **Zstandard** (`ZstdFrames`): repeated offsets per frame, and the encoder's
   commit or fall back of a block. **bzip2** (`Bzip2`): its transforms as functions
   against their definitions.
4. **Proofs**: `Brotli` (`WithinBounds`, for any bits).

Each of 1 to 3 is one run with its mutants.

## 3. What is modelled, and what the runs show

### Runtime

State: the mutex's owner, the canary (where it points, whether its cell still
holds the magic number, whether its last allocation failed), where the arena's
bump pointer is, where each table pointer points, and of each thread its step,
the table its call needs and its context. A pointer is one of *null*, *into the
first chunk* (which `alloc_reset` rewinds and zeroes), *into a later chunk*
(never zeroed, never handed out twice) and *stale*. One action per step another
thread could come between: the guard's test, its two writes and the stamp; each
allocation; reading a table pointer, publishing it, filling it. A context
opened through `stream.cyr` has its wrapper allocated first, without the lock
(`Wrap`); the mutant `OpenContextLeaks` is the older order, which returned 0 with
the lock held.

  A codec's tables come in sets: a pointer that is tested, and those allocated
  behind its test (`Behind`, `_lz77_head` and `_lz77_prev` in the runs). If one of
  these fails, the tested pointer is set back to null (`Unlatched`); a completion
  flag, as in `huffman.cyr`, `bzip2.cyr` and `xz.cyr`, is a tested pointer that is
  set last, with the same effect. Neither resets nor failed allocations are
  bounded: no state counts them.
- `Runtime.cfg`: two threads, one set of two codec tables and two checksum tables,
  one published last and one filled in place. Two threads are enough to have one
  inside and one at the door. Checked: the mutex is held exactly by the thread
  inside (`HeldWhileInside`), a stale table always makes the next guard fire
  (`ResetIsSeen`), nothing is read through a stale, missing or half-written
  table (`UsesLiveTables`, `UsesFinishedTables`), the guard drops tables only
  while nobody else relies on them (`DropExclusive`), and whoever holds the lock
  lets go of it (`HolderReleases`).
- Both checksum builders are called without the lock in this run, and the second
  is not safe: `crc64_init_table` and `crc32_bzip2_init_table` publish the
  allocation before they fill it, a failed one included (`checksum.cyr:490`, `561`),
  although `docs/architecture/002-lazy-globals-and-alloc-reset.md:97-99` says of the
  builders that they "publish a finished table last". When two of them have both
  found the pointer null, one of them outside the lock, the later one puts an
  empty table, or null, under the earlier one, which may be in the middle of a
  checksum. `twice` records the tables this happened to, and is what
  `UsesLiveTables` and `UsesFinishedTables` except; they say that nothing else goes
  wrong, and that only a table filled in place, with a caller outside the lock, can
  get there. A program that leaves these two to the library's own locked calls is
  safe.
- `RuntimeCold.cfg` shows how an unlocked guard breaks `DropExclusive` (finding): as
  one of two first calls at start-up, it reads the canary between its allocation
  and its stamp, and takes it for a reset. No `alloc_reset` and no failure
  (`CanFail` is FALSE) is in the trace. This is why `Runtime.cfg` lets a builder be
  called without the lock only once a locked call has armed the canary
  (`ColdDirect = FALSE`).
- The other restriction, `Residual`, is one `runtime.cyr` names itself: the
  allocation of the canary fails and a later one of the same call succeeds.

*Fairness*: weak for the steps of a thread inside a call (the scheduler runs
it), strong for `Finish` of an open context, whose thread may make other calls
in between: `README.md:200` asks the caller to finish one context. Nothing is
assumed of threads that want to enter.

### The DEFLATE decoder

`Inflate` is `_deflate_decompress_inner` as functions over the bits of the
input. `Huffman` is the canonical code; the two-level lookup tables are modelled
by the code they decode, the limit of `MaxBits` bits a lookup peeks at is kept,
because it decides how far the decoder reads ahead and where it starves.
`DeflateDec` has one action per `DDEC_STATE_*` case of `deflate_dec_write`'s
loop, in which pulling bytes into the accumulator is part of the turn that needs
them, as in the code. `cp`, `base` and `end` are positions in the caller's
stream, cut into chunks by `Write(n)`.

- `DeflateDec.cfg`: streams of every block type, the same with each single bit
  of their first bytes wrong, three ceilings, dictionaries, two members; in
  chunks of 1, 2 or the rest, in every mixture. `deflate_dec_reset` works in every
  state but CLOSED and clears an error; the envelopes call it at DONE only, other
  callers may at any time, which the run tries where 3 or 5 bytes have been read
  (`Breaks`). A chunk of one byte suspends in
  front of every field, a chunk of two leaves a byte in the accumulator.
  `AgreesWithBatch` relates every state to the batch decoder's answer for the
  whole stream, for any ceiling and chunk; a rewind out of the chunk, a stall or a
  code taken too early would each end in another answer. `KeepsPromise` is the refinement of `StreamDecoder`: a call happens at once,
  its working is hidden (`taken`, `out` are those of the call's beginning until
  it returns).
  `CallReturns`, that every call comes back, is under weak fairness of the
  running call, and of nothing else.
- The batch decoder stages the dictionary in the output buffer and the streaming
  one does not, so that with the same buffer it refuses more (`deflate.cyr:461`).
  They are compared with that much more room for the batch decoder (`Roomy`),
  here and for zlib, with buffers that do not even hold the dictionary included.
- Seen in this run: after `deflate_dec_reset` a member can copy from the one
  before it, against the comment at `deflate.cyr:978`. This is why
  `AgreesWithBatch` exempts members that the batch decoder refuses for reaching
  before their start, and why `StreamDecoder` has the action `Crossed`.

### The gzip and zlib decoders

`Envelope` has the batch decoders `Gunzip` and `Unzlib`, `EnvelopeDec` the
streaming ones, over the variables of `StreamDecoder` instead of a whole
decoder: each turn in state DEFLATE is one `Call`. Checksums are uninterpreted
operators; in the run they are sums that see order and length.

- `EnvelopeDec.cfg`: every optional header part, two members, trailing bytes,
  dictionary, single bits wrong, cut short, four ceilings. `AgreesWithBatch` says
  what finish returns against what the batch decoder returns. `Stricter` names
  the two streams on which they differ: bytes behind the last member that begin
  with 0x1f and are no member (the batch decoder ignores them, the streaming one
  has committed itself to a header), and ceilings, which count the members
  together in streaming and each for itself in batch. Short input is
  INVALID_INPUT in batch and CORRUPT_DATA in streaming: the property asks only
  that both refuse.
- `GzipFinishedIsFinal` is about gzip contexts: a zlib context finished in its
  header goes on taking bytes without the lock, because finish closes only the
  inner decoder, against `README.md:203`.

### The DEFLATE encoder

`Lz77` is the match finder with its chains; `BlockStream` what is written, item
by item, each costing `Cost` bits, and `Read`, which decodes items back.
`DeflateEnc` has the loop of `deflate_enc_write` (make room, slide, copy, turn
window bytes into symbols), both paths (fixed: each symbol goes out; dynamic:
symbols are collected into blocks), flush, reset, finish, and a buffer that may
be full at any item. `DeflateBatch` is `_deflate_compress_level_inner` with its
three chunk encoders.

- `DeflateEnc.cfg`: a window of 3 (so that a text of 11 slides three times and
  chain slots are reused), matches of 2 or 3 bytes, a symbol buffer of 7, two
  letters; writes of 1, 4 or the rest, one flush and one reset anywhere, output
  buffers from nothing to enough. `Faithful`: what has been written decodes, in a
  decoder with a window of 3, to what was given; `NothingLost`: at every step,
  that, the collected symbols, the rest of the window and the rest of the
  write add up to it. `CallEnds` is a measure that
  each step of a call lowers, which is termination without fairness.
  `BatchIsFaithful` is about the batch encoder, on each of its paths. All of
  these properties are also proved.
- `DeflateEncFinish.cfg` (finding): the last partial byte may not fit and finish
  says success. `FinishDelivers` is therefore about streams whose last byte was
  stored (`Stored`).
- `HuffmanEnc` is `huff_compute_lengths` with its two queues, the cap and the
  redistribution, and the canonical codes; `DynamicBlock` counts the symbols of a
  block, writes its header with the run lengths and the third code, prices it
  and writes the cheaper coding. Matches come from a list (what finds them is in
  `Lz77`) and a block may end anywhere; the output is unbounded (a full one is in
  `DeflateEnc`), and so is the scratch buffer the header is priced in.
- `DynamicBlock.cfg`: fifteen inputs, cut in two anywhere. The caps of 15 and 7
  bits are scaled down to 3, with up to seven symbols, so that codes are up to
  three bits too deep; alphabets and field widths are the real ones. Inputs are
  just long enough for the two codings to change places, ties included.
  `WholeCode` compares each code with every shape a binary tree of its size can
  have (`Shapes`): when a cheapest one stays within the cap, the code is as
  cheap, which rests on leaves coming before subtrees of equal weight. When the
  cap stands in the way, only completeness and order are claimed. `ReadsBack`
  hands the bits to `Inflate`.
- Seen and not a property, since it costs only ratio or nothing: the
  redistribution takes the longest code below the cap to lengthen, where its
  comment says the shortest (`huffman.cyr:755`); the lazy batch path
  inserts a position twice, so `prev[p] = p` and the chain ends there, although
  `lz77.cyr:36` says chains are acyclic. `Usable` stops at it.

### LZ4

`Lz4Block` has the compressor's search with its table of single positions
(`SequencesOf`), what it writes (`Emit`), and the decoder of any bytes
(`DecBlock`). `Lz4Frame` has the parts of a frame and the batch functions
`Frame` and `Unframe`. `Lz4fEnc` is the streaming encoder, one action per turn
of the copying loop, so that a write is refused in its middle where the code
refuses it. `Lz4fDec` has one action per `LDEC_STATE_*` case and one, `Suspend`,
for the turn that runs out of input in any of them; `field` is the code's
`idx` and `acc`, `In` the loop's test that the field is complete.

- `Lz4f.cfg`: constants scaled down (blocks of 8 and 32 bytes, matches of 2 at
  most 5 back, length nibbles of 3 continued in steps of 2, so that both kinds
  of extended length occur in blocks of 8), five texts up to twenty bytes, and
  every output size from 19, the least the code takes, to 44, beyond the
  longest frame. Then the frame, or one of about eighty from elsewhere, cut
  into chunks of 1, 5 or the rest and finished anywhere. `SameAsBatch` and
  `SaysWhatBatchSays` relate each half to its batch function, `RoundTrip` the
  two halves; `EndsInLiterals` is a rule of the block format that no decoder
  here tests. All of them are also proved.
- What only one of the decoders refuses is named in `Lz4fDec`. `OnlyHere`: raw
  blocks beyond 16 MB in all, and no memory for a larger block buffer.
  `Otherwise`: both refuse, with different errors. That the ceiling of 16 MB
  (`SECURITY.md:13`) holds neither for compressed blocks of a frame nor in the
  batch decoder is known to `docs/development/roadmap.md:119`.
- Seen and not a property, since it costs only ratio or nothing: behind a match
  the position just entered in the table is looked up at once and finds itself,
  so that no match follows a match directly; a block needs room for its
  compressed form even if it is then stored raw; the test for room in
  `lz4f_enc_finish` cannot fail (`ReserveKept`).

### zip

`ZipFormat` has what an archive is made of and the reader of `zip.cyr` and
`zip_methods.cyr` as functions: `Open` finds the trailer from behind, follows a
Zip64 locator, and walks the directory with its checks; `Extract` is
`zip_extract` with its ledger of symlinks. A buffer is the set of the pieces
that lie in it, headers and payloads, each with its offset and its length in
bytes; writing over a part of a piece makes an end of it. Offsets and room are
therefore the code's, while names are sequences of path components and a
checksum is the content it is of. Stamps are converted with their calendar
arithmetic. `Zip` has one action per call of the writer (`Add` for
`zip_add_meta` and `zip_add_any_meta`, `Begin`, `EncWrite`, `EncEnd`, `Finish`
and the forms in which they are refused), with the record table that doubles,
any allocation that fails, and the mutex an open DEFLATE member holds. The
DEFLATE encoder is abstract: it puts out nothing or all it can, `PackedSize`
bytes in the end. Beside the writer are somebody who alters one field of the
finished archive, and a consumer who opens it and unpacks members in any order,
even while the writer adds more behind them.

- `Zip.cfg`: members with and without content, directories, links, a file below
  a link, one named like the link through `.` and a link named `.` (the root: it
  is there, so unpacking puts nothing in its place), six unsafe names, stamps on
  both sides of leap days and of 1980. Two records in a table that begins with
  one, so that it grows. Buffers too small for most members, 50 bytes
  below and exactly at `zip_bound` of two members of 90,000 bytes that do not
  shrink. The sentinel of 32-bit fields is scaled down to 73, which is the
  offset of a second member behind a stored `l/f`, and that of counts to 1, so
  that Zip64 forms occur in archives of two members. The ceiling of 16 MiB on a
  codec's output (`MaxOutput`) is scaled down to 40, below the content of one of
  the members. 1,259,530 states. `ReadsBack` relates the
  writer to the reader, `RoomSuffices` the writer to `zip_bound` (it exempts
  streamed DEFLATE members, which have no fallback to stored and may grow),
  `NothingThroughALink` the ledger to a file system, for altered archives too,
  and `MutexGivenBack` the calls that fail to the mutex.
- `ReadsBack` has a third answer for a member that was accepted: OUTPUT_LIMIT, if
  it is larger than `MaxOutput` and neither stored nor zstd. `zip_extract_capped`
  gives the decoders no limit of its own (`zip.cyr:795`), and they then stop at
  `DECOMPRESS_MAX_OUTPUT` (`deflate.cyr:374`, 408; bzip2 and xz likewise), while
  the writer takes members of any size and `CHANGELOG.md:1957-1959` speaks of
  members beyond 32 bits. Without the third answer the run fails. A ratio asked
  for by the caller is met twice, as a declared size in `_zip_prepare` and as
  output in the codec (`Overrun`).
- `ZipSentinel.cfg` (finding): a size or offset of exactly `0xffffffff` is
  written as itself, and the reader takes it for a value that has moved.

### tar

`Tar` is the cursor of `tar.cyr`. An archive is a sequence of blocks, a block is
a header, zeros, or units of content (a component of a long name, a PAX record);
sizes and positions are in units, with padding to whole blocks. `tar_next` is
one action per block: `Extended` parses a PAX header into `px` or `pg`,
`LongNamed` keeps a GNU name, `EmitPlain` and `EmitLink` return an entry,
`RefusePath` and `RefuseEntry` are the checks in front of that. An error leaves
the position where the call began and what is pending pending, so that the next
call reads the same headers again; the consumer is free to make it. Any
allocation may fail (`NoPath`, `NoLedger`, `NoLink`, the value of a PAX record).
Opening is the ladder of buffers of `tar_open_auto` over a codec that fills a
buffer that is large enough, and says so if it is not, unless it is zstd. The ledger is the set of the keys in it with the
slots it has; a key is what `Key`, any function, makes of a canonical path.

- `Tar.cfg`: names of every kind before one or two entries, with records that
  are malformed, repeated, for all entries or of another key; files whose size
  is overridden, so that the next header is somewhere else; zeros single and
  double, headers with wrong checksums or sizes; the same cut anywhere in their
  last blocks; two links planted before a file, a directory or another link,
  with dots and slashes in their paths, and one path that has the hash of
  another; a packed archive around a ceiling of eleven units, with declared
  sizes that are true, too small or far too large. A ledger of two slots grows
  at the second link. `ReadsTheArchive` compares what was returned, at every
  state, with `Meaning`, which looks back from an entry to the headers before it
  and keeps nothing pending; it also says where an end and an error may be
  reported, and (`OpensWhatFits`) that a sound archive within the ceiling is
  opened at the price of three ceilings, but for a zstd archive that is larger
  than its first buffer (`TooLarge`). `NothingThroughALink` is about the
  entries alone, not the ledger.
- The exception for zstd is a defect of the code. `tar_open_auto` grows its buffer
  on ERR_BUFFER_TOO_SMALL (`tar.cyr:701`), "every codec here" (660); for a buffer
  that is too small `zstd_decompress` returns -1 or -52 (`zstd.cyr:656`, 719, 744,
  863, 870, 886), so the ladder ends at its first rung. A sound `.tar.zst` is
  refused if a frame does not declare its size and the archive is larger than
  1 MiB and than eight times its packed size, though `zstd.cyr:973` tells callers
  to "grow-retry" there. Without the exception the run fails on exactly these.
- Seen in this run: a PAX value without memory is forgotten, and the entry is
  returned under the name in its header (`lost` exempts that from
  `ReadsTheArchive`; the comment at `tar.cyr:414` intends it). The copy of a
  link's target is not tested for memory (`tar.cyr:606`), so that without an
  override `_star_symlink_safe` takes the length of a null string (`NoLink`). An
  archive that ends within a header ends like a complete one.

### Brotli

The repository has a second decoder, in Python, read independently of the first
from RFC 7932, and a writer of test streams that knows what each stream plays.
Both are modelled as functions, and the decoder of `brotli.cyr` is run against
them on more streams, cuts, changes and bounds than the corpus of tests has.

- `BrotliTables` has the constants as `extract_tables.py` derives or checks
  them. Words of the dictionary and the affixes of its transforms are not
  listed but stood for by bytes that tell them apart (a letter of each case, a
  character of two and of three bytes), with their real lengths, so that an
  omitted, shifted or swapped piece shows; the 121 transforms are the real
  triples.
- `BrotliCodes` and `BrotliOracle` are `brotli_ref_decoder.py`: a reader that
  carries its position, its phase and the reason it was rejected for; `decode`
  with the parameter that makes it misread the RFC in one of six ways.
- `BrotliCraft` writes bits: canonical codes, simple and complex
  with their run lengths, commands, context maps with move-to-front and zero
  runs, block switches. `BrotliCorpus` has the streams and
  the verdicts.
- `Brotli` has one action per read of `brotli.cyr`, in its order and with its
  error returns. The bit reader is a position that may look past the end and not
  get there. A table is the set of words a lookup finds, together with how many
  of its entries were opened and how many of them written, computed as
  `_brd_build` sizes its second levels, because the slab it lies in is not
  cleared and a wrong size would leave entries of an earlier code.
- `Brotli.cfg`: about 450 calls on the streams of the corpus: exact room, one byte less,
  a ceiling below and above the room, either entry point, a dictionary that
  fails its self-check, the slab refused, every cut of the short streams and
  of two with block switches and context maps, and every second bit of one
  header flipped. Texts are shortened to at most a thousand bytes, the ceiling
  of 16 MB to 1000; the window of 1008 bytes is the real smallest one and
  is filled. A stream of fifteen-bit codes was added to those of the script, so
  that second levels of every size occur, shared by codes of several lengths.
- `AgreesWithOracle` compares bytes and class of error; `CorpusHolds` compares
  with what the writer played, and asks that each stream made to tell a wrong
  reading apart does; `TruncationIsCorrupt` is the promise of
  `brotli.cyr:27-29`; `WithinBounds` ties both bounds, in every state, to what
  the block may still write, and the error to the tighter bound; `LookupsHit`
  is what unchecked lookups rest on.
- `EveryStepAdvances` is termination, as a rank that every step lowers, without
  any fairness: the bits left, the bytes owed, the stage, and what is left of a
  loop whose turns may be free. The guard at the end of the command loop is
  thereby shown to be what its comment says, unreachable.

## 4. What is proved

`RuntimeProofs`, for any sets of threads and tables and any bounds:

- `Inductive`: `IInv`, the conjunction of `TypeOK`, `HeldWhileInside` and

  - `Shape`: which steps belong to which kind of call;
  - `WarmIsArmed`: while a locked call has armed the guard since the last
    reset, the canary is stamped and not stranded, so no guard fires;
  - `CanaryCovers`: what a canary in the first chunk, in a later one, or missing
    says about where tables can be;
  - `InsideIsSafe`: past its guard a call finds nothing stale and keeps what it
    built;
  - `PublishedIsFilled`: builders that publish last never show an unfinished
    table;
  - `Paired`: behind a tested pointer that is set only those tables are missing
    that the lock's holder is about to allocate;
  - `TwiceIsRaced`: under the lock no builder finds a pointer set that it had read
    as null.

  None of the four safety properties is inductive alone: that a table a call
  reads is live depends on no other guard firing in between, that on the canary
  being stamped while anybody is inside, and that on where the canary was
  allocated relative to the tables behind it.
- From it `TypeCorrect`, `LockDiscipline`, `ResetDetected`, `TablesAreLive`,
  `DropIsExclusive`, `TablesAreFinished`.

The assumption is `Disciplined`: `~ColdDirect`, `~Residual`. The first is exactly
what the violation run shows to be needed, the second is the residual the source
documents. Which builders are called without the lock, and which of them fill in
place, is left open.

`EnvelopeDecProofs`, for every stream, ceiling, dictionary, cutting and checksum:

- `GzipFinishesOnce`: `GzipFinishedIsFinal`, by `FinishedIsClosed`: once finish
  has answered, the state is CLOSED and nobody is inside, and no handler begins
  there.
- `SumIsTheMembers`: `[]SumCoversMember`. That the sum is right *at* a trailer is
  not inductive; `SumSoFar` says it all along: nothing is folded in a header, and
  while the inner decoder is open the sum is that of the output behind
  `ref.start`, which is where the output stood when the member's stream began. Of
  the inner decoder only `Written` is used, the part of its promise that says a
  call adds to the output and never changes it (`StreamDecoder`, which the run
  `DeflateDec.cfg` shows `DeflateDec` to keep); so this is an argument from
  assumption to guarantee, and needs nothing of DEFLATE.

`DeflateEncProofs`, for every window, hash, chain depth, alphabet, cost of the
symbols, set of jobs, and cutting into writes, with a flush or a reset anywhere:

- `Invariance`: `Inv` is inductive, the conjunction of

  - `TypeI`, the types and what bounds the window;
  - `ControlInv`: which places in the loop, states, errors and pending runs go
    together;
  - `WindowI`: the window is the piece of the text, dictionary included, that
    ends where input was copied to;
  - `CodeI`: while a call can go on, a decoder that has read what is on the wire
    *and the collected symbols in a block behind it* has the text up to `cptr`,
    whichever final bit the block will get; and the symbol buffer has a slot left;
  - `FaithfulI`, `EndI`, `FlushI`: the same without the collected symbols, for a
    stream that stopped in an error, was finished, or was flushed.

  `Faithful` alone says nothing of symbols not yet written, so no step that
  writes a block would keep it. `CodeI` does not mention the hash table at all:
  a candidate's bytes are compared with the window before they are used
  (`Lz77`), so whatever stale entries a slide leaves, a match is a repetition
  within the window, which is all a decoder needs. TLC checked `Inv` on the
  110,437 states of `DeflateEnc.cfg` before it was proved.
- From it `NothingLostHolds`, `FaithfulHolds`, `FlushDeliversHolds`,
  `FinishDeliversHolds`, `ForgetsContextHolds`, and, with a lemma for each step
  that it lowers the measure, `CallEndsHolds`: termination is an action property
  here and needs no fairness.
- Its first part is what this rests on: `Read` item by item
  (`ReadUnfolded`), a full buffer that drops a suffix of the items
  (`FittingUnfolded`), the match finder (a match repeats what lies `dist` before
  it, and never leaves the window), and a match decoded byte by byte
  (`MatchDecoded`; an overlapping copy repeats a period, `Periodic` in `Lemmas`).
- Its last part is the batch encoder, three loops inside each other: turns that
  find a match, blocks of a chunk on the dynamic path, chunks of the input. Each
  is written as a tail recursion (`FixedUnfolded`, `SubBlockUnfolded`,
  `DynamicUnfolded`, `BatchUnfolded`) that ends because a rank falls; a turn that
  writes a held match of one byte does not move on, so the rank of the inner loop
  also counts a held match. Through each loop goes what its items are to *any*
  decoder: inside a block they take it from byte `a` of the input to byte `b`
  (`InBlock`), where `b` leaves out a match that is held and not yet written
  (`Good`); bracketed they are whole blocks from `a` to `b` (`AsBlocks`). A match
  that goes past the end of a chunk is then no special case: the chunk ends where
  it ends (`IsChunk`), and the next begins there. `BatchIsFaithfulHolds` follows,
  for every size of a chunk too; that there is a block for an empty input, and
  one at the end if the last match of a chunk left nothing (`Missing`), are its
  two boundary cases.

The assumptions are those of the three modules (`DeflateEncAssumption`,
`DeflateBatchAssumption`, `Lz77Assumption`): chunks of at least a byte,
dictionaries no longer than the window, a window no longer than the farthest
distance of the format, costs that are numbers, an empty stored block of whole
bytes behind an alignment, and a symbol buffer of more
than 5 slots, since a block is ended with 3 to spare. The code's values satisfy
all of them.

`Lz4BlockProofs`, for every text, hash and table size:

- `BlockRoundTrip`: `DecBlock` of what `Emit` writes for `SequencesOf(text)` is
  the text, behind any output, in any room that is enough. In between is
  `SequencesTell`: the sequences, each with its literals and its match, tell the
  text from left to right. The search is a tail recursion and the decoder
  another one, whose stages are those of the sequences.

`Lz4fProofs`, for every block size, hash, set of jobs and frames, and cutting:

- `Invariance`: `EncInv` and `DecInv` are inductive together. `ReserveKept` and
  `BuffersHold` are not inductive alone: the first needs what a block costs
  (`BlockBytesFit`), and that the staged bytes never exceed a block; the second
  that a block's size was tested against the buffer that holds it, that this
  buffer only grows, and how much of the descriptor has been read in each state
  (`DescriptorRead`), which bounds it by 14 although each byte is appended
  without a test. From it `ReserveIsKept` and `BuffersAreHeld`, and, with the
  block lemmas, `BlocksEndInLiterals`.
- `Rounds`: with these, `EncRound` and `DecRound` are inductive. `EncRound`: the
  wire is a header and full blocks that tell the text up to `Taken`, what is
  staged is the next stretch of it, and a block that did not fit is exactly that
  stretch. `DecRound`: a decoder that is given the finished frame stands, in
  every state, at a known field of it (`Underway`): between two of the encoder's
  blocks, in the body of one, in a checksum, with the text up to there decoded
  and folded into the checksum, however the caller cuts the frame.
- From it `WhatWasEncodedComesBack` (`RoundTrip`), and `StreamIsBatch`
  (`SameAsBatch`): the batch encoder's recursion is unfolded into stages
  (`FrameUnfolded`), stage k of which has what the streaming encoder had written
  behind its k-th block (`BatchBlocks`); both cut the text in the same
  places (`BlockPieces`), since only the last block may be short. A refused block
  is the piece at which the batch encoder gives up, too.

- `PiecesSayWhatTheWholeSays` (`SaysWhatBatchSays`), for any bytes in place of a
  frame: the invariant is `Answered`, and in it `Following` says for each state
  what the decoder knows of the frame before `cp`: which fields it found right,
  and, from the descriptor on, that the batch decoder *gets to* the block in
  hand with the same output (`Gets`). The batch decoder has no such place, since
  it is a function of the whole frame; so its recursion over the blocks is made a
  function of the stage it is at (`Walk`, `WalkOn`), and `Gets` quantifies over
  every length of frame that has at least what was read: a block between p and
  `cp` decodes alike whatever follows it (`PrefixBlock`). A turn that fails, a
  write that ends (`SuspendAnswered`) and `lz4f_dec_finish` then each have one
  stage to compare (`GetsRefused`, `GetsClosing`, `Truncated`). Two conjuncts are
  there for `Truncated` only: in the caller all that was handed over has been
  read, and a block that is waited for is not complete. TLC checked `Answered` on
  the 361,731 states of `Lz4f.cfg` before it was proved.

The assumption is `Typed`: four bytes of a hash are bytes. What is compared with
a checksum is computed by the same function from the same bytes, so nothing else
about xxHash32 matters here. The frames may be any sequences of bytes.

`TarProofs`, for any archive, hash, ledger and failing allocations:

- `NeverThroughALink`: `[]NothingThroughALink`. The invariant adds that the
  ledger has the key of every link that was returned (`LedgerKnows`): the test
  of a new entry is against keys, so equal paths are always met, and paths that
  share a key only refuse more. `Clear` is that argument, `OneMore` an entry
  that was appended; every other step leaves entries and ledger alone.
- `TheArchiveIsRead`: `[]ReadsTheArchive`. `Meaning` reads the archive from
  before its start, `Len(archive.blocks)` steps of `Onward`; its stages are
  `Walk`, and `MeaningIs` says that no stage goes beyond the last block, so that
  the number of steps is enough. The cursor stands at *three* of those stages at
  once (`StandsAt`): the call began at `a`, its loop is at `b`, and calls before
  this one had got to `c`. That is needed because an error takes the position
  back to `a`, but leaves pending what the headers from `a` to `b` said; the
  next call reads them again. So each pending value is what was known at *some*
  stage from `b` to `c` (`Between`, one choice per value), and what is pending
  twice is the same, since between `a` and `c` no entry was returned and the
  values known only grow (`KnownBehind`). When the loop gets to `c`, all of them
  are those that `Said` and `Named` find by looking back from the entry
  (`KnownIs`, `EntryIs`). `Known` relates the two formulations: what the latest
  header of a kind said, against records joined and searched from behind
  (`LatestJoin`, `HeardMore`). The ledger's keys are exactly those of the links
  returned (`LinkKeys`), so that `Takes` and the cursor refuse the same entries.
  The ladder of buffers has an invariant of its own (`OpenInv`). TLC checked
  `ReadInv` and `OpenInv` on the 54,826 states of `Tar.cfg` before the proof.

Assumed is `TarAssumption`: blocks and buffers have a positive size, an archive
is no longer than its blocks, the sizes in headers are integers (not assumed to be
true, nor positive: negative ones are refused), and the units of content have a
length.

`ZipProofs`, for any members, sizes, codecs and archives:

- `MutexIsGivenBack`. `MutexGivenBack` is not inductive alone: a write to a
  stored member may fail and releases nothing, so that it matters that such a
  member has no encoder (`EncoderOfDeflate`), and, because members are updated
  with `EXCEPT`, that the open member keeps its fields (`MemberKnown`). No
  assumption is needed.
- `NothingIsUnpackedThroughALink`: `[]NothingThroughALink`. The invariant says
  that each file on the disk is that of an entry the ledger let through
  (`DiskKnown`), and the argument is `SafeOfAll`: the ledger has *every* link of
  the archive, so it does not matter which of two members was unpacked first.
  Nothing is assumed of the entries, so it holds of any archive.
- `RoomIsSufficient`: `[]RoomSuffices`. The bound is a sum over the members that
  were offered, so the invariant (`RoomInv`) relates three books: the records and
  the members that were taken agree in the lengths of their names (`Matching`),
  the position is at most what these take where they lie (`Counted`), and the open
  member begins at the position (`OpenFits`). `BoundSplits` divides the bound into
  that share and the directory's; a call that fails for space then had a buffer
  below both together (`BooksRefuse`, `FinishFits`). The bound is tight: 50, 74
  and 98 bytes are what a member, a central record and a trailer can take.
  Sums and the pieces of a buffer are unfolded from their recursion with
  `Iteration`.
- `WhatIsWrittenIsRead`: `[]ReadsBack`. The invariant (`Laid`, beside `RoomInv`
  and unless somebody altered the archive) says where things lie. No piece of the
  buffer is on another (`Apart`); the header and the content of each recorded
  member lie in front of `pos` and say what the call for it said (`Kept`); of an
  open member the header does, and what was written of it if it is stored
  (`OpenClaim`); if a finish returned a length, its directory and trailer lie
  from `pos` up to there (`Shut`); and a reader that is open has the entries of
  the first n records, whose members end in front of its length (`ReaderSees`).
  A call only writes from `pos` on, where a directory may be, and is then no longer
  closed (`PutAllApart`, `NoLongerShut`); so what a reader was given stays, as
  calls that fail, are refused or are abandoned half-way write nothing in front
  of `pos`. `OpenFinds` runs the reader over a closed archive: the record
  it looks for is the last one written, each central header is found where the
  one before it ended (`WalkTurn`), and its fields come back through the
  sentinels (`ResolvedIs`), but for a field that is the sentinel itself, which
  `AtSentinel` exempts (the finding of `ZipSentinel.cfg`). What the reader says of
  a content is `Overrun`'s answer for its size, so that the ceiling is the one
  reason left to refuse a member. The chunks of a stored
  member are found by their rank among the pieces (`PlainComesBack`), and
  `StampsKeep` is the calendar: `_zip_civil_from_days` inverts
  `_zip_days_from_civil` on each day from 1980 to 2107, leap years included
  (`DatesComeBack`), which `Zip.cfg` only has for a few days. An entry is refused as
  unsafe only if an accepted member is a link (`OnlyLinksRefuse`).

Assumed is `ZipAssumption`: buffers hold at least a trailer, payloads take a byte
or more, tables and counts have a positive limit, and a member has a name of at
least one component, an integer stamp and a content of known size.

## 5. What is only model-checked, and what is not modelled

- Liveness (`HolderReleases`, `CallReturns`) is out of the prover's reach. The
  library's induction over data is, too, because its theorems take an operator
  for the hypothesis. `Lemmas` goes around that where a recursion can be written
  over `0 .. n`: what holds is put in a *set* of indices (`BoundedInductive`), a
  step is given as a function (`Iteration`), and a tail recursion ends because a
  rank falls (`TailEnds`). So the LZ4 encoder and decoder, both DEFLATE encoders,
  the tar cursor and the round trip of zip are proved; the agreement of the
  DEFLATE, gzip and zlib decoders with the batch ones (`AgreesWithBatch`) and the
  codes of `DynamicBlock` are only checked on the instances above.
- Everything about Brotli. Its codes, maps and texts are computed by recursion
  over what is read, and the agreement is with another such computation.
- Of Brotli: the words of the dictionary themselves (checked by a digest in the
  code), the 64-bit accumulator and its refills, word-sized copies; the probe
  set of `brotli-craft.py` (from line 1588, timing of hostile input), the files
  and command lines of the scripts, the digests over flipped streams in
  `brotli-manifest.py`, and in `extract_tables.py` the parsing of the C sources.
- Checksums are uninterpreted; their arithmetic is not modelled, nor is an
  allocation that fails in the middle of a live encoder.
- Of zip: `zip_find`, the accessors, the allocator argument, comments behind
  the trailer; two paths with one hash (which refuses more); that a Zip64
  locator is recognised by its signature alone (`zip.cyr:464-466`), so that a
  last directory record of the right length could look like one; the 32-bit
  descriptors of streamed members beyond 4 GB.
- Each part with the status `not_modelled` in `PROJECT.json` says why.
