------------------------------ MODULE Runtime ------------------------------
(***************************************************************************)
(* The shared runtime of sankoch (src/src/runtime.cyr): the library mutex, *)
(* the lazily built tables every codec memoizes in the bump arena, and the *)
(* canary by which a call notices that the program ran alloc_reset()       *)
(* behind the library's back.                                              *)
(*                                                                         *)
(* Threads enter in three ways.  A batch call locks, builds what is        *)
(* missing, works, unlocks.  A streaming context locks at *_init and       *)
(* unlocks at *_finish; one that is opened through stream.cyr has its      *)
(* wrapper allocated before it locks.  The checksum table builders         *)
(* (crc32_init_table and its siblings) are public and take no lock: they   *)
(* run the guard themselves.  A locked gzip, xz or bzip2 call runs one of  *)
(* these builders too, so the guard runs a second time inside the call.    *)
(*                                                                         *)
(* A pointer is abstracted to where it points: "null", into the "first"    *)
(* chunk of the arena (the one alloc_reset rewinds and zeroes), into a     *)
(* "later" chunk (never zeroed, never handed out twice), or "stale", into  *)
(* first-chunk memory that has been handed back to the program.            *)
(***************************************************************************)
EXTENDS Naturals

CONSTANTS
    Threads,      \* the program's threads
    NoThread,     \* value of the mutex cell when it is free
    Codec,        \* the tables only locked calls build (Huffman, LZ77, ...)
    Behind,       \* maps a table built behind the null test of another to that one
    Sums,         \* the checksum tables, built by the public builders
    NoSum,        \* a locked call that needs no checksum table
    InPlace,      \* the Sums published before they are filled
    DirectSums,   \* the Sums whose builder threads call without the lock
    ColdDirect,   \* may such a call start before a locked one armed the canary?
    CanFail,      \* may an allocation fail?
    Residual      \* may an allocation succeed after the canary's failed?

ASSUME RuntimeAssumption ==
    /\ NoThread \notin Threads
    /\ NoSum \notin Sums
    /\ Codec # {} /\ Codec \cap Sums = {}
    /\ DOMAIN Behind \subseteq Codec
    /\ Behind \in [DOMAIN Behind -> Codec \ DOMAIN Behind]
    /\ InPlace \subseteq Sums
    /\ DirectSums \subseteq Sums
    /\ ColdDirect \in BOOLEAN
    /\ CanFail \in BOOLEAN
    /\ Residual \in BOOLEAN

Tables == Codec \cup Sums
Live   == {"first", "later"}

\* The tables whose pointer a locked call tests.
Tested == Codec \ DOMAIN Behind

VARIABLES
    mtx,      \* _sankoch_mtx: its owner, or NoThread
    canary,   \* where _sankoch_canary points
    stamped,  \* the canary's cell holds SANKOCH_ARENA_MAGIC
    lost,     \* _sankoch_canary_lost
    warm,     \* a locked call has left the guard armed since the last reset
    bump,     \* the chunk the arena's bump pointer is in
    tab,      \* where each memoized table pointer points
    rest,     \* the tables the block of allocations under way has still to get
    filled,   \* the table a Sums pointer refers to is completely written
    twice,    \* the InPlace tables allocated anew under a pointer that was set
    pc,       \* the next step of each thread; "idle" outside the library
    stage,    \* "codec" or "sum" in a locked call, "direct" in a bare builder,
              \* "stream" in front of the lock of a wrapped context
    sum,      \* the checksum table the current call needs, or NoSum
    ctx,      \* the thread's streaming context: "none" or "open"
    spent,    \* a finished context is at hand, to be finished again
    held      \* the tables an open context reads

cell   == <<canary, stamped, lost>>
guard  == <<cell, warm>>
sums   == <<filled, twice>>
contexts == <<ctx, spent, held>>
caller == <<stage, sum, contexts>>
vars   == <<mtx, canary, stamped, lost, warm, bump, tab, rest, filled, twice,
            pc, stage, sum, ctx, spent, held>>

TypeOK ==
    /\ mtx \in Threads \cup {NoThread}
    /\ canary \in {"null", "first", "later"}
    /\ stamped \in BOOLEAN
    /\ lost \in BOOLEAN
    /\ warm \in BOOLEAN
    /\ bump \in Live
    /\ tab \in [Tables -> {"null", "first", "later", "stale"}]
    /\ rest \subseteq DOMAIN Behind
    /\ filled \in [Sums -> BOOLEAN]
    /\ twice \subseteq Sums
    /\ pc \in [Threads -> {"idle", "wrapped", "check", "drop", "arm", "stamp", "build",
                           "sum", "make", "fill", "use"}]
    /\ stage \in [Threads -> {"none", "stream", "codec", "sum", "direct"}]
    /\ sum \in [Threads -> Sums \cup {NoSum}]
    /\ ctx \in [Threads -> {"none", "open"}]
    /\ spent \in BOOLEAN
    /\ held \in [Threads -> SUBSET Tables]

Init ==
    /\ mtx = NoThread
    /\ canary = "null" /\ stamped = FALSE /\ lost = FALSE
    /\ warm = FALSE
    /\ bump = "first"
    /\ tab = [t \in Tables |-> "null"]
    /\ rest = {}
    /\ filled = [s \in Sums |-> FALSE] /\ twice = {}
    /\ pc = [t \in Threads |-> "idle"]
    /\ stage = [t \in Threads |-> "none"]
    /\ sum = [t \in Threads |-> NoSum]
    /\ ctx = [t \in Threads |-> "none"] /\ spent = FALSE
    /\ held = [t \in Threads |-> {}]

-----------------------------------------------------------------------------
(* The allocator: an allocation fails, or lands where the bump pointer is, *)
(* or does not fit there and opens a later chunk.                          *)

Allocate(r) ==
    \/ CanFail /\ r = "null" /\ UNCHANGED bump
    \/ r \in {bump, "later"} /\ bump' = r

Stranded == canary = "later" /\ bump = "first"

\* _sankoch_arena_guard concludes that the arena was reset.
Fires == IF canary = "null" THEN lost ELSE ~stamped \/ Stranded

-----------------------------------------------------------------------------
(* Entering the library.  A thread with an open context does not lock: the *)
(* mutex is not recursive and the documentation forbids it.                *)

\* stream_compress_init and stream_decompress_init_inc allocate the wrapper
\* they will return before the inner *_init waits for the mutex.
Wrap(t, r) ==
    /\ pc[t] = "idle" /\ ctx[t] # "open"
    /\ Allocate(r)
    /\ IF r = "null"
         THEN UNCHANGED <<pc, stage>>
         ELSE /\ pc' = [pc EXCEPT ![t] = "wrapped"]
              /\ stage' = [stage EXCEPT ![t] = "stream"]
    /\ UNCHANGED <<mtx, guard, tab, rest, sums, sum, contexts>>

Lock(t, s) ==
    /\ pc[t] \in {"idle", "wrapped"} /\ ctx[t] # "open"
    /\ mtx = NoThread
    /\ mtx' = t
    /\ pc' = [pc EXCEPT ![t] = "check"]
    /\ stage' = [stage EXCEPT ![t] = "codec"]
    /\ sum' = [sum EXCEPT ![t] = s]
    /\ UNCHANGED <<guard, bump, tab, rest, sums, contexts>>

CallBuilder(t, s) ==
    /\ pc[t] = "idle"
    /\ s \in DirectSums
    /\ ColdDirect \/ warm
    /\ pc' = [pc EXCEPT ![t] = "check"]
    /\ stage' = [stage EXCEPT ![t] = "direct"]
    /\ sum' = [sum EXCEPT ![t] = s]
    /\ UNCHANGED <<mtx, guard, bump, tab, rest, sums, contexts>>

-----------------------------------------------------------------------------
(* The guard.                                                              *)

Guarded(t) == IF stage[t] = "codec" THEN "build" ELSE "sum"

CheckCanary(t) ==
    /\ pc[t] = "check"
    /\ pc' = [pc EXCEPT ![t] = IF Fires THEN "drop"
                               ELSE IF canary = "null" THEN "arm"
                               ELSE Guarded(t)]
    /\ warm' = IF ~Fires /\ canary # "null" /\ stage[t] = "codec" THEN TRUE ELSE warm
    /\ UNCHANGED <<mtx, cell, bump, tab, rest, sums, caller>>

DropTables(t) ==
    /\ pc[t] = "drop"
    /\ tab' = [tb \in Tables |-> "null"]
    /\ filled' = [s \in Sums |-> FALSE]
    /\ pc' = [pc EXCEPT ![t] = "arm"]
    /\ UNCHANGED <<mtx, guard, bump, rest, twice, caller>>

\* Mutants of ArmCanary: a failed allocation is not remembered, or leaves the
\* old pointer in place.
ArmCanaryForgetful(t, r) ==
    /\ pc[t] = "arm"
    /\ Allocate(r)
    /\ canary' = r
    /\ stamped' = FALSE
    /\ pc' = [pc EXCEPT ![t] = IF r = "null" THEN Guarded(t) ELSE "stamp"]
    /\ UNCHANGED <<mtx, lost, warm, tab, rest, sums, caller>>

ArmCanary(t, r) ==
    /\ pc[t] = "arm"
    /\ Allocate(r)
    /\ canary' = r
    /\ stamped' = FALSE
    /\ lost' = IF r = "null" THEN TRUE ELSE lost
    /\ pc' = [pc EXCEPT ![t] = IF r = "null" THEN Guarded(t) ELSE "stamp"]
    /\ UNCHANGED <<mtx, warm, tab, rest, sums, caller>>

StampCanary(t) ==
    /\ pc[t] = "stamp" /\ canary # "null"
    /\ stamped' = TRUE
    /\ lost' = FALSE
    /\ warm' = IF stage[t] = "codec" THEN TRUE ELSE warm
    /\ pc' = [pc EXCEPT ![t] = Guarded(t)]
    /\ UNCHANGED <<mtx, canary, bump, tab, rest, sums, caller>>

-----------------------------------------------------------------------------
(* Building the tables.  Every failure path of a locked call unlocks.      *)

Locked(t) == stage[t] \in {"codec", "sum"}

\* Mutant of Leave: the paths that fail in a checksum table keep the lock.
LeaveSumHeld(t) ==
    /\ mtx' = IF stage[t] = "codec" THEN NoThread ELSE mtx
    /\ pc' = [pc EXCEPT ![t] = "idle"]
    /\ stage' = [stage EXCEPT ![t] = "none"]
    /\ sum' = [sum EXCEPT ![t] = NoSum]

Leave(t) ==
    /\ mtx' = IF Locked(t) THEN NoThread ELSE mtx
    /\ pc' = [pc EXCEPT ![t] = "idle"]
    /\ stage' = [stage EXCEPT ![t] = "none"]
    /\ sum' = [sum EXCEPT ![t] = NoSum]

\* The residual that runtime.cyr names: the canary's allocation failed and a
\* later one of the same call succeeds, in a call that will guard again.
Recovers(t) == lost /\ sum[t] # NoSum

\* The pointer that is tested, and with it those behind it to be allocated next.
BuildTable(t, tb, r) ==
    /\ pc[t] = "build" /\ rest = {}
    /\ tb \in Tested /\ tab[tb] = "null"
    /\ Allocate(r)
    /\ IF r = "null"
         THEN Leave(t) /\ UNCHANGED <<tab, rest>>
         ELSE /\ Residual \/ ~Recovers(t)
              /\ tab' = [tab EXCEPT ![tb] = r]
              /\ rest' = {b \in DOMAIN Behind : Behind[b] = tb}
              /\ UNCHANGED <<mtx, pc, stage, sum>>
    /\ UNCHANGED <<guard, sums, contexts>>

\* Mutant of Unlatched: the tested pointer stays set without those behind it.
Latched(tb) == [tab EXCEPT ![tb] = "null"]

\* "unlatch: a retry must re-enter".
Unlatched(tb) == [tab EXCEPT ![tb] = "null", ![Behind[tb]] = "null"]

BuildBehind(t, tb, r) ==
    /\ pc[t] = "build" /\ tb \in rest
    /\ Allocate(r)
    /\ IF r = "null"
         THEN Leave(t) /\ tab' = Unlatched(tb) /\ rest' = {}
         ELSE /\ Residual \/ ~Recovers(t)
              /\ tab' = [tab EXCEPT ![tb] = r]
              /\ rest' = rest \ {tb}
              /\ UNCHANGED <<mtx, pc, stage, sum>>
    /\ UNCHANGED <<guard, sums, contexts>>

CodecReady(t) ==
    /\ pc[t] = "build" /\ rest = {}
    /\ \A tb \in Tested : tab[tb] # "null"
    /\ IF sum[t] = NoSum
         THEN pc' = [pc EXCEPT ![t] = "use"] /\ UNCHANGED stage
         ELSE /\ pc' = [pc EXCEPT ![t] = "check"]
              /\ stage' = [stage EXCEPT ![t] = "sum"]
    /\ UNCHANGED <<mtx, guard, bump, tab, rest, sums, sum, contexts>>

\* A builder reads its pointer, and only then acts on what it read.
ReadSum(t) ==
    /\ pc[t] = "sum"
    /\ pc' = [pc EXCEPT ![t] = IF tab[sum[t]] = "null" THEN "make"
                               ELSE IF sum[t] \in InPlace THEN "fill"
                               ELSE "use"]
    /\ UNCHANGED <<mtx, guard, bump, tab, rest, sums, caller>>

\* Mutant of MakeSum: every builder publishes its allocation at once.
MakeSumPublishFirst(t, r) ==
    /\ pc[t] = "make"
    /\ Allocate(r)
    /\ IF r = "null"
         THEN Leave(t)
         ELSE /\ pc' = [pc EXCEPT ![t] = "fill"]
              /\ UNCHANGED <<mtx, stage, sum>>
    /\ tab' = [tab EXCEPT ![sum[t]] = r]
    /\ filled' = [filled EXCEPT ![sum[t]] = FALSE]
    /\ twice' = IF tab[sum[t]] # "null" THEN twice \cup {sum[t]} ELSE twice
    /\ UNCHANGED <<guard, rest, contexts>>

\* crc32_init_table fills a private table and publishes it last.  The others
\* publish the allocation, a failed one included, and fill it in place.
MakeSum(t, r) ==
    /\ pc[t] = "make"
    /\ Allocate(r)
    /\ IF r = "null"
         THEN Leave(t)
         ELSE /\ pc' = [pc EXCEPT ![t] =
                            IF sum[t] \in InPlace THEN "fill" ELSE "use"]
              /\ UNCHANGED <<mtx, stage, sum>>
    /\ IF r = "null" /\ sum[t] \notin InPlace
         THEN UNCHANGED <<tab, filled>>
         ELSE /\ tab' = [tab EXCEPT ![sum[t]] = r]
              /\ filled' = [filled EXCEPT ![sum[t]] = sum[t] \notin InPlace]
    /\ twice' = IF sum[t] \in InPlace /\ tab[sum[t]] # "null"
                  THEN twice \cup {sum[t]} ELSE twice
    /\ UNCHANGED <<guard, rest, contexts>>

FillSum(t) ==
    /\ pc[t] = "fill"
    /\ filled' = [filled EXCEPT ![sum[t]] = TRUE]
    /\ pc' = [pc EXCEPT ![t] = "use"]
    /\ UNCHANGED <<mtx, guard, bump, tab, rest, twice, caller>>

-----------------------------------------------------------------------------
(* Leaving the library, and the life of a streaming context.               *)

\* The tables the call in progress is about to read.
Needs(t) == (IF Locked(t) THEN Codec ELSE {}) \cup ({sum[t]} \cap Sums)

Return(t) ==
    /\ pc[t] = "use"
    /\ Leave(t)
    /\ UNCHANGED <<guard, bump, tab, rest, sums, contexts>>

\* Mutant of OpenContext: the last allocation, be it the context or a wrapper
\* around it, fails and 0 is returned with the lock held.
OpenContextLeaks(t, r) ==
    /\ pc[t] = "use" /\ Locked(t)
    /\ Allocate(r)
    /\ IF r = "null"
         THEN UNCHANGED <<ctx, held>>
         ELSE /\ ctx' = [ctx EXCEPT ![t] = "open"]
              /\ held' = [held EXCEPT ![t] = Needs(t)]
    /\ pc' = [pc EXCEPT ![t] = "idle"]
    /\ stage' = [stage EXCEPT ![t] = "none"]
    /\ sum' = [sum EXCEPT ![t] = NoSum]
    /\ UNCHANGED <<mtx, guard, tab, rest, sums, spent>>

\* *_init allocates its context and keeps the lock, or unlocks and returns 0.
OpenContext(t, r) ==
    /\ pc[t] = "use" /\ Locked(t)
    /\ Allocate(r)
    /\ IF r = "null"
         THEN Leave(t) /\ UNCHANGED <<ctx, held>>
         ELSE /\ ctx' = [ctx EXCEPT ![t] = "open"]
              /\ held' = [held EXCEPT ![t] = Needs(t)]
              /\ pc' = [pc EXCEPT ![t] = "idle"]
              /\ stage' = [stage EXCEPT ![t] = "none"]
              /\ sum' = [sum EXCEPT ![t] = NoSum]
              /\ UNCHANGED mtx
    /\ UNCHANGED <<guard, tab, rest, sums, spent>>

\* Mutant of Finish: every finish unlocks, whoever holds the mutex.
FinishUnlocksAlways(t) ==
    /\ pc[t] = "idle"
    /\ ctx[t] = "open" \/ spent
    /\ mtx' = NoThread
    /\ ctx' = [ctx EXCEPT ![t] = "none"]
    /\ spent' = TRUE
    /\ held' = [held EXCEPT ![t] = {}]
    /\ UNCHANGED <<guard, bump, tab, rest, sums, pc, stage, sum>>

\* A second finish is refused and leaves the lock to whoever has it.
Finish(t) ==
    /\ pc[t] = "idle"
    /\ \/ /\ ctx[t] = "open"
          /\ mtx' = NoThread
          /\ ctx' = [ctx EXCEPT ![t] = "none"]
          /\ spent' = TRUE
          /\ held' = [held EXCEPT ![t] = {}]
       \/ spent /\ UNCHANGED <<mtx, contexts>>
    /\ UNCHANGED <<guard, bump, tab, rest, sums, pc, stage, sum>>

-----------------------------------------------------------------------------
(* The program outside the library.  It may rewind the arena only while no *)
(* call is running and no context, which is arena memory too, is open.     *)

AllocReset ==
    /\ \A t \in Threads : pc[t] = "idle" /\ ctx[t] # "open"
    /\ bump' = "first"
    /\ stamped' = IF canary = "first" THEN FALSE ELSE stamped
    /\ warm' = FALSE
    /\ tab' = [tb \in Tables |-> IF tab[tb] = "first" THEN "stale" ELSE tab[tb]]
    /\ twice' = {}
    /\ ctx' = [t \in Threads |-> "none"]
    /\ spent' = FALSE
    /\ UNCHANGED <<mtx, canary, lost, rest, filled, pc, stage, sum, held>>

FillFirstChunk ==
    /\ bump = "first"
    /\ bump' = "later"
    /\ UNCHANGED <<mtx, guard, tab, rest, sums, pc, caller>>

-----------------------------------------------------------------------------
Pointers == {"null", "first", "later"}

Step(t) ==
    \/ CheckCanary(t)
    \/ DropTables(t)
    \/ \E r \in Pointers : ArmCanary(t, r)
    \/ StampCanary(t)
    \/ \E tb \in Tested, r \in Pointers : BuildTable(t, tb, r)
    \/ \E tb \in rest, r \in Pointers : BuildBehind(t, tb, r)
    \/ CodecReady(t)
    \/ ReadSum(t)
    \/ \E r \in Pointers : MakeSum(t, r)
    \/ FillSum(t)

Next ==
    \/ \E t \in Threads, r \in Pointers : Wrap(t, r)
    \/ \E t \in Threads, s \in Sums \cup {NoSum} : Lock(t, s)
    \/ \E t \in Threads, s \in Sums : CallBuilder(t, s)
    \/ \E t \in Threads : Step(t)
    \/ \E t \in Threads : Return(t)
    \/ \E t \in Threads, r \in Pointers : OpenContext(t, r)
    \/ \E t \in Threads : Finish(t)
    \/ AllocReset
    \/ FillFirstChunk

\* A call, once started, runs to its end: the scheduler keeps giving steps to
\* its thread.  A program that opens a context and keeps coming back from its
\* other calls finishes it (README.md:200, "you finish one context").
Fairness ==
    \A t \in Threads :
        /\ WF_vars(Step(t))
        /\ WF_vars(Return(t))
        /\ SF_vars(ctx[t] = "open" /\ Finish(t))

Spec == Init /\ [][Next]_vars

FairSpec == Spec /\ Fairness

-----------------------------------------------------------------------------
(* Properties.                                                             *)

\* The mutex is held by exactly the thread that is inside a locked call or
\* has a context open: no failure path and no second finish leaks it or
\* releases another thread's (runtime.cyr _sankoch_lock / _sankoch_unlock).
HeldWhileInside ==
    \A t \in Threads : mtx = t <=> Locked(t) \/ ctx[t] = "open"

\* A table pointer into memory the program owns again is never overlooked:
\* the next guard concludes that the arena was reset (runtime.cyr:46-76).
ResetIsSeen ==
    (\E tb \in Tables : tab[tb] = "stale") => Fires

\* Whatever a call or an open context reads or fills is a table in memory the
\* library owns, in spite of resets, failed allocations, half-built sets and
\* nested guards.  A table built twice over may be gone, but does not dangle.
Owned(tb) == tab[tb] \in Live \/ (tab[tb] = "null" /\ tb \in twice)

UsesLiveTables ==
    \A t \in Threads :
        /\ pc[t] \in {"fill", "use"} => \A tb \in Needs(t) : Owned(tb)
        /\ \A tb \in held[t] : Owned(tb)

\* A thread that is past its guard and relies on what it memoized.
Using(t) == pc[t] \in {"build", "sum", "make", "fill", "use"} \/ ctx[t] = "open"

\* runtime.cyr:205: the guard drops tables that no other call can be using.
DropExclusive ==
    \A t, u \in Threads : pc[t] = "drop" /\ t # u => ~Using(u)

\* Whoever gets past a builder computes with a finished table, unless two
\* builders both found the pointer null and the later one replaced the table the
\* earlier one had published: that takes a builder which fills in place and a
\* caller without the lock, crc64_init_table or crc32_bzip2_init_table.
\* (docs/architecture/002:97-99 has all the builders "publish a finished table
\* last"; since 2.8.6 crc32_init_table does.)
UsesFinishedTables ==
    /\ \A t \in Threads :
        /\ pc[t] = "use" => \A s \in Needs(t) \cap Sums : filled[s] \/ s \in twice
        /\ \A s \in held[t] \cap Sums : filled[s] \/ s \in twice
    /\ twice \subseteq InPlace \cap DirectSums

\* No thread keeps the library to itself for ever.
HolderReleases == \A t \in Threads : mtx = t ~> mtx # t

=============================================================================
