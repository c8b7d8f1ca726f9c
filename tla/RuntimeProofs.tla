--------------------------- MODULE RuntimeProofs ---------------------------
(***************************************************************************)
(* Proofs about Runtime, for any number of threads, tables, resets and     *)
(* failed allocations, under two restrictions: a bare builder call comes    *)
(* after a locked one that armed the canary (without it the model checker   *)
(* has a counterexample), and no memory shortage heals within a call (the   *)
(* residual that runtime.cyr names).                                        *)
(***************************************************************************)
EXTENDS Runtime, TLAPS

Disciplined ==
    /\ ~ColdDirect
    /\ ~Residual

-----------------------------------------------------------------------------
(* The inductive invariant.                                                *)

Null(tb)  == tab[tb] = "null"
NoStale   == \A tb \in Tables : tab[tb] # "stale"

\* Which steps belong to which kind of call.
Shape ==
    \A t \in Threads :
        /\ pc[t] = "idle" <=> stage[t] = "none"
        /\ pc[t] = "wrapped" <=> stage[t] = "stream"
        /\ pc[t] \in {"drop", "arm", "stamp", "build"} => stage[t] = "codec"
        /\ pc[t] \in {"sum", "make", "fill"} => stage[t] \in {"sum", "direct"}
        /\ stage[t] \in {"sum", "direct"} => sum[t] \in Sums
        /\ stage[t] = "direct" => sum[t] \in DirectSums
        /\ pc[t] = "use" /\ stage[t] = "codec" => sum[t] = NoSum
        /\ pc[t] = "fill" => sum[t] \in InPlace
        /\ ctx[t] = "open" => stage[t] \in {"none", "direct"}
        /\ ctx[t] # "open" => held[t] = {}

\* While warm is TRUE no guard fires, and nobody is re-arming.
WarmIsArmed ==
    /\ stamped => canary # "null" /\ ~lost
    /\ warm => stamped
    /\ warm /\ canary = "later" => bump = "later"
    /\ \A t \in Threads :
        /\ stage[t] \in {"sum", "direct"} => warm
        /\ pc[t] \in {"drop", "arm", "stamp"} => ~warm
        /\ pc[t] = "build" => warm \/ (lost /\ canary = "null")
        /\ pc[t] = "use" => warm \/ (lost /\ canary = "null")
        /\ pc[t] = "build" /\ lost /\ sum[t] # NoSum =>
                \A tb \in Codec : Null(tb)

\* What the canary says about the tables memoized behind it.
CanaryCovers ==
    /\ canary = "null" /\ ~lost => \A tb \in Tables : Null(tb)
    /\ canary = "first" /\ stamped => NoStale
    /\ canary = "later" => \A tb \in Tables : tab[tb] \in {"null", "later"}
    /\ \A t \in Threads :
        /\ pc[t] \in {"arm", "stamp"} => \A tb \in Tables : Null(tb)
        /\ pc[t] = "stamp" => canary # "null" /\ (canary = "later" => bump = "later")

\* Past its guard, a call finds no stale pointer and keeps what it built.
InsideIsSafe ==
    \A t \in Threads :
        /\ \/ pc[t] \in {"build", "sum", "make", "fill", "use"}
           \/ ctx[t] = "open"
           => NoStale
        /\ stage[t] = "sum" \/ (pc[t] = "use" /\ Locked(t))
           => \A tb \in Codec : ~Null(tb)
        /\ pc[t] = "use" /\ sum[t] \in Sums =>
                sum[t] \in twice \/ (~Null(sum[t]) /\ filled[sum[t]])
        /\ pc[t] = "fill" => ~Null(sum[t]) \/ sum[t] \in twice
        /\ \A tb \in held[t] : ~Null(tb) \/ tb \in twice
        /\ \A s \in held[t] \cap Sums : filled[s] \/ s \in twice

PublishedIsFilled ==
    \A s \in Sums \ InPlace : ~Null(s) => filled[s]

\* Behind a pointer that is set nothing is missing but what is being allocated.
Paired ==
    /\ \A b \in DOMAIN Behind \ rest : ~Null(Behind[b]) => ~Null(b)
    /\ rest # {} => \E t \in Threads : pc[t] = "build"
    /\ \A b, c \in rest : Behind[b] = Behind[c]

\* Under the lock nobody replaces a table.
TwiceIsRaced ==
    /\ twice \subseteq InPlace \cap DirectSums
    /\ \A t \in Threads :
        pc[t] = "make" /\ sum[t] \notin DirectSums => Null(sum[t])

IInv ==
    /\ TypeOK
    /\ Shape
    /\ HeldWhileInside
    /\ WarmIsArmed
    /\ CanaryCovers
    /\ InsideIsSafe
    /\ PublishedIsFilled
    /\ Paired
    /\ TwiceIsRaced
-----------------------------------------------------------------------------
\* An allocation returns a pointer into the chunk the bump pointer ends up in.
LEMMA AllocateFacts ==
    ASSUME RuntimeAssumption, TypeOK, NEW r, Allocate(r)
    PROVE  /\ r \in {"null", "first", "later"}
           /\ bump' \in Live
           /\ r # "null" => bump' = r
           /\ bump = "later" => bump' = "later"
  BY DEF Allocate, TypeOK, Live, RuntimeAssumption

\* A locked call tests some pointer, and behind a tested one there is no other.
LEMMA SomeTested ==
    ASSUME RuntimeAssumption
    PROVE  /\ \E tb \in Codec : tb \in Tested
           /\ \A b \in DOMAIN Behind : b \in Codec /\ Behind[b] \in Tested
<1>1. \A b \in DOMAIN Behind : b \in Codec /\ Behind[b] \in Tested
  BY DEF RuntimeAssumption, Tested
<1>2. CASE DOMAIN Behind = {}
  BY <1>1, <1>2 DEF RuntimeAssumption, Tested
<1>3. CASE DOMAIN Behind # {}
  BY <1>1, <1>3 DEF Tested
<1> QED
  BY <1>1, <1>2, <1>3

\* Every step keeps the variables in their types.
LEMMA TypeOKStep ==
    ASSUME IInv, Disciplined, [Next]_vars
    PROVE  TypeOK'
<1> USE RuntimeAssumption DEF IInv, TypeOK, vars, guard, cell, sums, contexts, caller, Tables, Live
<1>1. CASE UNCHANGED vars
  BY <1>1
<1>2. ASSUME NEW t \in Threads, NEW s \in Sums \cup {NoSum}, Lock(t, s)
      PROVE  TypeOK'
  BY <1>2 DEF Lock
<1>3. ASSUME NEW t \in Threads, NEW s \in Sums, CallBuilder(t, s)
      PROVE  TypeOK'
  BY <1>3 DEF CallBuilder
<1>4. ASSUME NEW t \in Threads, CheckCanary(t)
      PROVE  TypeOK'
  BY <1>4 DEF CheckCanary, Fires, Stranded, Guarded
<1>5. ASSUME NEW t \in Threads, DropTables(t)
      PROVE  TypeOK'
  BY <1>5 DEF DropTables
<1>6. ASSUME NEW t \in Threads, NEW r \in Pointers, ArmCanary(t, r)
      PROVE  TypeOK'
  
  <2>1. bump' \in Live /\ r \in {"null", "first", "later"}
    BY <1>6, AllocateFacts DEF ArmCanary
  <2>2. lost' \in BOOLEAN
    BY <1>6 DEF ArmCanary
  <2>3. pc' \in [Threads -> {"idle", "wrapped", "check", "drop", "arm", "stamp", "build",
                           "sum", "make", "fill", "use"}]
    BY <1>6 DEF ArmCanary, Guarded
  <2> QED
    BY <2>1, <2>2, <2>3, <1>6 DEF ArmCanary
<1>7. ASSUME NEW t \in Threads, StampCanary(t)
      PROVE  TypeOK'
  BY <1>7 DEF StampCanary, Guarded
<1>8. ASSUME NEW t \in Threads, NEW tb \in Tested, NEW r \in Pointers, BuildTable(t, tb, r)
      PROVE  TypeOK'
  BY <1>8 DEF BuildTable, Allocate, Leave, Locked, Recovers, Pointers
<1>9. ASSUME NEW t \in Threads, CodecReady(t)
      PROVE  TypeOK'
  BY <1>9 DEF CodecReady
<1>10. ASSUME NEW t \in Threads, ReadSum(t)
      PROVE  TypeOK'
  BY <1>10 DEF ReadSum
<1>11. ASSUME NEW t \in Threads, NEW r \in Pointers, MakeSum(t, r)
      PROVE  TypeOK'
  
  <2>1. bump' \in Live /\ r \in {"null", "first", "later"}
    BY <1>11, AllocateFacts DEF MakeSum
  <2>2. sum[t] \in Sums
    BY <1>11 DEF MakeSum, Shape
  <2>3. filled' \in [Sums -> BOOLEAN]
    <3>1. filled' = filled \/ filled' = [filled EXCEPT ![sum[t]] = sum[t] \notin InPlace]
      BY <1>11 DEF MakeSum
    <3> QED
      BY <3>1
  <2>4. twice' \subseteq Sums /\ tab' \in [Tables -> {"null", "first", "later", "stale"}]
    BY <2>1, <2>2, <1>11 DEF MakeSum
  <2>5. CASE r = "null"
    BY <2>1, <2>3, <2>4, <2>5, <1>11 DEF MakeSum, Leave, Locked
  <2>6. CASE r # "null"
    BY <2>1, <2>3, <2>4, <2>6, <1>11 DEF MakeSum
  <2> QED
    BY <2>5, <2>6
<1>12. ASSUME NEW t \in Threads, FillSum(t)
      PROVE  TypeOK'
  BY <1>12 DEF FillSum
<1>13. ASSUME NEW t \in Threads, Return(t)
      PROVE  TypeOK'
  BY <1>13 DEF Return, Leave, Locked
<1>14. ASSUME NEW t \in Threads, NEW r \in Pointers, OpenContext(t, r)
      PROVE  TypeOK'
  BY <1>14 DEF OpenContext, Allocate, Leave, Locked, Needs, Pointers
<1>15. ASSUME NEW t \in Threads, Finish(t)
      PROVE  TypeOK'
  BY <1>15 DEF Finish
<1>16. CASE AllocReset
  
  <2>1. tab' \in [Tables -> {"null", "first", "later", "stale"}]
    BY <1>16 DEF AllocReset
  <2>2. stamped' \in BOOLEAN
    BY <1>16 DEF AllocReset
  <2> QED
    BY <2>1, <2>2, <1>16 DEF AllocReset
<1>17. CASE FillFirstChunk
  BY <1>17 DEF FillFirstChunk
<1>18. ASSUME NEW t \in Threads, NEW r \in Pointers, Wrap(t, r)
      PROVE  TypeOK'
  BY <1>18, AllocateFacts DEF Wrap
<1>19. ASSUME NEW t \in Threads, NEW tb \in rest, NEW r \in Pointers, BuildBehind(t, tb, r)
      PROVE  TypeOK'
  BY <1>19 DEF BuildBehind, Unlatched, Tested, Allocate, Leave, Locked, Recovers
<1> QED
  BY <1>1, <1>2, <1>3, <1>4, <1>5, <1>6, <1>7, <1>8, <1>9, <1>10, <1>11, <1>12, <1>13, <1>14, <1>15, <1>16, <1>17,
     <1>18, <1>19 DEF Next, Step, Pointers

\* Every step keeps the steps of a call in their order.
LEMMA ShapeStep ==
    ASSUME IInv, Disciplined, [Next]_vars
    PROVE  Shape'
<1> USE RuntimeAssumption DEF IInv, TypeOK, Shape, WarmIsArmed, vars, guard, cell, sums, contexts, caller
<1>1. CASE UNCHANGED vars
  BY <1>1
<1>2. ASSUME NEW t \in Threads, NEW s \in Sums \cup {NoSum}, Lock(t, s)
      PROVE  Shape'
  BY <1>2 DEF Lock
<1>3. ASSUME NEW t \in Threads, NEW s \in Sums, CallBuilder(t, s)
      PROVE  Shape'
  BY <1>3 DEF CallBuilder
<1>4. ASSUME NEW t \in Threads, CheckCanary(t)
      PROVE  Shape'
  BY <1>4 DEF CheckCanary, Fires, Stranded, Guarded
<1>5. ASSUME NEW t \in Threads, DropTables(t)
      PROVE  Shape'
  BY <1>5 DEF DropTables
<1>6. ASSUME NEW t \in Threads, NEW r \in Pointers, ArmCanary(t, r)
      PROVE  Shape'
  BY <1>6 DEF ArmCanary, Allocate, Guarded
<1>7. ASSUME NEW t \in Threads, StampCanary(t)
      PROVE  Shape'
  BY <1>7 DEF StampCanary, Guarded
<1>8. ASSUME NEW t \in Threads, NEW tb \in Tested, NEW r \in Pointers, BuildTable(t, tb, r)
      PROVE  Shape'
  BY <1>8 DEF BuildTable, Allocate, Leave, Locked, Recovers
<1>9. ASSUME NEW t \in Threads, CodecReady(t)
      PROVE  Shape'
  BY <1>9 DEF CodecReady
<1>10. ASSUME NEW t \in Threads, ReadSum(t)
      PROVE  Shape'
  BY <1>10 DEF ReadSum
<1>11. ASSUME NEW t \in Threads, NEW r \in Pointers, MakeSum(t, r)
      PROVE  Shape'
  BY <1>11 DEF MakeSum, Allocate, Leave, Locked
<1>12. ASSUME NEW t \in Threads, FillSum(t)
      PROVE  Shape'
  BY <1>12 DEF FillSum
<1>13. ASSUME NEW t \in Threads, Return(t)
      PROVE  Shape'
  BY <1>13 DEF Return, Leave, Locked
<1>14. ASSUME NEW t \in Threads, NEW r \in Pointers, OpenContext(t, r)
      PROVE  Shape'
  BY <1>14 DEF OpenContext, Allocate, Leave, Locked, Needs
<1>15. ASSUME NEW t \in Threads, Finish(t)
      PROVE  Shape'
  BY <1>15 DEF Finish
<1>16. CASE AllocReset
  BY <1>16 DEF AllocReset
<1>17. CASE FillFirstChunk
  BY <1>17 DEF FillFirstChunk
<1>18. ASSUME NEW t \in Threads, NEW r \in Pointers, Wrap(t, r)
      PROVE  Shape'
  BY <1>18, AllocateFacts DEF Wrap
<1>19. ASSUME NEW t \in Threads, NEW tb \in rest, NEW r \in Pointers, BuildBehind(t, tb, r)
      PROVE  Shape'
  BY <1>19 DEF BuildBehind, Unlatched, Tested, Allocate, Leave, Locked, Recovers
<1> QED
  BY <1>1, <1>2, <1>3, <1>4, <1>5, <1>6, <1>7, <1>8, <1>9, <1>10, <1>11, <1>12, <1>13, <1>14, <1>15, <1>16, <1>17,
     <1>18, <1>19 DEF Next, Step, Pointers

\* Every step keeps the mutex with the thread that is inside.
LEMMA HeldStep ==
    ASSUME IInv, Disciplined, [Next]_vars
    PROVE  HeldWhileInside'
<1> USE RuntimeAssumption DEF IInv, TypeOK, Shape, HeldWhileInside, Locked, vars, guard, cell, sums, contexts, caller
<1>1. CASE UNCHANGED vars
  BY <1>1
<1>2. ASSUME NEW t \in Threads, NEW s \in Sums \cup {NoSum}, Lock(t, s)
      PROVE  HeldWhileInside'
  BY <1>2 DEF Lock
<1>3. ASSUME NEW t \in Threads, NEW s \in Sums, CallBuilder(t, s)
      PROVE  HeldWhileInside'
  BY <1>3 DEF CallBuilder
<1>4. ASSUME NEW t \in Threads, CheckCanary(t)
      PROVE  HeldWhileInside'
  BY <1>4 DEF CheckCanary, Fires, Stranded, Guarded
<1>5. ASSUME NEW t \in Threads, DropTables(t)
      PROVE  HeldWhileInside'
  BY <1>5 DEF DropTables
<1>6. ASSUME NEW t \in Threads, NEW r \in Pointers, ArmCanary(t, r)
      PROVE  HeldWhileInside'
  BY <1>6 DEF ArmCanary, Allocate, Guarded
<1>7. ASSUME NEW t \in Threads, StampCanary(t)
      PROVE  HeldWhileInside'
  BY <1>7 DEF StampCanary, Guarded
<1>8. ASSUME NEW t \in Threads, NEW tb \in Tested, NEW r \in Pointers, BuildTable(t, tb, r)
      PROVE  HeldWhileInside'
  BY <1>8 DEF BuildTable, Allocate, Leave, Locked, Recovers
<1>9. ASSUME NEW t \in Threads, CodecReady(t)
      PROVE  HeldWhileInside'
  BY <1>9 DEF CodecReady
<1>10. ASSUME NEW t \in Threads, ReadSum(t)
      PROVE  HeldWhileInside'
  BY <1>10 DEF ReadSum
<1>11. ASSUME NEW t \in Threads, NEW r \in Pointers, MakeSum(t, r)
      PROVE  HeldWhileInside'
  BY <1>11 DEF MakeSum, Allocate, Leave, Locked
<1>12. ASSUME NEW t \in Threads, FillSum(t)
      PROVE  HeldWhileInside'
  BY <1>12 DEF FillSum
<1>13. ASSUME NEW t \in Threads, Return(t)
      PROVE  HeldWhileInside'
  BY <1>13 DEF Return, Leave, Locked
<1>14. ASSUME NEW t \in Threads, NEW r \in Pointers, OpenContext(t, r)
      PROVE  HeldWhileInside'
  BY <1>14 DEF OpenContext, Allocate, Leave, Locked, Needs
<1>15. ASSUME NEW t \in Threads, Finish(t)
      PROVE  HeldWhileInside'
  BY <1>15 DEF Finish
<1>16. CASE AllocReset
  BY <1>16 DEF AllocReset
<1>17. CASE FillFirstChunk
  BY <1>17 DEF FillFirstChunk
<1>18. ASSUME NEW t \in Threads, NEW r \in Pointers, Wrap(t, r)
      PROVE  HeldWhileInside'
  BY <1>18, AllocateFacts DEF Wrap
<1>19. ASSUME NEW t \in Threads, NEW tb \in rest, NEW r \in Pointers, BuildBehind(t, tb, r)
      PROVE  HeldWhileInside'
  BY <1>19 DEF BuildBehind, Unlatched, Tested, Allocate, Leave, Locked, Recovers
<1> QED
  BY <1>1, <1>2, <1>3, <1>4, <1>5, <1>6, <1>7, <1>8, <1>9, <1>10, <1>11, <1>12, <1>13, <1>14, <1>15, <1>16, <1>17,
     <1>18, <1>19 DEF Next, Step, Pointers

\* Every step keeps a warm guard armed.
LEMMA WarmStep ==
    ASSUME IInv, Disciplined, [Next]_vars
    PROVE  WarmIsArmed'
<1> USE RuntimeAssumption DEF IInv, TypeOK, Shape, HeldWhileInside, Locked, WarmIsArmed, CanaryCovers, Null, Disciplined, vars, guard, cell, sums, contexts, caller
<1>1. CASE UNCHANGED vars
  BY <1>1
<1>2. ASSUME NEW t \in Threads, NEW s \in Sums \cup {NoSum}, Lock(t, s)
      PROVE  WarmIsArmed'
  BY <1>2 DEF Lock
<1>3. ASSUME NEW t \in Threads, NEW s \in Sums, CallBuilder(t, s)
      PROVE  WarmIsArmed'
  BY <1>3 DEF CallBuilder
<1>4. ASSUME NEW t \in Threads, CheckCanary(t)
      PROVE  WarmIsArmed'
  <2>1. CASE Fires
    BY <1>4, <2>1 DEF CheckCanary, Fires, Stranded
  <2>2. CASE ~Fires /\ canary = "null"
    BY <1>4, <2>2 DEF CheckCanary, Fires
  <2>3. CASE ~Fires /\ canary # "null" /\ stage[t] = "codec"
    BY <1>4, <2>3 DEF CheckCanary, Fires, Stranded, Guarded, Live
  <2>4. CASE ~Fires /\ canary # "null" /\ stage[t] # "codec"
    BY <1>4, <2>4 DEF CheckCanary, Fires, Stranded, Guarded, Live
  <2> QED
    BY <2>1, <2>2, <2>3, <2>4
<1>5. ASSUME NEW t \in Threads, DropTables(t)
      PROVE  WarmIsArmed'
  BY <1>5 DEF DropTables
<1>6. ASSUME NEW t \in Threads, NEW r \in Pointers, ArmCanary(t, r)
      PROVE  WarmIsArmed'
  <2>1. ~warm
    BY <1>6 DEF ArmCanary
  <2>2. CASE r = "null"
    BY <1>6, <2>1, <2>2 DEF ArmCanary, Guarded, Tables
  <2>3. CASE r # "null"
    BY <1>6, <2>1, <2>3 DEF ArmCanary
  <2> QED
    BY <2>2, <2>3
<1>7. ASSUME NEW t \in Threads, StampCanary(t)
      PROVE  WarmIsArmed'
  BY <1>7 DEF StampCanary, Guarded
<1>8. ASSUME NEW t \in Threads, NEW tb \in Tested, NEW r \in Pointers, BuildTable(t, tb, r)
      PROVE  WarmIsArmed'
  BY <1>8 DEF BuildTable, Allocate, Leave, Locked, Recovers
<1>9. ASSUME NEW t \in Threads, CodecReady(t)
      PROVE  WarmIsArmed'
  <2>1. PICK tb \in Codec : tab[tb] # "null"
    BY <1>9, SomeTested DEF CodecReady
  <2>2. warm \/ sum[t] = NoSum
    BY <1>9, <2>1 DEF CodecReady
  <2> QED
    BY <1>9, <2>2 DEF CodecReady
<1>10. ASSUME NEW t \in Threads, ReadSum(t)
      PROVE  WarmIsArmed'
  BY <1>10 DEF ReadSum
<1>11. ASSUME NEW t \in Threads, NEW r \in Pointers, MakeSum(t, r)
      PROVE  WarmIsArmed'
  BY <1>11 DEF MakeSum, Allocate, Leave, Locked
<1>12. ASSUME NEW t \in Threads, FillSum(t)
      PROVE  WarmIsArmed'
  BY <1>12 DEF FillSum
<1>13. ASSUME NEW t \in Threads, Return(t)
      PROVE  WarmIsArmed'
  BY <1>13 DEF Return, Leave, Locked
<1>14. ASSUME NEW t \in Threads, NEW r \in Pointers, OpenContext(t, r)
      PROVE  WarmIsArmed'
  BY <1>14 DEF OpenContext, Allocate, Leave, Locked, Needs
<1>15. ASSUME NEW t \in Threads, Finish(t)
      PROVE  WarmIsArmed'
  BY <1>15 DEF Finish
<1>16. CASE AllocReset
  BY <1>16 DEF AllocReset
<1>17. CASE FillFirstChunk
  BY <1>17 DEF FillFirstChunk
<1>18. ASSUME NEW t \in Threads, NEW r \in Pointers, Wrap(t, r)
      PROVE  WarmIsArmed'
  BY <1>18, AllocateFacts DEF Wrap
<1>19. ASSUME NEW t \in Threads, NEW tb \in rest, NEW r \in Pointers, BuildBehind(t, tb, r)
      PROVE  WarmIsArmed'
  BY <1>19 DEF BuildBehind, Unlatched, Tested, Allocate, Leave, Locked, Recovers
<1> QED
  BY <1>1, <1>2, <1>3, <1>4, <1>5, <1>6, <1>7, <1>8, <1>9, <1>10, <1>11, <1>12, <1>13, <1>14, <1>15, <1>16, <1>17,
     <1>18, <1>19 DEF Next, Step, Pointers

\* Every step keeps the tables covered by the canary.
LEMMA CanaryStep ==
    ASSUME IInv, Disciplined, [Next]_vars
    PROVE  CanaryCovers'
<1> USE RuntimeAssumption DEF IInv, TypeOK, Shape, HeldWhileInside, Locked, WarmIsArmed, CanaryCovers, InsideIsSafe, Null, NoStale, Tables, Live, vars, guard, cell, sums, contexts, caller
<1>1. CASE UNCHANGED vars
  BY <1>1
<1>2. ASSUME NEW t \in Threads, NEW s \in Sums \cup {NoSum}, Lock(t, s)
      PROVE  CanaryCovers'
  BY <1>2 DEF Lock
<1>3. ASSUME NEW t \in Threads, NEW s \in Sums, CallBuilder(t, s)
      PROVE  CanaryCovers'
  BY <1>3 DEF CallBuilder
<1>4. ASSUME NEW t \in Threads, CheckCanary(t)
      PROVE  CanaryCovers'
  BY <1>4 DEF CheckCanary, Fires, Stranded, Guarded
<1>5. ASSUME NEW t \in Threads, DropTables(t)
      PROVE  CanaryCovers'
  BY <1>5 DEF DropTables
<1>6. ASSUME NEW t \in Threads, NEW r \in Pointers, ArmCanary(t, r)
      PROVE  CanaryCovers'
  BY <1>6 DEF ArmCanary, Allocate, Guarded
<1>7. ASSUME NEW t \in Threads, StampCanary(t)
      PROVE  CanaryCovers'
  BY <1>7 DEF StampCanary, Guarded
<1>8. ASSUME NEW t \in Threads, NEW tb \in Tested, NEW r \in Pointers, BuildTable(t, tb, r)
      PROVE  CanaryCovers'
  BY <1>8 DEF BuildTable, Allocate, Leave, Locked, Recovers
<1>9. ASSUME NEW t \in Threads, CodecReady(t)
      PROVE  CanaryCovers'
  BY <1>9 DEF CodecReady
<1>10. ASSUME NEW t \in Threads, ReadSum(t)
      PROVE  CanaryCovers'
  BY <1>10 DEF ReadSum
<1>11. ASSUME NEW t \in Threads, NEW r \in Pointers, MakeSum(t, r)
      PROVE  CanaryCovers'
  BY <1>11 DEF MakeSum, Allocate, Leave, Locked
<1>12. ASSUME NEW t \in Threads, FillSum(t)
      PROVE  CanaryCovers'
  BY <1>12 DEF FillSum
<1>13. ASSUME NEW t \in Threads, Return(t)
      PROVE  CanaryCovers'
  BY <1>13 DEF Return, Leave, Locked
<1>14. ASSUME NEW t \in Threads, NEW r \in Pointers, OpenContext(t, r)
      PROVE  CanaryCovers'
  BY <1>14 DEF OpenContext, Allocate, Leave, Locked, Needs
<1>15. ASSUME NEW t \in Threads, Finish(t)
      PROVE  CanaryCovers'
  BY <1>15 DEF Finish
<1>16. CASE AllocReset
  BY <1>16 DEF AllocReset
<1>17. CASE FillFirstChunk
  BY <1>17 DEF FillFirstChunk
<1>18. ASSUME NEW t \in Threads, NEW r \in Pointers, Wrap(t, r)
      PROVE  CanaryCovers'
  BY <1>18, AllocateFacts DEF Wrap
<1>19. ASSUME NEW t \in Threads, NEW tb \in rest, NEW r \in Pointers, BuildBehind(t, tb, r)
      PROVE  CanaryCovers'
  BY <1>19 DEF BuildBehind, Unlatched, Tested, Allocate, Leave, Locked, Recovers
<1> QED
  BY <1>1, <1>2, <1>3, <1>4, <1>5, <1>6, <1>7, <1>8, <1>9, <1>10, <1>11, <1>12, <1>13, <1>14, <1>15, <1>16, <1>17,
     <1>18, <1>19 DEF Next, Step, Pointers

\* Every step leaves the tables of a call in progress alone.
LEMMA InsideStep ==
    ASSUME IInv, Disciplined, [Next]_vars
    PROVE  InsideIsSafe'
<1> USE RuntimeAssumption DEF IInv, TypeOK, Shape, HeldWhileInside, Locked, WarmIsArmed, CanaryCovers, InsideIsSafe, PublishedIsFilled, Null, NoStale, Tables, Live, Disciplined, vars, guard, cell, sums, contexts, caller
<1>1. CASE UNCHANGED vars
  BY <1>1
<1>2. ASSUME NEW t \in Threads, NEW s \in Sums \cup {NoSum}, Lock(t, s)
      PROVE  InsideIsSafe'
  BY <1>2 DEF Lock
<1>3. ASSUME NEW t \in Threads, NEW s \in Sums, CallBuilder(t, s)
      PROVE  InsideIsSafe'
  BY <1>3 DEF CallBuilder
<1>4. ASSUME NEW t \in Threads, CheckCanary(t)
      PROVE  InsideIsSafe'
  BY <1>4 DEF CheckCanary, Fires, Stranded, Guarded
<1>5. ASSUME NEW t \in Threads, DropTables(t)
      PROVE  InsideIsSafe'
  BY <1>5 DEF DropTables
<1>6. ASSUME NEW t \in Threads, NEW r \in Pointers, ArmCanary(t, r)
      PROVE  InsideIsSafe'
  BY <1>6 DEF ArmCanary, Allocate, Guarded
<1>7. ASSUME NEW t \in Threads, StampCanary(t)
      PROVE  InsideIsSafe'
  BY <1>7 DEF StampCanary, Guarded
<1>8. ASSUME NEW t \in Threads, NEW tb \in Tested, NEW r \in Pointers, BuildTable(t, tb, r)
      PROVE  InsideIsSafe'
  BY <1>8 DEF BuildTable, Allocate, Leave, Locked, Recovers
<1>9. ASSUME NEW t \in Threads, CodecReady(t)
      PROVE  InsideIsSafe'
  <2>1. \A tb \in Codec : tab[tb] # "null"
    BY <1>9, SomeTested DEF CodecReady, Paired, Tested
  <2> QED
    BY <1>9, <2>1 DEF CodecReady
<1>10. ASSUME NEW t \in Threads, ReadSum(t)
      PROVE  InsideIsSafe'
  BY <1>10 DEF ReadSum
<1>11. ASSUME NEW t \in Threads, NEW r \in Pointers, MakeSum(t, r)
      PROVE  InsideIsSafe'
  BY <1>11 DEF MakeSum, Allocate, Leave, Locked
<1>12. ASSUME NEW t \in Threads, FillSum(t)
      PROVE  InsideIsSafe'
  BY <1>12 DEF FillSum
<1>13. ASSUME NEW t \in Threads, Return(t)
      PROVE  InsideIsSafe'
  BY <1>13 DEF Return, Leave, Locked
<1>14. ASSUME NEW t \in Threads, NEW r \in Pointers, OpenContext(t, r)
      PROVE  InsideIsSafe'
  BY <1>14 DEF OpenContext, Allocate, Leave, Locked, Needs
<1>15. ASSUME NEW t \in Threads, Finish(t)
      PROVE  InsideIsSafe'
  BY <1>15 DEF Finish
<1>16. CASE AllocReset
  BY <1>16 DEF AllocReset
<1>17. CASE FillFirstChunk
  BY <1>17 DEF FillFirstChunk
<1>18. ASSUME NEW t \in Threads, NEW r \in Pointers, Wrap(t, r)
      PROVE  InsideIsSafe'
  BY <1>18, AllocateFacts DEF Wrap
<1>19. ASSUME NEW t \in Threads, NEW tb \in rest, NEW r \in Pointers, BuildBehind(t, tb, r)
      PROVE  InsideIsSafe'
  BY <1>19 DEF BuildBehind, Unlatched, Tested, Allocate, Leave, Locked, Recovers
<1> QED
  BY <1>1, <1>2, <1>3, <1>4, <1>5, <1>6, <1>7, <1>8, <1>9, <1>10, <1>11, <1>12, <1>13, <1>14, <1>15, <1>16, <1>17,
     <1>18, <1>19 DEF Next, Step, Pointers

\* Every step keeps a table that is published last filled.
LEMMA PublishedStep ==
    ASSUME IInv, Disciplined, [Next]_vars
    PROVE  PublishedIsFilled'
<1> USE RuntimeAssumption DEF IInv, TypeOK, Shape, PublishedIsFilled, Null, Tables, vars, guard, cell, sums, contexts, caller
<1>1. CASE UNCHANGED vars
  BY <1>1
<1>2. ASSUME NEW t \in Threads, NEW s \in Sums \cup {NoSum}, Lock(t, s)
      PROVE  PublishedIsFilled'
  BY <1>2 DEF Lock
<1>3. ASSUME NEW t \in Threads, NEW s \in Sums, CallBuilder(t, s)
      PROVE  PublishedIsFilled'
  BY <1>3 DEF CallBuilder
<1>4. ASSUME NEW t \in Threads, CheckCanary(t)
      PROVE  PublishedIsFilled'
  BY <1>4 DEF CheckCanary, Fires, Stranded, Guarded
<1>5. ASSUME NEW t \in Threads, DropTables(t)
      PROVE  PublishedIsFilled'
  BY <1>5 DEF DropTables
<1>6. ASSUME NEW t \in Threads, NEW r \in Pointers, ArmCanary(t, r)
      PROVE  PublishedIsFilled'
  BY <1>6 DEF ArmCanary, Allocate, Guarded
<1>7. ASSUME NEW t \in Threads, StampCanary(t)
      PROVE  PublishedIsFilled'
  BY <1>7 DEF StampCanary, Guarded
<1>8. ASSUME NEW t \in Threads, NEW tb \in Tested, NEW r \in Pointers, BuildTable(t, tb, r)
      PROVE  PublishedIsFilled'
  <2>1. \A s \in Sums : tab'[s] = tab[s] /\ filled'[s] = filled[s]
    BY <1>8, SomeTested DEF BuildTable, Tested
  <2> QED
    BY <2>1
<1>9. ASSUME NEW t \in Threads, CodecReady(t)
      PROVE  PublishedIsFilled'
  BY <1>9 DEF CodecReady
<1>10. ASSUME NEW t \in Threads, ReadSum(t)
      PROVE  PublishedIsFilled'
  BY <1>10 DEF ReadSum
<1>11. ASSUME NEW t \in Threads, NEW r \in Pointers, MakeSum(t, r)
      PROVE  PublishedIsFilled'
  <2> SUFFICES ASSUME NEW s \in Sums \ InPlace, tab'[s] # "null"
               PROVE  filled'[s] = TRUE
    OBVIOUS
  <2>1. CASE s = sum[t] /\ r # "null"
    <3>1. filled' = [filled EXCEPT ![s] = s \notin InPlace]
      BY <1>11, <2>1 DEF MakeSum
    <3>2. filled'[s] = (s \notin InPlace)
      BY <3>1 DEF TypeOK
    <3> QED
      BY <3>2
  <2>2. CASE s # sum[t] \/ r = "null"
    <3>1. tab'[s] = tab[s] /\ filled'[s] = filled[s]
      BY <1>11, <2>2 DEF MakeSum
    <3> QED
      BY <3>1
  <2> QED
    BY <2>1, <2>2
<1>12. ASSUME NEW t \in Threads, FillSum(t)
      PROVE  PublishedIsFilled'
  BY <1>12 DEF FillSum
<1>13. ASSUME NEW t \in Threads, Return(t)
      PROVE  PublishedIsFilled'
  BY <1>13 DEF Return, Leave, Locked
<1>14. ASSUME NEW t \in Threads, NEW r \in Pointers, OpenContext(t, r)
      PROVE  PublishedIsFilled'
  BY <1>14 DEF OpenContext, Allocate, Leave, Locked, Needs
<1>15. ASSUME NEW t \in Threads, Finish(t)
      PROVE  PublishedIsFilled'
  BY <1>15 DEF Finish
<1>16. CASE AllocReset
  BY <1>16 DEF AllocReset
<1>17. CASE FillFirstChunk
  BY <1>17 DEF FillFirstChunk
<1>18. ASSUME NEW t \in Threads, NEW r \in Pointers, Wrap(t, r)
      PROVE  PublishedIsFilled'
  BY <1>18, AllocateFacts DEF Wrap
<1>19. ASSUME NEW t \in Threads, NEW tb \in rest, NEW r \in Pointers, BuildBehind(t, tb, r)
      PROVE  PublishedIsFilled'
  <2>1. \A s \in Sums : tab'[s] = tab[s] /\ filled'[s] = filled[s]
    BY <1>19, SomeTested DEF BuildBehind, Unlatched, Tested
  <2> QED
    BY <2>1
<1> QED
  BY <1>1, <1>2, <1>3, <1>4, <1>5, <1>6, <1>7, <1>8, <1>9, <1>10, <1>11, <1>12, <1>13, <1>14, <1>15, <1>16, <1>17,
     <1>18, <1>19 DEF Next, Step, Pointers

\* Every step keeps the tables behind a tested pointer with it.
LEMMA PairedStep ==
    ASSUME IInv, Disciplined, [Next]_vars
    PROVE  Paired'
<1> USE RuntimeAssumption DEF IInv, TypeOK, Shape, HeldWhileInside, Locked, WarmIsArmed, Paired, Tested, Null, Tables, vars, guard, cell, sums, contexts, caller
<1>1. CASE UNCHANGED vars
  BY <1>1
<1>2. ASSUME NEW t \in Threads, NEW s \in Sums \cup {NoSum}, Lock(t, s)
      PROVE  Paired'
  BY <1>2 DEF Lock
<1>3. ASSUME NEW t \in Threads, NEW s \in Sums, CallBuilder(t, s)
      PROVE  Paired'
  BY <1>3 DEF CallBuilder
<1>4. ASSUME NEW t \in Threads, CheckCanary(t)
      PROVE  Paired'
  BY <1>4 DEF CheckCanary, Fires, Stranded, Guarded
<1>5. ASSUME NEW t \in Threads, DropTables(t)
      PROVE  Paired'
  BY <1>5 DEF DropTables
<1>6. ASSUME NEW t \in Threads, NEW r \in Pointers, ArmCanary(t, r)
      PROVE  Paired'
  BY <1>6 DEF ArmCanary, Allocate, Guarded
<1>7. ASSUME NEW t \in Threads, StampCanary(t)
      PROVE  Paired'
  BY <1>7 DEF StampCanary, Guarded
<1>8. ASSUME NEW t \in Threads, NEW tb \in Tested, NEW r \in Pointers, BuildTable(t, tb, r)
      PROVE  Paired'
  BY <1>8 DEF BuildTable, Allocate, Leave, Locked, Recovers
<1>9. ASSUME NEW t \in Threads, CodecReady(t)
      PROVE  Paired'
  BY <1>9 DEF CodecReady
<1>10. ASSUME NEW t \in Threads, ReadSum(t)
      PROVE  Paired'
  BY <1>10 DEF ReadSum
<1>11. ASSUME NEW t \in Threads, NEW r \in Pointers, MakeSum(t, r)
      PROVE  Paired'
  BY <1>11 DEF MakeSum, Allocate, Leave, Locked
<1>12. ASSUME NEW t \in Threads, FillSum(t)
      PROVE  Paired'
  BY <1>12 DEF FillSum
<1>13. ASSUME NEW t \in Threads, Return(t)
      PROVE  Paired'
  BY <1>13 DEF Return, Leave, Locked
<1>14. ASSUME NEW t \in Threads, NEW r \in Pointers, OpenContext(t, r)
      PROVE  Paired'
  BY <1>14 DEF OpenContext, Allocate, Leave, Locked, Needs
<1>15. ASSUME NEW t \in Threads, Finish(t)
      PROVE  Paired'
  BY <1>15 DEF Finish
<1>16. CASE AllocReset
  BY <1>16 DEF AllocReset
<1>17. CASE FillFirstChunk
  BY <1>17 DEF FillFirstChunk
<1>18. ASSUME NEW t \in Threads, NEW r \in Pointers, Wrap(t, r)
      PROVE  Paired'
  BY <1>18, AllocateFacts DEF Wrap
<1>19. ASSUME NEW t \in Threads, NEW tb \in rest, NEW r \in Pointers, BuildBehind(t, tb, r)
      PROVE  Paired'
  <2>1. tb \in DOMAIN Behind /\ Behind[tb] \in Tested /\ tb \in Tables /\ Behind[tb] \in Tables
    BY <1>19, SomeTested DEF BuildBehind
  <2>2. CASE r = "null"
    <3>1. rest' = {} /\ tab'[Behind[tb]] = "null" /\ \A b \in Tables : tab'[b] = tab[b] \/ tab'[b] = "null"
      BY <1>19, <2>1, <2>2 DEF BuildBehind, Unlatched
    <3>2. ASSUME NEW b \in DOMAIN Behind, tab'[Behind[b]] # "null"
          PROVE  tab'[b] # "null"
      <4>1. b # tb
        BY <3>1, <3>2
      <4>2. tab'[b] = tab[b] /\ tab'[Behind[b]] = tab[Behind[b]]
        BY <1>19, <2>1, <2>2, <3>1, <3>2, <4>1, SomeTested DEF BuildBehind, Unlatched
      <4>3. b \notin rest
        BY <1>19, <3>1, <3>2 DEF Paired, BuildBehind
      <4> QED
        BY <3>2, <4>2, <4>3
    <3> QED
      BY <3>1, <3>2
  <2>3. CASE r # "null"
    BY <1>19, <2>1, <2>3, SomeTested DEF BuildBehind, Tested
  <2> QED
    BY <2>2, <2>3
<1> QED
  BY <1>1, <1>2, <1>3, <1>4, <1>5, <1>6, <1>7, <1>8, <1>9, <1>10, <1>11, <1>12, <1>13, <1>14, <1>15, <1>16, <1>17,
     <1>18, <1>19 DEF Next, Step, Pointers

\* Every step keeps replaced tables those of the unlocked builders.
LEMMA TwiceStep ==
    ASSUME IInv, Disciplined, [Next]_vars
    PROVE  TwiceIsRaced'
<1> USE RuntimeAssumption DEF IInv, TypeOK, Shape, HeldWhileInside, Locked, TwiceIsRaced, Null, Tables, vars, guard, cell, sums, contexts, caller
<1>1. CASE UNCHANGED vars
  BY <1>1
<1>2. ASSUME NEW t \in Threads, NEW s \in Sums \cup {NoSum}, Lock(t, s)
      PROVE  TwiceIsRaced'
  BY <1>2 DEF Lock
<1>3. ASSUME NEW t \in Threads, NEW s \in Sums, CallBuilder(t, s)
      PROVE  TwiceIsRaced'
  BY <1>3 DEF CallBuilder
<1>4. ASSUME NEW t \in Threads, CheckCanary(t)
      PROVE  TwiceIsRaced'
  BY <1>4 DEF CheckCanary, Fires, Stranded, Guarded
<1>5. ASSUME NEW t \in Threads, DropTables(t)
      PROVE  TwiceIsRaced'
  BY <1>5 DEF DropTables
<1>6. ASSUME NEW t \in Threads, NEW r \in Pointers, ArmCanary(t, r)
      PROVE  TwiceIsRaced'
  BY <1>6 DEF ArmCanary, Allocate, Guarded
<1>7. ASSUME NEW t \in Threads, StampCanary(t)
      PROVE  TwiceIsRaced'
  BY <1>7 DEF StampCanary, Guarded
<1>8. ASSUME NEW t \in Threads, NEW tb \in Tested, NEW r \in Pointers, BuildTable(t, tb, r)
      PROVE  TwiceIsRaced'
  BY <1>8 DEF BuildTable, Allocate, Leave, Locked, Recovers
<1>9. ASSUME NEW t \in Threads, CodecReady(t)
      PROVE  TwiceIsRaced'
  BY <1>9 DEF CodecReady
<1>10. ASSUME NEW t \in Threads, ReadSum(t)
      PROVE  TwiceIsRaced'
  BY <1>10 DEF ReadSum
<1>11. ASSUME NEW t \in Threads, NEW r \in Pointers, MakeSum(t, r)
      PROVE  TwiceIsRaced'
  BY <1>11 DEF MakeSum, Allocate, Leave, Locked
<1>12. ASSUME NEW t \in Threads, FillSum(t)
      PROVE  TwiceIsRaced'
  BY <1>12 DEF FillSum
<1>13. ASSUME NEW t \in Threads, Return(t)
      PROVE  TwiceIsRaced'
  BY <1>13 DEF Return, Leave, Locked
<1>14. ASSUME NEW t \in Threads, NEW r \in Pointers, OpenContext(t, r)
      PROVE  TwiceIsRaced'
  BY <1>14 DEF OpenContext, Allocate, Leave, Locked, Needs
<1>15. ASSUME NEW t \in Threads, Finish(t)
      PROVE  TwiceIsRaced'
  BY <1>15 DEF Finish
<1>16. CASE AllocReset
  BY <1>16 DEF AllocReset
<1>17. CASE FillFirstChunk
  BY <1>17 DEF FillFirstChunk
<1>18. ASSUME NEW t \in Threads, NEW r \in Pointers, Wrap(t, r)
      PROVE  TwiceIsRaced'
  BY <1>18, AllocateFacts DEF Wrap
<1>19. ASSUME NEW t \in Threads, NEW tb \in rest, NEW r \in Pointers, BuildBehind(t, tb, r)
      PROVE  TwiceIsRaced'
  BY <1>19 DEF BuildBehind, Unlatched, Tested, Allocate, Leave, Locked, Recovers
<1> QED
  BY <1>1, <1>2, <1>3, <1>4, <1>5, <1>6, <1>7, <1>8, <1>9, <1>10, <1>11, <1>12, <1>13, <1>14, <1>15, <1>16, <1>17,
     <1>18, <1>19 DEF Next, Step, Pointers

-----------------------------------------------------------------------------
\* The library starts with no table, no canary and nobody inside.
LEMMA InitEstablishes ==
    ASSUME Init
    PROVE  IInv
<1> USE RuntimeAssumption DEF Init, Tables, Live
<1>1. TypeOK
  <2>1. filled \in [Sums -> BOOLEAN]
    BY Zenon
  <2>2. held \in [Threads -> SUBSET Tables]
    OBVIOUS
  <2> QED
    BY <2>1, <2>2 DEF TypeOK
<1>2. Shape
  BY DEF Shape
<1>3. HeldWhileInside
  BY DEF HeldWhileInside, Locked
<1>4. WarmIsArmed
  BY DEF WarmIsArmed
<1>5. CanaryCovers
  BY DEF CanaryCovers, Null
<1>6. InsideIsSafe
  BY DEF InsideIsSafe, Locked
<1>7. PublishedIsFilled
  BY DEF PublishedIsFilled, Null
<1>8. Paired
  BY DEF Paired, Null
<1>9. TwiceIsRaced
  BY DEF TwiceIsRaced
<1> QED
  BY <1>1, <1>2, <1>3, <1>4, <1>5, <1>6, <1>7, <1>8, <1>9 DEF IInv

\* The invariant is inductive, so every reachable state satisfies it.
THEOREM Inductive ==
    ASSUME Disciplined
    PROVE  Spec => []IInv
<1>1. Init => IInv
  BY InitEstablishes
<1>2. IInv /\ [Next]_vars => IInv'
  <2> SUFFICES ASSUME IInv, [Next]_vars PROVE IInv'
    OBVIOUS
  <2> QED
    BY TypeOKStep, ShapeStep, HeldStep, WarmStep, CanaryStep, InsideStep,
       PublishedStep, PairedStep, TwiceStep DEF IInv
<1> QED
  BY <1>1, <1>2, PTL DEF Spec

\* Every variable keeps its type, for any number of threads and tables.
THEOREM TypeCorrect ==
    ASSUME Disciplined
    PROVE  Spec => []TypeOK
<1>1. IInv => TypeOK
  BY DEF IInv
<1> QED
  BY <1>1, Inductive, PTL

\* The mutex belongs to the thread inside the library, on every failure path.
THEOREM LockDiscipline ==
    ASSUME Disciplined
    PROVE  Spec => []HeldWhileInside
<1>1. IInv => HeldWhileInside
  BY DEF IInv
<1> QED
  BY <1>1, Inductive, PTL

\* No reset leaves a dangling table pointer that the guard would overlook.
THEOREM ResetDetected ==
    ASSUME Disciplined
    PROVE  Spec => []ResetIsSeen
<1>1. IInv => ResetIsSeen
  <2> SUFFICES ASSUME IInv, NEW tb \in Tables, tab[tb] = "stale"
               PROVE  Fires
    BY DEF ResetIsSeen
  <2>1. CASE canary = "null"
    BY <2>1 DEF IInv, CanaryCovers, Null, Fires
  <2>2. CASE canary = "first"
    BY <2>2 DEF IInv, TypeOK, CanaryCovers, NoStale, Fires
  <2>3. CASE canary = "later"
    BY <2>3 DEF IInv, CanaryCovers
  <2> QED
    BY <2>1, <2>2, <2>3 DEF IInv, TypeOK
<1> QED
  BY <1>1, Inductive, PTL

\* No call and no open context reads through a pointer into memory that a
\* reset handed back to the program, nor through one that was never set, but for
\* a table that two builders made.
THEOREM TablesAreLive ==
    ASSUME Disciplined
    PROVE  Spec => []UsesLiveTables
<1>1. IInv => UsesLiveTables
  <2> SUFFICES ASSUME IInv, NEW t \in Threads
               PROVE  /\ pc[t] \in {"fill", "use"} => \A tb \in Needs(t) : Owned(tb)
                      /\ \A tb \in held[t] : Owned(tb)
    BY DEF UsesLiveTables
  <2> USE DEF IInv, TypeOK, InsideIsSafe, NoStale, Null, Owned, Tables, Live
  <2>1. ASSUME pc[t] \in {"fill", "use"}, NEW tb \in Needs(t)
        PROVE  Owned(tb)
    <3>1. tb \in Tables /\ NoStale
      BY <2>1 DEF Needs
    <3>2. CASE tb \in Codec /\ Locked(t)
      <4>1. stage[t] = "sum" \/ (pc[t] = "use" /\ Locked(t))
        BY <2>1, <3>2 DEF Shape, Locked
      <4> QED
        BY <3>1, <3>2, <4>1
    <3>3. CASE tb = sum[t] /\ tb \in Sums
      BY <2>1, <3>1, <3>3
    <3> QED
      BY <2>1, <3>2, <3>3 DEF Needs
  <2>2. ASSUME NEW tb \in held[t]
        PROVE  Owned(tb)
    <3>1. ctx[t] = "open"
      BY <2>2 DEF Shape
    <3> QED
      BY <2>2, <3>1
  <2> QED
    BY <2>1, <2>2
<1> QED
  BY <1>1, Inductive, PTL

\* A guard that drops the tables finds no other thread relying on them.
THEOREM DropIsExclusive ==
    ASSUME Disciplined
    PROVE  Spec => []DropExclusive
<1>1. IInv => DropExclusive
  <2> SUFFICES ASSUME IInv, NEW t \in Threads, NEW u \in Threads,
                      pc[t] = "drop", t # u, Using(u)
               PROVE  FALSE
    BY DEF DropExclusive
  <2>1. mtx = t /\ ~warm
    BY DEF IInv, Shape, HeldWhileInside, Locked, WarmIsArmed
  <2>2. ~Locked(u) /\ ctx[u] # "open"
    BY <2>1 DEF IInv, HeldWhileInside
  <2>3. pc[u] # "idle" /\ stage[u] = "direct"
    BY <2>2 DEF IInv, TypeOK, Shape, Using, Locked
  <2> QED
    BY <2>1, <2>3 DEF IInv, WarmIsArmed
<1> QED
  BY <1>1, Inductive, PTL

\* No call and no open context computes with a half-filled checksum table, but
\* for one that two builders made; and that takes an in-place builder called
\* without the lock.
THEOREM TablesAreFinished ==
    ASSUME Disciplined
    PROVE  Spec => []UsesFinishedTables
<1>1. IInv => UsesFinishedTables
  <2> SUFFICES ASSUME IInv
               PROVE  UsesFinishedTables
    OBVIOUS
  <2>1. ASSUME NEW t \in Threads, pc[t] = "use", NEW s \in Needs(t) \cap Sums
        PROVE  filled[s] \/ s \in twice
    <3>1. s = sum[t] /\ s \in Sums
      BY <2>1, RuntimeAssumption DEF Needs
    <3> QED
      BY <2>1, <3>1 DEF IInv, InsideIsSafe
  <2>2. ASSUME NEW t \in Threads, NEW s \in held[t] \cap Sums
        PROVE  filled[s] \/ s \in twice
    BY <2>2 DEF IInv, InsideIsSafe
  <2>3. twice \subseteq InPlace \cap DirectSums
    BY DEF IInv, TwiceIsRaced
  <2> QED
    BY <2>1, <2>2, <2>3 DEF UsesFinishedTables
<1> QED
  BY <1>1, Inductive, PTL

=============================================================================
