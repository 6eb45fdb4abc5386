------------------------- MODULE QueryEngine_proofs -------------------------
(***************************************************************************)
(* Theorems about QueryEngine, for any finite set of threads, any number   *)
(* of slots, any cursor names and all faults.  The inductive invariant     *)
(* IInv joins TypeOK and the properties with what they rest on:            *)
(*                                                                         *)
(*   Locked    who holds _instance_lock, and that the semaphore of a build *)
(*             that is under way is full and is the one in _query_slots    *)
(*   Unbuilt   before there is an instance nobody has a slot or asks for   *)
(*             one; once there is one, there is a semaphore                *)
(*   Owned     a query has its cursor to itself                            *)
(*   Watched   what has been interrupted or is going to be has its flag    *)
(***************************************************************************)
EXTENDS QueryEngine, FiniteSetTheorems, TLAPS

Opened == {"start", "execute", "running", "except", "close", "cancel"}

Locked ==
  /\ \A t \in Threads : lock = t <=> pc[t] \in {"test", "build"}
  /\ \A t \in Threads :
       pc[t] = "build" => ~ instance /\ query_slots = t /\ permits[t] = Slots

Unbuilt ==
  /\ instance => query_slots # None
  /\ ~ instance =>
       /\ lost = 0
       /\ \A t \in Threads : pc[t] \notin {"acquire"} \cup Holding

Owned ==
  /\ \A t \in Threads : cur[t] # None <=> pc[t] \in Opened
  /\ \A t, u \in Threads : cur[t] = cur[u] /\ cur[t] # None => t = u

Watched ==
  /\ callback \subseteq fired
  /\ InterruptsOnlyExpired
  /\ \A t \in Threads :
       pc[t] \notin {"except", "close", "cancel", "release", "idle"}
         => raised[t] = "nothing"
  /\ \A t \in Threads :
       raised[t] = "interrupt" /\ pc[t] = "except" => cur[t] \in fired
  /\ InterruptIsTimeout

IInv ==
  /\ TypeOK
  /\ Locked
  /\ Unbuilt
  /\ SlotsConserved
  /\ Owned
  /\ Watched

(***************************************************************************)
(* Counting the holders.                                                   *)
(***************************************************************************)
\* The set of threads that hold a slot is finite, so that it can be counted.
LEMMA HoldersFinite == IsFiniteSet(Holders) /\ Cardinality(Holders) \in Nat
BY QueryAssumption, FS_Subset, FS_CardinalityType DEF Holders

\* A step that leaves the slots alone conserves them.
LEMMA SlotsUntouched ==
  ASSUME SlotsConserved, UNCHANGED <<instance, query_slots, permits, took, lost>>
  PROVE  SlotsConserved'
<1>1. Holders' = Holders
  BY DEF Holders
<1> QED BY <1>1 DEF SlotsConserved

(***************************************************************************)
(* The steps.                                                              *)
(***************************************************************************)
\* The initial state satisfies every part of the invariant.
LEMMA InitInv == Init => IInv
<1> SUFFICES ASSUME Init PROVE IInv
  OBVIOUS
<1> USE QueryAssumption DEF Init
<1>1. TypeOK
  <2>1. 0 \in 0 .. Slots
    OBVIOUS
  <2>2. pc \in [Threads -> Labels] /\ \A t \in Threads : pc[t] \notin Holding
    BY DEF Labels, Holding
  <2>3. permits \in [Threads -> 0 .. Slots] /\ lost \in 0 .. Slots
    BY <2>1
  <2> QED BY <2>2, <2>3 DEF TypeOK
<1>2. Locked /\ Unbuilt /\ Owned
  BY DEF Locked, Unbuilt, Holding, Owned, Opened
<1>3. SlotsConserved
  BY DEF SlotsConserved
<1>4. Watched
  BY DEF Watched, InterruptsOnlyExpired, InterruptIsTimeout
<1> QED BY <1>1, <1>2, <1>3, <1>4 DEF IInv

\* _get_instance: the lock lets one build at a time through, and a semaphore is
\* replaced only while nobody can have taken a slot of it.
LEMMA InstanceStep ==
  ASSUME IInv, NEW t \in Threads,
         \/ ReadInstance(t) \/ Lock(t) \/ FoundInstance(t) \/ MakeSlots(t)
         \/ Build(t) \/ BuildFails(t)
  PROVE  IInv'
<1> USE QueryAssumption
    DEF IInv, TypeOK, Labels, Holding, Locked, Unbuilt, Owned, Opened, Watched,
        InterruptsOnlyExpired, InterruptIsTimeout, Goto, watchdogVars, engineVars
<1>1. CASE ReadInstance(t)
  <2>1. SlotsConserved'
    BY <1>1, SlotsUntouched DEF ReadInstance
  <2> QED BY <1>1, <2>1 DEF ReadInstance
<1>2. CASE Lock(t)
  <2>1. SlotsConserved'
    BY <1>2, SlotsUntouched DEF Lock
  <2> QED BY <1>2, <2>1 DEF Lock
<1>3. CASE FoundInstance(t)
  <2>1. SlotsConserved'
    BY <1>3, SlotsUntouched DEF FoundInstance
  <2> QED BY <1>3, <2>1 DEF FoundInstance
<1>4. CASE MakeSlots(t)
  <2>1. SlotsConserved'
    BY <1>4 DEF MakeSlots, SlotsConserved
  <2> QED BY <1>4, <2>1 DEF MakeSlots
<1>5. CASE Build(t)
  <2>1. Holders' = {} /\ Cardinality(Holders') = 0
    BY <1>5, FS_EmptySet DEF Build, Holders
  <2>2. SlotsConserved'
    BY <1>5, <2>1 DEF Build, SlotsConserved, Holders
  <2> QED BY <1>5, <2>2 DEF Build
<1>6. CASE BuildFails(t)
  <2>1. SlotsConserved'
    BY <1>6, SlotsUntouched DEF BuildFails
  <2> QED BY <1>6, <2>1 DEF BuildFails
<1> QED BY <1>1, <1>2, <1>3, <1>4, <1>5, <1>6

\* query_features takes a slot, gives it back or loses it.
LEMMA SlotStep ==
  ASSUME IInv, NEW t \in Threads, Acquire(t) \/ CursorFails(t) \/ Release(t)
  PROVE  IInv'
<1> USE QueryAssumption
    DEF IInv, TypeOK, Labels, Holding, Locked, Unbuilt, Owned, Opened, Watched,
        InterruptsOnlyExpired, InterruptIsTimeout, Goto, watchdogVars, engineVars
<1>0. instance /\ query_slots \in Threads
  BY DEF Acquire, CursorFails, Release
<1>1. CASE Acquire(t)
  <2>1. t \notin Holders /\ Holders' = Holders \cup {t}
    BY <1>0, <1>1 DEF Acquire, Holders
  <2>2. Cardinality(Holders') = Cardinality(Holders) + 1
    BY <2>1, HoldersFinite, FS_AddElement
  <2>3. SlotsConserved'
    BY <1>0, <1>1, <2>2, HoldersFinite DEF Acquire, SlotsConserved, Holders
  <2> QED BY <1>0, <1>1, <2>3 DEF Acquire
<1>2. CASE CursorFails(t)
  <2>1. t \in Holders /\ Holders' = Holders \ {t}
    BY <1>2 DEF CursorFails, Holders
  <2>2. Cardinality(Holders') = Cardinality(Holders) - 1 /\ Cardinality(Holders') \in Nat
    BY <2>1, HoldersFinite, FS_RemoveElement, FS_CardinalityType
  <2>3. permits[query_slots] + Cardinality(Holders) + lost = Slots
    BY <1>0 DEF SlotsConserved, Holders
  <2>4. SlotsConserved'
    BY <1>0, <1>2, <2>2, HoldersFinite DEF CursorFails, SlotsConserved, Holders
  <2>5. lost' \in 0 .. Slots
    BY <1>0, <1>2, <2>2, <2>3, HoldersFinite DEF CursorFails
  <2> QED BY <1>0, <1>2, <2>4, <2>5 DEF CursorFails
<1>3. CASE Release(t)
  <2>1. t \in Holders /\ Holders' = Holders \ {t}
    BY <1>3 DEF Release, Holders
  <2>2. Cardinality(Holders') = Cardinality(Holders) - 1 /\ Cardinality(Holders') \in Nat
    BY <2>1, HoldersFinite, FS_RemoveElement, FS_CardinalityType
  <2>3. permits[query_slots] + Cardinality(Holders) + lost = Slots
    BY <1>0 DEF SlotsConserved, Holders
  <2>4. SlotsConserved'
    BY <1>0, <1>3, <2>2, HoldersFinite DEF Release, SlotsConserved, Holders
  <2>5. permits' \in [Threads -> 0 .. Slots]
    BY <1>0, <1>3, <2>2, <2>3, HoldersFinite DEF Release
  <2> QED BY <1>0, <1>3, <2>4, <2>5 DEF Release
<1> QED BY <1>1, <1>2, <1>3

\* From the cursor to the two finally blocks: all that a query does to the
\* watchdog concerns its own cursor.
LEMMA CursorStep ==
  ASSUME IInv, NEW t \in Threads,
         \/ Call(t) \/ OpenCursor(t) \/ StartTimer(t) \/ StartFails(t) \/ Execute(t)
         \/ QueryEnds(t) \/ QueryFails(t) \/ QueryInterrupted(t) \/ Except(t)
         \/ CloseCursor(t) \/ CancelTimer(t)
  PROVE  IInv'
<1>0. SlotsConserved'
  BY SlotsUntouched
     DEF IInv, engineVars, Call, OpenCursor, StartTimer, StartFails, Execute, QueryEnds,
         QueryFails, QueryInterrupted, Except, CloseCursor, CancelTimer
<1> USE <1>0, QueryAssumption
    DEF IInv, TypeOK, Labels, Holding, Locked, Unbuilt, Owned, Opened, Watched,
        InterruptsOnlyExpired, InterruptIsTimeout, Goto, watchdogVars, engineVars
<1>1. CASE Call(t)
  BY <1>1 DEF Call
<1>2. CASE OpenCursor(t)
  BY <1>2 DEF OpenCursor, InUse
<1>3. CASE StartTimer(t)
  BY <1>3 DEF StartTimer
<1>4. CASE Execute(t)
  BY <1>4 DEF Execute
<1>5. CASE QueryEnds(t)
  BY <1>5 DEF QueryEnds
<1>6. CASE QueryFails(t)
  BY <1>6 DEF QueryFails
<1>7. CASE QueryInterrupted(t)
  BY <1>7 DEF QueryInterrupted
<1>8. CASE Except(t)
  BY <1>8 DEF Except
<1>9. CASE CloseCursor(t)
  BY <1>9 DEF CloseCursor
<1>10. CASE CancelTimer(t)
  BY <1>10 DEF CancelTimer
<1>11. CASE StartFails(t)
  BY <1>11 DEF StartFails
<1> QED BY <1>1, <1>2, <1>3, <1>4, <1>5, <1>6, <1>7, <1>8, <1>9, <1>10, <1>11

\* The timer thread sets the flag before it interrupts.
LEMMA WatchdogStep ==
  ASSUME IInv, NEW c \in Cursors, TimerStep(c)
  PROVE  IInv'
<1>0. SlotsConserved'
  BY SlotsUntouched DEF IInv, TimerStep, Fire, Interrupt, engineVars
<1> USE <1>0
    DEF IInv, TypeOK, Locked, Unbuilt, Owned, Watched, InterruptsOnlyExpired,
        InterruptIsTimeout, engineVars
<1>1. CASE Fire(c)
  BY <1>1 DEF Fire
<1>2. CASE Interrupt(c)
  BY <1>2 DEF Interrupt
<1> QED BY <1>1, <1>2 DEF TimerStep

\* Every step keeps the invariant.
LEMMA NextInv == IInv /\ [Next]_vars => IInv'
<1> SUFFICES ASSUME IInv, [Next]_vars PROVE IInv'
  OBVIOUS
<1>1. CASE UNCHANGED vars
  <2>1. SlotsConserved'
    BY <1>1, SlotsUntouched DEF vars, engineVars, IInv
  <2> QED
    BY <1>1, <2>1
    DEF vars, engineVars, watchdogVars, IInv, TypeOK, Locked, Unbuilt, Owned, Watched,
        InterruptsOnlyExpired, InterruptIsTimeout
<1>2. ASSUME NEW t \in Threads, Call(t) \/ Step(t) \/ QueryStep(t) PROVE IInv'
  BY <1>2, InstanceStep, SlotStep, CursorStep DEF Step, QueryStep
<1>3. ASSUME NEW c \in Cursors, TimerStep(c) PROVE IInv'
  BY <1>3, WatchdogStep
<1> QED BY <1>1, <1>2, <1>3 DEF Next

(***************************************************************************)
(* The theorems.                                                           *)
(***************************************************************************)
\* The inductive invariant holds of every behaviour of query_features.
THEOREM Invariance == Spec => []IInv
BY InitInv, NextInv, PTL DEF Spec

\* Types: a thread has a slot exactly from Acquire to Release, and no semaphore
\* ever has more permits than it was made with.
THEOREM TypeCorrect == Spec => []TypeOK
<1>1. IInv => TypeOK
  BY DEF IInv
<1> QED BY <1>1, Invariance, PTL

\* The two finally blocks: every slot is free, held or lost for want of a cursor.
THEOREM SlotsAreConserved == Spec => []SlotsConserved
<1>1. IInv => SlotsConserved
  BY DEF IInv
<1> QED BY <1>1, Invariance, PTL

\* DUCKDB_POOL_SIZE bounds the queries, whatever fails while the instance is built.
THEOREM ConcurrencyIsBounded == Spec => []BoundedConcurrency
<1>1. IInv => BoundedConcurrency
  <2> SUFFICES ASSUME IInv PROVE BoundedConcurrency
    OBVIOUS
  <2> DEFINE Querying == {t \in Threads : cur[t] # None}
  <2>1. Querying \subseteq Holders
    BY DEF IInv, TypeOK, Owned, Opened, Holding, Holders
  <2>2. Cardinality(Querying) \in Nat /\ Cardinality(Querying) <= Cardinality(Holders)
    BY <2>1, HoldersFinite, FS_Subset, FS_CardinalityType
  <2>3. CASE instance
    <3>1. permits[query_slots] \in Nat /\ lost \in Nat
      BY <2>3, QueryAssumption DEF IInv, TypeOK, Unbuilt
    <3>2. permits[query_slots] + Cardinality(Holders) + lost = Slots
      BY <2>3 DEF IInv, SlotsConserved, Holders
    <3> QED BY <2>2, <3>1, <3>2, HoldersFinite, QueryAssumption DEF BoundedConcurrency
  <2>4. CASE ~ instance
    <3>1. Querying = {}
      BY <2>4 DEF IInv, Unbuilt, Owned, Opened, Holding
    <3> QED BY <3>1, FS_EmptySet, QueryAssumption DEF BoundedConcurrency
  <2> QED BY <2>3, <2>4
<1> QED BY <1>1, Invariance, PTL

\* cur.interrupt(): only a query whose own timer has fired is interrupted.
THEOREM InterruptsHitTheExpired == Spec => []InterruptsOnlyExpired
<1>1. IInv => InterruptsOnlyExpired
  BY DEF IInv, Watched
<1> QED BY <1>1, Invariance, PTL

\* except duckdb.Error: a query that was interrupted is a timeout to the handler.
THEOREM InterruptsAreTimeouts == Spec => []InterruptIsTimeout
<1>1. IInv => InterruptIsTimeout
  BY DEF IInv, Watched
<1> QED BY <1>1, Invariance, PTL

\* _instance_lock and the slots never keep all threads waiting for one another:
\* who holds the lock waits for nothing, and neither does who holds a slot.
THEOREM EngineKeepsMoving == Spec => []EngineMoves
<1>1. ASSUME IInv, lost < Slots, NEW t \in Threads, pc[t] # "idle", Waits(t)
      PROVE  \E u \in Threads : pc[u] # "idle" /\ ~ Waits(u)
  <2>1. CASE pc[t] = "lock" /\ lock # None
    <3>1. lock \in Threads /\ pc[lock] \in {"test", "build"}
      BY <1>1, <2>1 DEF IInv, TypeOK, Locked
    <3> QED BY <3>1 DEF Waits
  <2>2. CASE pc[t] = "acquire" /\ permits[query_slots] = 0
    <3>1. instance
      BY <1>1, <2>2 DEF IInv, Unbuilt
    <3>2. Cardinality(Holders) + lost = Slots
      BY <1>1, <2>2, <3>1, HoldersFinite DEF IInv, SlotsConserved, TypeOK
    <3>3. Holders # {}
      BY <1>1, <3>2, FS_EmptySet, QueryAssumption DEF IInv, TypeOK
    <3>4. PICK u \in Threads : pc[u] \in Holding
      BY <1>1, <3>3 DEF IInv, TypeOK, Holders
    <3> QED BY <3>4 DEF Holding, Waits
  <2> QED BY <1>1, <2>1, <2>2 DEF Waits
<1>2. IInv => EngineMoves
  BY <1>1 DEF EngineMoves
<1> QED BY <1>2, Invariance, PTL

(***************************************************************************)
(* query_features implements SlotPool: semaphore.acquire is Take, release  *)
(* is Give, a cursor that cannot be opened is Lose, and no other step is   *)
(* visible, although one of them makes the semaphore.                      *)
(***************************************************************************)
\* Before there is an instance all slots are free.
LEMMA RefinedInit == Init => Pool!Init
BY DEF Init, Pool!Init, free, Holders

\* A step that leaves the slots alone is not visible.
LEMMA Invisible ==
  ASSUME UNCHANGED <<instance, query_slots, permits, took, lost>>
  PROVE  UNCHANGED Pool!poolVars
BY DEF Pool!poolVars, free, Holders

\* Making a semaphore, and publishing the instance that goes with it, changes
\* nothing: the new semaphore is full.
LEMMA BuildingInvisible ==
  ASSUME IInv, NEW t \in Threads, MakeSlots(t) \/ Build(t)
  PROVE  UNCHANGED Pool!poolVars
<1>1. ~ instance /\ took' = took /\ lost' = lost
  BY DEF IInv, Locked, MakeSlots, Build
<1>2. free = Slots /\ Holders' = Holders
  BY <1>1 DEF free, Holders
<1>3. CASE MakeSlots(t)
  BY <1>1, <1>2, <1>3 DEF MakeSlots, free, Pool!poolVars
<1>4. CASE Build(t)
  <2>1. query_slots' = t /\ permits'[t] = Slots
    BY <1>4 DEF IInv, Locked, Build
  <2> QED BY <1>1, <1>2, <1>4, <2>1 DEF Build, free, Pool!poolVars
<1> QED BY <1>3, <1>4

\* A slot is taken from the pool, given back to it or lost.
LEMMA VisibleStep ==
  ASSUME IInv, NEW t \in Threads, Acquire(t) \/ CursorFails(t) \/ Release(t)
  PROVE  Pool!Next
<1>1. instance /\ instance' = instance /\ query_slots \in Threads /\ query_slots' = query_slots
  BY DEF IInv, TypeOK, Unbuilt, Holding, Acquire, CursorFails, Release
<1>2. permits \in [Threads -> 0 .. Slots] /\ free = permits[query_slots]
      /\ free' = permits'[query_slots]
  BY <1>1 DEF IInv, TypeOK, free
<1>3. took \in [Threads -> Threads \cup {None}] /\ (t \in Holders <=> pc[t] \in Holding)
  BY DEF IInv, TypeOK, Holders
<1>4. CASE Acquire(t)
  <2>1. t \notin Holders /\ Holders' = Holders \cup {t}
    BY <1>1, <1>3, <1>4, QueryAssumption DEF Acquire, Holding, Holders
  <2> QED BY <1>1, <1>2, <1>4, <2>1 DEF Acquire, Pool!Next, Pool!Take
<1>5. CASE CursorFails(t)
  <2>1. t \in Holders /\ Holders' = Holders \ {t}
    BY <1>3, <1>5 DEF CursorFails, Holding, Holders
  <2> QED BY <1>1, <1>2, <1>5, <2>1 DEF CursorFails, Pool!Next, Pool!Lose
<1>6. CASE Release(t)
  <2>1. t \in Holders /\ Holders' = Holders \ {t}
    BY <1>3, <1>6 DEF Release, Holding, Holders
  <2>2. took[t] = query_slots
    BY <1>1, <2>1 DEF IInv, SlotsConserved
  <2> QED BY <1>1, <1>2, <1>6, <2>1, <2>2 DEF Release, Pool!Next, Pool!Give
<1> QED BY <1>4, <1>5, <1>6

\* Every step of query_features is a step of SlotPool or invisible to it.
LEMMA RefinedStep == IInv /\ [Next]_vars => [Pool!Next]_(Pool!poolVars)
<1> SUFFICES ASSUME IInv, [Next]_vars PROVE [Pool!Next]_(Pool!poolVars)
  OBVIOUS
<1>1. CASE UNCHANGED vars
  BY <1>1, Invisible DEF vars, engineVars
<1>2. ASSUME NEW c \in Cursors, TimerStep(c) PROVE UNCHANGED Pool!poolVars
  BY <1>2, Invisible DEF TimerStep, Fire, Interrupt, engineVars
<1>3. ASSUME NEW t \in Threads, Call(t) \/ QueryStep(t) PROVE UNCHANGED Pool!poolVars
  BY <1>3, Invisible DEF Call, QueryStep, QueryEnds, QueryFails, engineVars
<1>4. ASSUME NEW t \in Threads, Step(t) PROVE [Pool!Next]_(Pool!poolVars)
  <2>1. CASE MakeSlots(t) \/ Build(t)
    BY <2>1, BuildingInvisible
  <2>2. CASE Acquire(t) \/ CursorFails(t) \/ Release(t)
    BY <2>2, VisibleStep
  <2>3. CASE BuildFails(t)
    <3>1. ~ instance /\ instance' = instance /\ took' = took /\ lost' = lost
      BY <2>3 DEF IInv, Locked, BuildFails
    <3> QED BY <3>1 DEF free, Holders, Pool!poolVars
  <2>4. CASE ~ (MakeSlots(t) \/ Build(t) \/ BuildFails(t)
                  \/ Acquire(t) \/ CursorFails(t) \/ Release(t))
    BY <1>4, <2>4, Invisible
       DEF Step, ReadInstance, Lock, FoundInstance, OpenCursor, StartTimer, StartFails,
           Execute, QueryInterrupted, Except, CloseCursor, CancelTimer, engineVars
  <2> QED BY <2>1, <2>2, <2>3, <2>4
<1> QED BY <1>1, <1>2, <1>3, <1>4 DEF Next

\* query_features keeps the promise of SlotPool, for any number of threads and
\* slots and although the instance is built late and a build may fail.
THEOREM Refinement == Spec => ImplementsSlotPool
<1>1. Spec => Pool!Spec
  BY RefinedInit, RefinedStep, Invariance, PTL DEF Spec, Pool!Spec
<1> QED BY <1>1 DEF ImplementsSlotPool
=============================================================================
