---------------------- MODULE RequestCoalescer_proofs ----------------------
(***************************************************************************)
(* Theorems about RequestCoalescer, for any number of threads and keys and *)
(* any cache size.  The inductive invariant IInv joins TypeOK and three of *)
(* the properties, SingleFlight, ErrorHasLeader and NoLostWakeup, with     *)
(* what they and the others rest on:                                       *)
(*                                                                         *)
(*   Roles       where a thread stands decides what it is: a leader, a     *)
(*               follower or neither                                       *)
(*   Carried     when a thread holds bytes                                 *)
(*   Whole       no torn tile gets out: what a thread renames is what it   *)
(*               wrote (no other thread writes that key: SingleFlight)     *)
(*   Published   with a disk that works, a leader that is through with put *)
(*               has left its tile in a file                               *)
(*   Recent      the ages of the memory layer are a recency order without  *)
(*               gaps, and what is held has bytes                          *)
(*   Remembered  where the memory layer has room for all tiles, a leader   *)
(*               that has put its tile has left it there                   *)
(*                                                                         *)
(* Each part is preserved by a lemma of its own.                           *)
(***************************************************************************)
EXTENDS RequestCoalescer, FiniteSetTheorems, TLAPS

Led == Leading \cup Finishing
Looking == {"get", "read", "warm", "got"}

Roles ==
  /\ \A t \in Threads : lead[t] = t <=> pc[t] \in Led
  /\ \A t \in Threads : pc[t] = "idle" => lead[t] = None
  /\ \A t \in Threads : pc[t] \in {"wait", "recompute"} => lead[t] # None
  /\ \A t \in Threads :
       lead[t] # None /\ lead[t] # t /\ pc[t] # "wait" => woke[t] # "unset"
  /\ \A t \in Threads : woke[t] # "unset" => lead[t] # None /\ lead[t] # t

Carried ==
  /\ \A t \in Threads :
       pc[t] \in {"idle", "get", "read", "compute", "wait", "recompute"}
         => data[t] = None
  /\ \A t \in Threads :
       pc[t] \in {"warm", "put", "open", "write", "rename"} => data[t] # None

Whole ==
  /\ NoTornTile
  /\ \A t \in Threads : pc[t] = "rename" => tmp[KeyOf(t)] = data[t]

Published ==
  HasDisk /\ ~ IOFaults =>
    \A t \in Threads :
      /\ pc[t] \in {"stored", "set", "clear"} /\ data[t] # None
           => file[KeyOf(t)] # None
      /\ woke[t] = "ok" =>
           /\ file[KeyOf(t)] # None
           /\ pc[t] \in {"wait"} \cup Looking
           /\ pc[t] = "got" => data[t] # None

Recent ==
  /\ RecencyOrder(age)
  /\ \A k \in Keys : mem[k] # None <=> Holds(age, k)

Remembered ==
  Roomy =>
    \A t \in Threads :
      /\ pc[t] \in {"open", "write", "rename", "stored", "set", "clear"} /\ data[t] # None
           => mem[KeyOf(t)] # None
      /\ woke[t] = "ok" =>
           /\ mem[KeyOf(t)] # None
           /\ pc[t] \in {"wait", "get", "got"}
           /\ pc[t] = "got" => data[t] # None

IInv ==
  /\ TypeOK
  /\ Roles
  /\ Carried
  /\ SingleFlight
  /\ ErrorHasLeader
  /\ NoLostWakeup
  /\ Whole
  /\ Published
  /\ Recent
  /\ Remembered

\* The recency order of the memory layer stays a recency order.
LEMMA UseType ==
  ASSUME NEW a \in [Keys -> Ages], NEW k \in Keys
  PROVE  Use(a, k) \in [Keys -> Ages]
BY LRUAssumption DEF Use, Ages

\* get and an assignment keep the recency order: the entry that was used comes
\* first and those before it move back by one.
LEMMA UseKeepsOrder ==
  ASSUME NEW a \in [Keys -> Ages], RecencyOrder(a), NEW k \in Keys
  PROVE  RecencyOrder(Use(a, k))
<1> DEFINE b == Use(a, k)
<1> USE LRUAssumption DEF Ages, Holds
<1>1. /\ b[k] = 0
      /\ \A j \in Keys \ {k} : b[j] = IF a[j] < a[k] THEN a[j] + 1 ELSE a[j]
  BY DEF Use
<1>2. b \in [Keys -> Ages]
  BY UseType
<1> HIDE DEF b
<1>3. ASSUME NEW i \in Keys, NEW j \in Keys, Holds(b, i), b[i] = b[j]
      PROVE  i = j
  BY <1>1, <1>2, <1>3 DEF RecencyOrder
<1>4. ASSUME NEW j \in Keys, Holds(b, j), NEW n \in 0 .. b[j] - 1
      PROVE  \E i \in Keys : b[i] = n
  <2>1. CASE n = 0
    BY <1>1, <2>1
  <2>2. CASE n # 0 /\ n <= a[k]
    <3>1. n - 1 \in 0 .. a[k] - 1 /\ (Holds(a, k) \/ n - 1 \in 0 .. a[j] - 1)
      BY <1>1, <1>2, <1>4, <2>2
    <3>2. Holds(a, k) \/ Holds(a, j)
      BY <1>1, <1>2, <1>4, <2>2
    <3>3. PICK i \in Keys : a[i] = n - 1
      BY <1>1, <1>2, <1>4, <2>2, <3>1, <3>2 DEF RecencyOrder
    <3> QED BY <1>1, <2>2, <3>3
  <2>3. CASE n > a[k]
    <3>1. j # k /\ a[j] = b[j]
      BY <1>1, <1>2, <1>4, <2>3
    <3>2. PICK i \in Keys : a[i] = n
      BY <1>4, <3>1 DEF RecencyOrder
    <3> QED BY <1>1, <2>3, <3>2
  <2> QED BY <2>1, <2>2, <2>3
<1> QED BY <1>3, <1>4 DEF RecencyOrder, b

\* As long as there are no more keys than the map has room for, nothing is
\* evicted: behind the stalest entry there is one for every younger age.
LEMMA NothingEvicted ==
  ASSUME NEW a \in [Keys -> Ages], RecencyOrder(a), NEW k \in Keys,
         IsFiniteSet(Keys), Cardinality(Keys) <= MaxSize,
         NEW j \in Keys, Holds(a, j)
  PROVE  Holds(Use(a, k), j)
<1>0. MaxSize \in Nat \ {0} /\ a[j] \in 0 .. MaxSize - 1 /\ a[k] \in 0 .. MaxSize
  BY LRUAssumption DEF Ages, Holds
<1>1. CASE a[j] >= a[k] \/ j = k \/ a[k] < MaxSize
  BY <1>0, <1>1 DEF Holds, Use
<1>2. CASE a[j] < a[k] /\ j # k /\ a[k] = MaxSize
  <2>1. SUFFICES ASSUME a[j] = MaxSize - 1 PROVE FALSE
    BY <1>0, <1>2 DEF Holds, Use
  <2> DEFINE others == Keys \ {k}
             young == 0 .. MaxSize - 1
             f == [n \in young |-> CHOOSE i \in Keys : a[i] = n]
  <2>2. \A n \in young : \E i \in Keys : a[i] = n
    <3>1. \A n \in 0 .. a[j] - 1 : \E i \in Keys : a[i] = n
      BY DEF RecencyOrder
    <3> QED BY <1>0, <2>1, <3>1
  <2>3. \A n \in young : f[n] \in others /\ a[f[n]] = n
    BY <1>0, <1>2, <2>2
  <2>4. IsFiniteSet(young) /\ Cardinality(young) = MaxSize
    BY <1>0, FS_Interval
  <2>5. IsFiniteSet(others) /\ Cardinality(others) = Cardinality(Keys) - 1
    BY FS_RemoveElement
  <2>6. Cardinality(others) < Cardinality(young)
    BY <1>0, <2>4, <2>5, FS_CardinalityType
  <2>7. f \in [young -> others]
    BY <2>3
  <2> HIDE DEF f, young, others
  <2>8. PICK m, n \in young : m # n /\ f[m] = f[n]
    BY <2>4, <2>5, <2>6, <2>7, FS_PigeonHole
  <2> QED BY <2>3, <2>8
<1> QED BY <1>0, <1>1, <1>2

\* A map in recency order has room for MaxSize entries and no more.
LEMMA OrderBoundsSize ==
  ASSUME NEW a \in [Keys -> Ages], RecencyOrder(a)
  PROVE  LET held == {k \in Keys : Holds(a, k)}
         IN  IsFiniteSet(held) /\ Cardinality(held) <= MaxSize
<1> DEFINE held == {k \in Keys : Holds(a, k)}
           young == 0 .. MaxSize - 1
           f == [k \in held |-> a[k]]
<1>1. f \in [held -> young]
  BY LRUAssumption DEF Holds, Ages
<1>2. \A i, j \in held : f[i] = f[j] => i = j
  BY DEF RecencyOrder
<1>3. f \in Injection(held, young)
  BY <1>1, <1>2 DEF Injection, IsInjective
<1>4. IsFiniteSet(young) /\ Cardinality(young) = MaxSize
  BY LRUAssumption, FS_Interval
<1> QED BY <1>3, <1>4, FS_Injection

\* What an eviction leaves in the memory layer is bytes or nothing.
LEMMA KeptType ==
  ASSUME NEW a, NEW v \in [Keys -> Bytes]
  PROVE  Kept(a, v, None) \in [Keys -> Bytes]
BY DEF Kept, Bytes

(***************************************************************************)
(* TypeOK                                                                  *)
(***************************************************************************)
\* The initial state is well typed.
LEMMA InitType == Init => TypeOK
BY LRUAssumption DEF Init, CacheInit, ThreadsInit, TypeOK, NothingHeld, Ages, Bytes,
   Labels, Outcomes

\* Every step of a thread, a call and a restart keep every type.
LEMMA TypeStep == TypeOK /\ [Next]_vars => TypeOK'
<1> SUFFICES ASSUME TypeOK, [Next]_vars PROVE TypeOK'
  OBVIOUS
<1> USE DEF TypeOK
<1>1. CASE UNCHANGED vars
  BY <1>1 DEF vars, cacheVars, coalescerVars
<1>2. CASE Restart
  BY <1>2, LRUAssumption DEF Restart, NothingHeld, Ages, Bytes, Labels, Outcomes
<1>3. ASSUME NEW t \in Threads, NEW k \in Keys, NEW l \in Limits, Call(t, k, l)
      PROVE  TypeOK'
  BY <1>3, TileCacheAssumption
     DEF Call, Goto, Labels, Request, coalescerVars
<1>4. ASSUME NEW t \in Threads, Step(t) PROVE TypeOK'
  <2>0. pc[t] # "idle" => req[t] \in Request /\ KeyOf(t) \in Keys /\ req[t].limit \in Limits
    BY DEF KeyOf, Request
  <2> USE DEF Goto, Labels
  <2> USE DEF coalescerVars
  <2>1. CASE ReturnCached(t)
    BY <2>1, <2>0, TileCacheAssumption DEF ReturnCached, Finish, Outcomes, Bytes
  <2>2. CASE BecomeLeader(t)
    BY <2>2, <2>0, TileCacheAssumption DEF BecomeLeader, Bytes
  <2>3. CASE ComputeTile(t)
    BY <2>3, <2>0, TileCacheAssumption DEF ComputeTile, Bytes
  <2>4. CASE ComputeFails(t)
    BY <2>4, <2>0, TileCacheAssumption DEF ComputeFails, Bytes
  <2>5. CASE PopInflight(t)
    BY <2>5, <2>0, TileCacheAssumption DEF PopInflight, Bytes
  <2>6. CASE SetEvent(t)
    BY <2>6, <2>0, TileCacheAssumption DEF SetEvent, Outcomes, Bytes
  <2>7. CASE PopError(t)
    BY <2>7, <2>0, TileCacheAssumption DEF PopError, Finish, Outcomes, Bytes
  <2>8. CASE BecomeFollower(t)
    BY <2>8, <2>0, TileCacheAssumption DEF BecomeFollower, Bytes
  <2>9. CASE Reraise(t)
    BY <2>9, <2>0, TileCacheAssumption DEF Reraise, Finish, Outcomes, Bytes
  <2>10. CASE LookAgain(t)
    BY <2>10, <2>0, TileCacheAssumption DEF LookAgain, Bytes
  <2>11. CASE FallThrough(t)
    BY <2>11, <2>0, TileCacheAssumption DEF FallThrough, Bytes
  <2>12. CASE Recompute(t) \/ GetRaises(t)
    BY <2>12, <2>0, TileCacheAssumption DEF Recompute, GetRaises, Finish, Outcomes, Bytes
  <2>13. CASE CacheGet(t)
    <3>1. CASE GetHit(t)
      <4>1. age' \in [Keys -> Ages]
        BY <3>1, <2>0, UseType DEF GetHit
      <4> QED BY <4>1, <3>1, <2>13, <2>0 DEF CacheGet, GetHit
    <3>2. CASE GetMiss(t)
      BY <3>2, <2>13, <2>0 DEF CacheGet, GetMiss, Bytes
    <3>3. CASE ReadFile(t)
      BY <3>3, <2>13, <2>0 DEF CacheGet, ReadFile, Bytes
    <3>4. CASE ReadNothing(t)
      BY <3>4, <2>13, <2>0 DEF CacheGet, ReadNothing, Bytes
    <3>5. CASE Warm(t)
      <4>1. age' \in [Keys -> Ages]
        BY <3>5, <2>0, UseType DEF Warm, MemStore
      <4>2. mem' \in [Keys -> Bytes]
        <5>1. [mem EXCEPT ![KeyOf(t)] = data[t]] \in [Keys -> Bytes]
          BY <2>0
        <5> QED BY <3>5, <5>1, KeptType DEF Warm, MemStore
      <4> QED BY <4>1, <4>2, <3>5, <2>13, <2>0 DEF CacheGet, Warm
    <3> QED BY <2>13, <3>1, <3>2, <3>3, <3>4, <3>5 DEF CacheGet, Get
  <2>14. CASE CachePut(t)
    <3>1. CASE PutMem(t)
      <4>1. age' \in [Keys -> Ages]
        BY <3>1, <2>0, UseType DEF PutMem, MemStore
      <4>2. mem' \in [Keys -> Bytes]
        <5>1. [mem EXCEPT ![KeyOf(t)] = data[t]] \in [Keys -> Bytes]
          BY <2>0
        <5> QED BY <3>1, <5>1, KeptType DEF PutMem, MemStore
      <4> QED BY <4>1, <4>2, <3>1, <2>14, <2>0 DEF CachePut, PutMem
    <3>2. CASE PutOpen(t)
      BY <3>2, <2>14, <2>0 DEF CachePut, PutOpen, Bytes
    <3>3. CASE PutWrite(t)
      BY <3>3, <2>14, <2>0 DEF CachePut, PutWrite, Bytes
    <3>4. CASE PutRename(t)
      BY <3>4, <2>14, <2>0 DEF CachePut, PutRename, Bytes
    <3>5. CASE PutFails(t)
      BY <3>5, <2>14, <2>0 DEF CachePut, PutFails, Bytes
    <3> QED BY <2>14, <3>1, <3>2, <3>3, <3>4, <3>5 DEF CachePut, Put
  <2> QED BY <1>4, <2>1, <2>2, <2>3, <2>4, <2>5, <2>6, <2>7, <2>8, <2>9, <2>10, <2>11, <2>12, <2>13, <2>14 DEF Step
<1> QED BY <1>1, <1>2, <1>3, <1>4 DEF Next

(***************************************************************************)
(* What a step of get or of put means to the coalescer.                    *)
(***************************************************************************)
\* A step of get moves its thread to the next label of get and picks up bytes
\* at most.
LEMMA CacheGetStep ==
  ASSUME TypeOK, NEW t \in Threads, CacheGet(t)
  PROVE  /\ pc[t] \in {"get", "read", "warm"}
         /\ pc'[t] \in {"read", "warm", "got"}
         /\ \A u \in Threads \ {t} : pc'[u] = pc[u] /\ data'[u] = data[u]
         /\ UNCHANGED <<req, file, tmp, inflight, errors, lead, woke>>
BY DEF TypeOK, CacheGet, Get, GetHit, GetMiss, ReadFile, ReadNothing, Warm, Goto,
   coalescerVars

\* A step of put moves its thread to the next label of put and changes nothing
\* else of it.
LEMMA CachePutStep ==
  ASSUME TypeOK, NEW t \in Threads, CachePut(t)
  PROVE  /\ pc[t] \in {"put", "open", "write", "rename"}
         /\ pc'[t] \in {"open", "write", "rename", "stored"}
         /\ \A u \in Threads \ {t} : pc'[u] = pc[u]
         /\ UNCHANGED <<req, data, inflight, errors, lead, woke>>
BY DEF TypeOK, CachePut, Put, PutMem, PutOpen, PutWrite, PutRename, PutFails, Goto,
   coalescerVars

\* A thread with a request has a key.
LEMMA KeyOfType ==
  ASSUME TypeOK, NEW t \in Threads, pc[t] # "idle"
  PROVE  KeyOf(t) \in Keys
BY DEF TypeOK, KeyOf, Request

\* A thread takes a role in the locked test of _inflight and leaves it when its
\* call ends.
LEMMA RolesStep == IInv /\ [Next]_vars => Roles'
<1> SUFFICES ASSUME IInv, [Next]_vars PROVE Roles'
  OBVIOUS
<1> USE DEF IInv, Roles, NoLostWakeup, SingleFlight, Led, Leading, Finishing
<1>1. CASE UNCHANGED vars
  BY <1>1 DEF vars, cacheVars, coalescerVars, KeyOf
<1>2. CASE Restart
  BY <1>2, TileCacheAssumption DEF Restart, KeyOf
<1>3. ASSUME NEW t \in Threads, NEW k \in Keys, NEW l \in Limits, Call(t, k, l)
      PROVE  Roles'
  BY <1>3, TileCacheAssumption DEF Call, Goto, TypeOK, KeyOf, coalescerVars
<1>4. ASSUME NEW t \in Threads, Step(t) PROVE Roles'
  <2> USE DEF Goto, TypeOK, KeyOf, coalescerVars
  <2>0. pc[t] # "idle" => KeyOf(t) \in Keys
    BY KeyOfType
  <2>1. CASE ReturnCached(t)
    BY <2>1, <2>0, TileCacheAssumption DEF ReturnCached, Finish
  <2>2. CASE BecomeLeader(t)
    BY <2>2, <2>0, TileCacheAssumption DEF BecomeLeader
  <2>3. CASE ComputeTile(t)
    BY <2>3, <2>0, TileCacheAssumption DEF ComputeTile
  <2>4. CASE ComputeFails(t)
    BY <2>4, <2>0, TileCacheAssumption DEF ComputeFails
  <2>5. CASE PopInflight(t)
    BY <2>5, <2>0, TileCacheAssumption DEF PopInflight
  <2>6. CASE SetEvent(t)
    BY <2>6, <2>0, TileCacheAssumption DEF SetEvent, Outcomes
  <2>7. CASE PopError(t)
    BY <2>7, <2>0, TileCacheAssumption DEF PopError, Finish
  <2>8. CASE BecomeFollower(t)
    BY <2>8, <2>0, TileCacheAssumption DEF BecomeFollower
  <2>9. CASE Reraise(t)
    BY <2>9, <2>0, TileCacheAssumption DEF Reraise, Finish
  <2>10. CASE LookAgain(t)
    BY <2>10, <2>0, TileCacheAssumption DEF LookAgain
  <2>11. CASE FallThrough(t)
    BY <2>11, <2>0, TileCacheAssumption DEF FallThrough
  <2>12. CASE Recompute(t) \/ GetRaises(t)
    <3>1. /\ pc[t] \in {"read", "recompute"} /\ pc' = [pc EXCEPT ![t] = "idle"]
          /\ req' = [req EXCEPT ![t] = None] /\ lead' = [lead EXCEPT ![t] = None]
          /\ woke' = [woke EXCEPT ![t] = "unset"]
          /\ data' = [data EXCEPT ![t] = None]
          /\ UNCHANGED <<mem, age, file, tmp, inflight, errors>>
      BY <2>12 DEF Recompute, GetRaises, Finish
    <3> QED BY <3>1, <2>0, TileCacheAssumption
  <2>13. CASE CacheGet(t)
    BY <2>13, <2>0, CacheGetStep, TileCacheAssumption
  <2>14. CASE CachePut(t)
    BY <2>14, <2>0, CachePutStep, TileCacheAssumption
  <2> QED BY <1>4, <2>1, <2>2, <2>3, <2>4, <2>5, <2>6, <2>7, <2>8, <2>9, <2>10, <2>11, <2>12, <2>13, <2>14 DEF Step
<1> QED BY <1>1, <1>2, <1>3, <1>4 DEF Next

\* A leader registers only where nobody is, and only the registered leader
\* withdraws.
LEMMA SingleFlightStep == IInv /\ [Next]_vars => SingleFlight'
<1> SUFFICES ASSUME IInv, [Next]_vars PROVE SingleFlight'
  OBVIOUS
<1> USE DEF IInv, SingleFlight, Roles, Led, Leading, Finishing
<1>1. CASE UNCHANGED vars
  BY <1>1 DEF vars, cacheVars, coalescerVars, KeyOf
<1>2. CASE Restart
  BY <1>2, TileCacheAssumption DEF Restart, KeyOf
<1>3. ASSUME NEW t \in Threads, NEW k \in Keys, NEW l \in Limits, Call(t, k, l)
      PROVE  SingleFlight'
  BY <1>3, TileCacheAssumption DEF Call, Goto, TypeOK, KeyOf, coalescerVars
<1>4. ASSUME NEW t \in Threads, Step(t) PROVE SingleFlight'
  <2> USE DEF Goto, TypeOK, KeyOf, coalescerVars
  <2>0. pc[t] # "idle" => KeyOf(t) \in Keys
    BY KeyOfType
  <2>1. CASE ReturnCached(t)
    BY <2>1, <2>0, TileCacheAssumption DEF ReturnCached, Finish
  <2>2. CASE BecomeLeader(t)
    BY <2>2, <2>0, TileCacheAssumption DEF BecomeLeader
  <2>3. CASE ComputeTile(t)
    BY <2>3, <2>0, TileCacheAssumption DEF ComputeTile
  <2>4. CASE ComputeFails(t)
    BY <2>4, <2>0, TileCacheAssumption DEF ComputeFails
  <2>5. CASE PopInflight(t)
    BY <2>5, <2>0, TileCacheAssumption DEF PopInflight
  <2>6. CASE SetEvent(t)
    BY <2>6, <2>0, TileCacheAssumption DEF SetEvent, Outcomes
  <2>7. CASE PopError(t)
    BY <2>7, <2>0, TileCacheAssumption DEF PopError, Finish
  <2>8. CASE BecomeFollower(t)
    BY <2>8, <2>0, TileCacheAssumption DEF BecomeFollower
  <2>9. CASE Reraise(t)
    BY <2>9, <2>0, TileCacheAssumption DEF Reraise, Finish
  <2>10. CASE LookAgain(t)
    BY <2>10, <2>0, TileCacheAssumption DEF LookAgain
  <2>11. CASE FallThrough(t)
    BY <2>11, <2>0, TileCacheAssumption DEF FallThrough
  <2>12. CASE Recompute(t) \/ GetRaises(t)
    BY <2>12, <2>0, TileCacheAssumption DEF Recompute, GetRaises, Finish
  <2>13. CASE CacheGet(t)
    BY <2>13, <2>0, CacheGetStep, TileCacheAssumption
  <2>14. CASE CachePut(t)
    BY <2>14, <2>0, CachePutStep, TileCacheAssumption
  <2> QED BY <1>4, <2>1, <2>2, <2>3, <2>4, <2>5, <2>6, <2>7, <2>8, <2>9, <2>10, <2>11, <2>12, <2>13, <2>14 DEF Step
<1> QED BY <1>1, <1>2, <1>3, <1>4 DEF Next

\* A leader that leaves an exception has its finally block still to run.
LEMMA ErrorStep == IInv /\ [Next]_vars => ErrorHasLeader'
<1> SUFFICES ASSUME IInv, [Next]_vars PROVE ErrorHasLeader'
  OBVIOUS
<1> USE DEF IInv, ErrorHasLeader, LeadsFor, Roles, SingleFlight, Led, Leading, Finishing
<1>1. CASE UNCHANGED vars
  BY <1>1 DEF vars, cacheVars, coalescerVars, KeyOf
<1>2. CASE Restart
  BY <1>2, TileCacheAssumption DEF Restart, KeyOf
<1>3. ASSUME NEW t \in Threads, NEW k \in Keys, NEW l \in Limits, Call(t, k, l)
      PROVE  ErrorHasLeader'
  BY <1>3, TileCacheAssumption DEF Call, Goto, TypeOK, KeyOf, coalescerVars
<1>4. ASSUME NEW t \in Threads, Step(t) PROVE ErrorHasLeader'
  <2> USE DEF Goto, TypeOK, KeyOf, coalescerVars
  <2>0. pc[t] # "idle" => KeyOf(t) \in Keys
    BY KeyOfType
  <2>1. CASE ReturnCached(t)
    BY <2>1, <2>0, TileCacheAssumption DEF ReturnCached, Finish
  <2>2. CASE BecomeLeader(t)
    BY <2>2, <2>0, TileCacheAssumption DEF BecomeLeader
  <2>3. CASE ComputeTile(t)
    BY <2>3, <2>0, TileCacheAssumption DEF ComputeTile
  <2>4. CASE ComputeFails(t)
    BY <2>4, <2>0, TileCacheAssumption DEF ComputeFails
  <2>5. CASE PopInflight(t)
    BY <2>5, <2>0, TileCacheAssumption DEF PopInflight
  <2>6. CASE SetEvent(t)
    BY <2>6, <2>0, TileCacheAssumption DEF SetEvent, Outcomes
  <2>7. CASE PopError(t)
    BY <2>7, <2>0, TileCacheAssumption DEF PopError, Finish
  <2>8. CASE BecomeFollower(t)
    BY <2>8, <2>0, TileCacheAssumption DEF BecomeFollower
  <2>9. CASE Reraise(t)
    BY <2>9, <2>0, TileCacheAssumption DEF Reraise, Finish
  <2>10. CASE LookAgain(t)
    BY <2>10, <2>0, TileCacheAssumption DEF LookAgain
  <2>11. CASE FallThrough(t)
    BY <2>11, <2>0, TileCacheAssumption DEF FallThrough
  <2>12. CASE Recompute(t) \/ GetRaises(t)
    BY <2>12, <2>0, TileCacheAssumption DEF Recompute, GetRaises, Finish
  <2>13. CASE CacheGet(t)
    BY <2>13, <2>0, CacheGetStep, TileCacheAssumption
  <2>14. CASE CachePut(t)
    BY <2>14, <2>0, CachePutStep, TileCacheAssumption
  <2> QED BY <1>4, <2>1, <2>2, <2>3, <2>4, <2>5, <2>6, <2>7, <2>8, <2>9, <2>10, <2>11, <2>12, <2>13, <2>14 DEF Step
<1> QED BY <1>1, <1>2, <1>3, <1>4 DEF Next

\* A follower takes the Event of the registered leader, and the leader sets its
\* Event for all of them in one step.
LEMMA WaitStep == IInv /\ [Next]_vars => NoLostWakeup'
<1> SUFFICES ASSUME IInv, [Next]_vars PROVE NoLostWakeup'
  OBVIOUS
<1> USE DEF IInv, NoLostWakeup, LeadsFor, Roles, SingleFlight, Led, Leading, Finishing
<1>1. CASE UNCHANGED vars
  BY <1>1 DEF vars, cacheVars, coalescerVars, KeyOf
<1>2. CASE Restart
  BY <1>2, TileCacheAssumption DEF Restart, KeyOf
<1>3. ASSUME NEW t \in Threads, NEW k \in Keys, NEW l \in Limits, Call(t, k, l)
      PROVE  NoLostWakeup'
  BY <1>3, TileCacheAssumption DEF Call, Goto, TypeOK, KeyOf, coalescerVars
<1>4. ASSUME NEW t \in Threads, Step(t) PROVE NoLostWakeup'
  <2> USE DEF Goto, TypeOK, KeyOf, coalescerVars
  <2>0. pc[t] # "idle" => KeyOf(t) \in Keys
    BY KeyOfType
  <2>1. CASE ReturnCached(t)
    BY <2>1, <2>0, TileCacheAssumption DEF ReturnCached, Finish
  <2>2. CASE BecomeLeader(t)
    BY <2>2, <2>0, TileCacheAssumption DEF BecomeLeader
  <2>3. CASE ComputeTile(t)
    BY <2>3, <2>0, TileCacheAssumption DEF ComputeTile
  <2>4. CASE ComputeFails(t)
    BY <2>4, <2>0, TileCacheAssumption DEF ComputeFails
  <2>5. CASE PopInflight(t)
    BY <2>5, <2>0, TileCacheAssumption DEF PopInflight
  <2>6. CASE SetEvent(t)
    BY <2>6, <2>0, TileCacheAssumption DEF SetEvent, Outcomes
  <2>7. CASE PopError(t)
    BY <2>7, <2>0, TileCacheAssumption DEF PopError, Finish
  <2>8. CASE BecomeFollower(t)
    BY <2>8, <2>0, TileCacheAssumption DEF BecomeFollower
  <2>9. CASE Reraise(t)
    BY <2>9, <2>0, TileCacheAssumption DEF Reraise, Finish
  <2>10. CASE LookAgain(t)
    BY <2>10, <2>0, TileCacheAssumption DEF LookAgain
  <2>11. CASE FallThrough(t)
    BY <2>11, <2>0, TileCacheAssumption DEF FallThrough
  <2>12. CASE Recompute(t) \/ GetRaises(t)
    BY <2>12, <2>0, TileCacheAssumption DEF Recompute, GetRaises, Finish
  <2>13. CASE CacheGet(t)
    BY <2>13, <2>0, CacheGetStep, TileCacheAssumption
  <2>14. CASE CachePut(t)
    BY <2>14, <2>0, CachePutStep, TileCacheAssumption
  <2> QED BY <1>4, <2>1, <2>2, <2>3, <2>4, <2>5, <2>6, <2>7, <2>8, <2>9, <2>10, <2>11, <2>12, <2>13, <2>14 DEF Step
<1> QED BY <1>1, <1>2, <1>3, <1>4 DEF Next

\* Bytes are picked up by a lookup that hits and by a compute that succeeds.
LEMMA CarriedStep == IInv /\ [Next]_vars => Carried'
<1> SUFFICES ASSUME IInv, [Next]_vars PROVE Carried'
  OBVIOUS
<1> USE DEF IInv, Carried, Roles, Led, Leading, Finishing
<1>1. CASE UNCHANGED vars
  BY <1>1 DEF vars, cacheVars, coalescerVars, KeyOf
<1>2. CASE Restart
  BY <1>2, TileCacheAssumption DEF Restart, KeyOf
<1>3. ASSUME NEW t \in Threads, NEW k \in Keys, NEW l \in Limits, Call(t, k, l)
      PROVE  Carried'
  BY <1>3, TileCacheAssumption DEF Call, Goto, TypeOK, KeyOf, coalescerVars
<1>4. ASSUME NEW t \in Threads, Step(t) PROVE Carried'
  <2> USE DEF Goto, TypeOK, KeyOf, coalescerVars
  <2>0. pc[t] # "idle" => KeyOf(t) \in Keys
    BY KeyOfType
  <2>1. CASE ReturnCached(t)
    BY <2>1, <2>0, TileCacheAssumption DEF ReturnCached, Finish
  <2>2. CASE BecomeLeader(t)
    BY <2>2, <2>0, TileCacheAssumption DEF BecomeLeader
  <2>3. CASE ComputeTile(t)
    <3>1. req[t].limit \in Limits
      BY <2>3 DEF ComputeTile, Request
    <3> QED BY <2>3, <3>1, TileCacheAssumption DEF ComputeTile
  <2>4. CASE ComputeFails(t)
    BY <2>4, <2>0, TileCacheAssumption DEF ComputeFails
  <2>5. CASE PopInflight(t)
    BY <2>5, <2>0, TileCacheAssumption DEF PopInflight
  <2>6. CASE SetEvent(t)
    BY <2>6, <2>0, TileCacheAssumption DEF SetEvent
  <2>7. CASE PopError(t)
    BY <2>7, <2>0, TileCacheAssumption DEF PopError, Finish
  <2>8. CASE BecomeFollower(t)
    BY <2>8, <2>0, TileCacheAssumption DEF BecomeFollower
  <2>9. CASE Reraise(t)
    BY <2>9, <2>0, TileCacheAssumption DEF Reraise, Finish
  <2>10. CASE LookAgain(t)
    BY <2>10, <2>0, TileCacheAssumption DEF LookAgain
  <2>11. CASE FallThrough(t)
    BY <2>11, <2>0, TileCacheAssumption DEF FallThrough
  <2>12. CASE Recompute(t) \/ GetRaises(t)
    BY <2>12, <2>0, TileCacheAssumption DEF Recompute, GetRaises, Finish
  <2>13. CASE CacheGet(t)
    BY <2>13, <2>0, TileCacheAssumption
       DEF CacheGet, Get, GetHit, GetMiss, ReadFile, ReadNothing, Warm
  <2>14. CASE CachePut(t)
    BY <2>14, <2>0, TileCacheAssumption
       DEF CachePut, Put, PutMem, PutOpen, PutWrite, PutRename, PutFails
  <2> QED BY <1>4, <2>1, <2>2, <2>3, <2>4, <2>5, <2>6, <2>7, <2>8, <2>9, <2>10, <2>11, <2>12, <2>13, <2>14 DEF Step
<1> QED BY <1>1, <1>2, <1>3, <1>4 DEF Next

\* Between registering and withdrawing a leader is alone with its key, so no
\* other thread's .tmp file is the one it writes.
LEMMA OneWriter ==
  ASSUME TypeOK, SingleFlight, NEW t \in Threads, NEW u \in Threads,
         pc[t] \in Leading, pc[u] \in Leading, KeyOf(t) = KeyOf(u)
  PROVE  t = u
<1>1. KeyOf(t) \in Keys
  BY KeyOfType DEF Leading
<1>2. inflight[KeyOf(t)] = t /\ inflight[KeyOf(t)] = u
  BY <1>1 DEF SingleFlight
<1> QED BY <1>2

\* What is renamed is what was written, and it was a whole tile.
LEMMA WholeStep == IInv /\ [Next]_vars => Whole'
<1> SUFFICES ASSUME IInv, [Next]_vars PROVE Whole'
  OBVIOUS
<1> USE DEF IInv, Whole, NoTornTile, Carried, Led, Leading, Finishing
<1>1. CASE UNCHANGED vars
  BY <1>1 DEF vars, cacheVars, coalescerVars, KeyOf
<1>2. CASE Restart
  BY <1>2, TileCacheAssumption DEF Restart, KeyOf
<1>3. ASSUME NEW t \in Threads, NEW k \in Keys, NEW l \in Limits, Call(t, k, l)
      PROVE  Whole'
  BY <1>3, TileCacheAssumption DEF Call, Goto, TypeOK, KeyOf, coalescerVars
<1>4. ASSUME NEW t \in Threads, Step(t) PROVE Whole'
  <2> USE DEF Goto, TypeOK, KeyOf, coalescerVars
  <2>0. pc[t] # "idle" => KeyOf(t) \in Keys
    BY KeyOfType
  <2>1. CASE ReturnCached(t)
    BY <2>1, <2>0, TileCacheAssumption DEF ReturnCached, Finish
  <2>2. CASE BecomeLeader(t)
    BY <2>2, <2>0, TileCacheAssumption DEF BecomeLeader
  <2>3. CASE ComputeTile(t)
    <3>1. req[t].limit \in Limits
      BY <2>3 DEF ComputeTile, Request
    <3> QED BY <2>3, <3>1, TileCacheAssumption DEF ComputeTile
  <2>4. CASE ComputeFails(t)
    BY <2>4, <2>0, TileCacheAssumption DEF ComputeFails
  <2>5. CASE PopInflight(t)
    BY <2>5, <2>0, TileCacheAssumption DEF PopInflight
  <2>6. CASE SetEvent(t)
    BY <2>6, <2>0, TileCacheAssumption DEF SetEvent
  <2>7. CASE PopError(t)
    BY <2>7, <2>0, TileCacheAssumption DEF PopError, Finish
  <2>8. CASE BecomeFollower(t)
    BY <2>8, <2>0, TileCacheAssumption DEF BecomeFollower
  <2>9. CASE Reraise(t)
    BY <2>9, <2>0, TileCacheAssumption DEF Reraise, Finish
  <2>10. CASE LookAgain(t)
    BY <2>10, <2>0, TileCacheAssumption DEF LookAgain
  <2>11. CASE FallThrough(t)
    BY <2>11, <2>0, TileCacheAssumption DEF FallThrough
  <2>12. CASE Recompute(t) \/ GetRaises(t)
    BY <2>12, <2>0, TileCacheAssumption DEF Recompute, GetRaises, Finish
  <2>13. CASE CacheGet(t)
    <3>1. data'[t] # Torn
      <4>1. KeyOf(t) \in Keys
        BY <2>13, CacheGetStep, KeyOfType
      <4> QED BY <2>13, <4>1
          DEF CacheGet, Get, GetHit, GetMiss, ReadFile, ReadNothing, Warm
    <3>2. \A k \in Keys : mem'[k] # Torn
      <4>1. CASE Warm(t)
        BY <4>1, TileCacheAssumption DEF Warm, MemStore, Kept
      <4> QED BY <4>1, <2>13 DEF CacheGet, Get, GetHit, GetMiss, ReadFile, ReadNothing
    <3> QED BY <2>13, <3>1, <3>2, CacheGetStep
  <2>14. CASE CachePut(t)
    <3>0. /\ KeyOf(t) \in Keys
          /\ \A u \in Threads \ {t} :
               pc[u] = "rename" => KeyOf(u) # KeyOf(t) /\ KeyOf(u) \in Keys
      BY <2>14, CachePutStep, OneWriter, KeyOfType
    <3>1. CASE PutMem(t)
      <4>1. \A k \in Keys : mem'[k] # Torn
        BY <3>1, TileCacheAssumption DEF PutMem, MemStore, Kept
      <4> QED BY <3>1, <4>1, <2>14, CachePutStep DEF PutMem
    <3>2. CASE PutOpen(t)
      BY <3>0, <3>2 DEF PutOpen
    <3>3. CASE PutWrite(t)
      BY <3>0, <3>3 DEF PutWrite
    <3>4. CASE PutRename(t)
      BY <3>0, <3>4 DEF PutRename
    <3>5. CASE PutFails(t)
      BY <3>5 DEF PutFails
    <3> QED BY <2>14, <3>1, <3>2, <3>3, <3>4, <3>5 DEF CachePut, Put
  <2> QED BY <1>4, <2>1, <2>2, <2>3, <2>4, <2>5, <2>6, <2>7, <2>8, <2>9, <2>10, <2>11, <2>12, <2>13, <2>14 DEF Step
<1> QED BY <1>1, <1>2, <1>3, <1>4 DEF Next

\* With a disk that works a put ends in a rename, and no file is taken back.
LEMMA PublishedStep == IInv /\ [Next]_vars => Published'
<1> SUFFICES ASSUME IInv, [Next]_vars PROVE Published'
  OBVIOUS
<1> USE DEF IInv, Published, Carried, Roles, Looking, Led, Leading, Finishing
<1>1. CASE UNCHANGED vars
  BY <1>1 DEF vars, cacheVars, coalescerVars, KeyOf
<1>2. CASE Restart
  BY <1>2, TileCacheAssumption DEF Restart, KeyOf
<1>3. ASSUME NEW t \in Threads, NEW k \in Keys, NEW l \in Limits, Call(t, k, l)
      PROVE  Published'
  BY <1>3, TileCacheAssumption DEF Call, Goto, TypeOK, KeyOf, coalescerVars
<1>4. ASSUME NEW t \in Threads, Step(t) PROVE Published'
  <2> USE DEF Goto, TypeOK, KeyOf, coalescerVars
  <2>0. pc[t] # "idle" => KeyOf(t) \in Keys
    BY KeyOfType
  <2>1. CASE ReturnCached(t)
    BY <2>1, <2>0, TileCacheAssumption DEF ReturnCached, Finish
  <2>2. CASE BecomeLeader(t)
    BY <2>2, <2>0, TileCacheAssumption DEF BecomeLeader
  <2>3. CASE ComputeTile(t)
    BY <2>3, <2>0, TileCacheAssumption DEF ComputeTile
  <2>4. CASE ComputeFails(t)
    BY <2>4, <2>0, TileCacheAssumption DEF ComputeFails
  <2>5. CASE PopInflight(t)
    BY <2>5, <2>0, TileCacheAssumption DEF PopInflight
  <2>6. CASE SetEvent(t)
    BY <2>6, <2>0, TileCacheAssumption DEF SetEvent, Outcomes, NoLostWakeup, LeadsFor
  <2>7. CASE PopError(t)
    BY <2>7, <2>0, TileCacheAssumption DEF PopError, Finish
  <2>8. CASE BecomeFollower(t)
    BY <2>8, <2>0, TileCacheAssumption DEF BecomeFollower
  <2>9. CASE Reraise(t)
    BY <2>9, <2>0, TileCacheAssumption DEF Reraise, Finish
  <2>10. CASE LookAgain(t)
    BY <2>10, <2>0, TileCacheAssumption DEF LookAgain
  <2>11. CASE FallThrough(t)
    BY <2>11, <2>0, TileCacheAssumption DEF FallThrough
  <2>12. CASE Recompute(t) \/ GetRaises(t)
    BY <2>12, <2>0, TileCacheAssumption DEF Recompute, GetRaises, Finish
  <2>13. CASE CacheGet(t)
    BY <2>13, <2>0, TileCacheAssumption
       DEF CacheGet, Get, GetHit, GetMiss, ReadFile, ReadNothing, Warm
  <2>14. CASE CachePut(t)
    <3>0. KeyOf(t) \in Keys
      BY <2>14, CachePutStep, KeyOfType
    <3>1. CASE PutMem(t)
      BY <3>0, <3>1, <2>14, CachePutStep DEF PutMem
    <3>2. CASE PutOpen(t)
      BY <3>0, <3>2, <2>14, CachePutStep DEF PutOpen
    <3>3. CASE PutWrite(t)
      BY <3>0, <3>3, <2>14, CachePutStep DEF PutWrite
    <3>4. CASE PutRename(t)
      BY <3>0, <3>4, <2>14, CachePutStep DEF PutRename
    <3>5. CASE PutFails(t)
      BY <3>0, <3>5, <2>14, CachePutStep DEF PutFails, Whole
    <3> QED BY <2>14, <3>1, <3>2, <3>3, <3>4, <3>5 DEF CachePut, Put
  <2> QED BY <1>4, <2>1, <2>2, <2>3, <2>4, <2>5, <2>6, <2>7, <2>8, <2>9, <2>10, <2>11, <2>12, <2>13, <2>14 DEF Step
<1> QED BY <1>1, <1>2, <1>3, <1>4 DEF Next

(***************************************************************************)
(* The memory layer.                                                       *)
(***************************************************************************)
\* An assignment keeps the recency order, and with it what is held; the tile that
\* was stored is there, and so are all others that it did not push out.
LEMMA Stores ==
  ASSUME TypeOK, Recent, NEW k \in Keys, NEW v \in Bytes \ {None}, MemStore(k, v)
  PROVE  /\ Recent'
         /\ mem'[k] # None
         /\ Roomy => \A j \in Keys : mem[j] # None => mem'[j] # None
<1> USE DEF TypeOK, Recent, MemStore
<1>1. age' = Use(age, k) /\ RecencyOrder(age')
  BY UseKeepsOrder
<1>2. /\ Holds(age', k)
      /\ \A j \in Keys \ {k} : Holds(age', j) => Holds(age, j)
  BY <1>1, LRUAssumption DEF Use, Holds, Ages
<1>3. \A j \in Keys :
        mem'[j] = IF Holds(age', j) THEN IF j = k THEN v ELSE mem[j] ELSE None
  BY DEF Kept
<1>4. \A j \in Keys : mem'[j] # None <=> Holds(age', j)
  BY <1>2, <1>3
<1>5. ASSUME Roomy, NEW j \in Keys, Holds(age, j) PROVE Holds(age', j)
  BY <1>1, <1>5, NothingEvicted DEF Roomy
<1> QED BY <1>1, <1>2, <1>4, <1>5

\* A hit keeps it too, and evicts nothing.
LEMMA Hits ==
  ASSUME TypeOK, Recent, NEW k \in Keys, Holds(age, k), age' = Use(age, k), mem' = mem
  PROVE  Recent'
<1> USE DEF TypeOK, Recent
<1>1. RecencyOrder(age')
  BY UseKeepsOrder
<1>2. \A j \in Keys : Holds(age', j) <=> Holds(age, j)
  BY LRUAssumption DEF Use, Holds, Ages
<1> QED BY <1>1, <1>2

\* What get and put do to the memory layer: a hit, a store, or nothing.
LEMMA MemoryStep ==
  ASSUME IInv, NEW t \in Threads, CacheGet(t) \/ CachePut(t)
  PROVE  /\ Recent'
         /\ Roomy => \A j \in Keys : mem[j] # None => mem'[j] # None
         /\ PutMem(t) \/ Warm(t) => mem'[KeyOf(t)] # None
<1>0. KeyOf(t) \in Keys
  BY CacheGetStep, CachePutStep, KeyOfType DEF IInv
<1>1. CASE GetHit(t)
  <2>1. Holds(age, KeyOf(t)) /\ age' = Use(age, KeyOf(t)) /\ mem' = mem
    BY <1>0, <1>1 DEF GetHit, IInv, Recent
  <2>2. pc[t] = "get"
    BY <1>1 DEF GetHit
  <2> QED BY <1>0, <2>1, <2>2, Hits DEF IInv, PutMem, Warm
<1>2. CASE PutMem(t) \/ Warm(t)
  <2>1. MemStore(KeyOf(t), data[t])
    BY <1>2 DEF PutMem, Warm
  <2>2. data[t] \in Bytes \ {None}
    BY <1>2 DEF PutMem, Warm, IInv, TypeOK, Carried
  <2> QED BY <1>0, <2>1, <2>2, Stores DEF IInv
<1>3. CASE ~ (GetHit(t) \/ PutMem(t) \/ Warm(t))
  <2>1. UNCHANGED <<mem, age>>
    BY <1>3 DEF CacheGet, Get, GetMiss, ReadFile, ReadNothing,
                CachePut, Put, PutOpen, PutWrite, PutRename, PutFails
  <2>2. Recent'
    BY <2>1 DEF IInv, Recent, RecencyOrder, Holds
  <2> QED BY <1>3, <2>1, <2>2
<1> QED BY <1>1, <1>2, <1>3

\* The memory layer stays a recency order: only get and put touch it.
LEMMA RecentStep == IInv /\ [Next]_vars => Recent'
<1> SUFFICES ASSUME IInv, [Next]_vars PROVE Recent'
  OBVIOUS
<1>1. CASE UNCHANGED <<mem, age>>
  BY <1>1 DEF IInv, Recent, RecencyOrder, Holds
<1>2. CASE Restart
  BY <1>2, LRUAssumption DEF Restart, Recent, RecencyOrder, Holds, NothingHeld
<1>3. ASSUME NEW t \in Threads, NEW k \in Keys, NEW l \in Limits, Call(t, k, l)
      PROVE  Recent'
  BY <1>1, <1>3 DEF Call
<1>4. ASSUME NEW t \in Threads, Step(t) PROVE Recent'
  <2>1. CASE CacheGet(t) \/ CachePut(t)
    BY <2>1, MemoryStep
  <2>2. CASE ~ (CacheGet(t) \/ CachePut(t))
    BY <1>1, <1>4, <2>2
       DEF Step, ReturnCached, BecomeLeader, ComputeTile, ComputeFails, PopInflight, SetEvent,
           PopError, BecomeFollower, Reraise, LookAgain, FallThrough, Recompute, GetRaises
  <2> QED BY <2>1, <2>2
<1> QED BY <1>1, <1>2, <1>3, <1>4 DEF Next, vars, cacheVars

\* Where there is room for all tiles, a tile that was put stays, and a follower of
\* the leader that put it hits it.
LEMMA RememberedStep == IInv /\ [Next]_vars => Remembered'
<1> SUFFICES ASSUME IInv, [Next]_vars, Roomy PROVE Remembered'
  BY DEF Remembered, Roomy
<1> USE DEF IInv, Remembered, Carried, Roles, Looking, Led, Leading, Finishing
<1>1. CASE UNCHANGED vars
  BY <1>1 DEF vars, cacheVars, coalescerVars, KeyOf
<1>2. CASE Restart
  BY <1>2, TileCacheAssumption DEF Restart, KeyOf
<1>3. ASSUME NEW t \in Threads, NEW k \in Keys, NEW l \in Limits, Call(t, k, l)
      PROVE  Remembered'
  BY <1>3, TileCacheAssumption DEF Call, Goto, TypeOK, KeyOf, coalescerVars
<1>4. ASSUME NEW t \in Threads, Step(t) PROVE Remembered'
  <2> USE DEF Goto, TypeOK, KeyOf, coalescerVars
  <2>0. pc[t] # "idle" => KeyOf(t) \in Keys
    BY KeyOfType
  <2>1. CASE ReturnCached(t)
    BY <2>1, <2>0, TileCacheAssumption DEF ReturnCached, Finish
  <2>2. CASE BecomeLeader(t)
    BY <2>2, <2>0, TileCacheAssumption DEF BecomeLeader
  <2>3. CASE ComputeTile(t)
    BY <2>3, <2>0, TileCacheAssumption DEF ComputeTile
  <2>4. CASE ComputeFails(t)
    BY <2>4, <2>0, TileCacheAssumption DEF ComputeFails
  <2>5. CASE PopInflight(t)
    BY <2>5, <2>0, TileCacheAssumption DEF PopInflight
  <2>6. CASE SetEvent(t)
    BY <2>6, <2>0, TileCacheAssumption DEF SetEvent, Outcomes, NoLostWakeup, LeadsFor
  <2>7. CASE PopError(t)
    BY <2>7, <2>0, TileCacheAssumption DEF PopError, Finish
  <2>8. CASE BecomeFollower(t)
    BY <2>8, <2>0, TileCacheAssumption DEF BecomeFollower
  <2>9. CASE Reraise(t)
    BY <2>9, <2>0, TileCacheAssumption DEF Reraise, Finish
  <2>10. CASE LookAgain(t)
    BY <2>10, <2>0, TileCacheAssumption DEF LookAgain
  <2>11. CASE FallThrough(t)
    BY <2>11, <2>0, TileCacheAssumption DEF FallThrough
  <2>12. CASE Recompute(t) \/ GetRaises(t)
    BY <2>12, <2>0, TileCacheAssumption DEF Recompute, GetRaises, Finish
  <2>13. CASE CacheGet(t)
    <3>1. \A u \in Threads : pc[u] # "idle" => KeyOf(u) \in Keys
      BY KeyOfType
    <3>2. \A j \in Keys : mem[j] # None => mem'[j] # None
      BY <2>13, MemoryStep
    <3>3. woke[t] = "ok" => pc[t] = "get" /\ pc'[t] = "got" /\ data'[t] # None
      BY <2>13, CacheGetStep DEF CacheGet, Get, GetHit, GetMiss, ReadFile, ReadNothing, Warm
    <3> HIDE DEF KeyOf
    <3> QED BY <2>13, <3>1, <3>2, <3>3, CacheGetStep DEF KeyOf
  <2>14. CASE CachePut(t)
    <3>1. \A u \in Threads : pc[u] # "idle" => KeyOf(u) \in Keys
      BY KeyOfType
    <3>2. /\ \A j \in Keys : mem[j] # None => mem'[j] # None
          /\ PutMem(t) => mem'[KeyOf(t)] # None
      BY <2>14, MemoryStep
    <3>3. PutMem(t) \/ pc[t] \in {"open", "write", "rename"}
      BY <2>14 DEF CachePut, Put, PutOpen, PutWrite, PutRename, PutFails
    <3>4. woke[t] # "ok"
      BY <2>14, CachePutStep
    <3> QED BY <2>14, <3>1, <3>2, <3>3, <3>4, CachePutStep
  <2> QED BY <1>4, <2>1, <2>2, <2>3, <2>4, <2>5, <2>6, <2>7, <2>8, <2>9, <2>10, <2>11, <2>12, <2>13, <2>14 DEF Step
<1> QED BY <1>1, <1>2, <1>3, <1>4 DEF Next

\* The inductive invariant holds before the first call.
LEMMA InitIInv == Init => IInv
<1> SUFFICES ASSUME Init PROVE IInv
  OBVIOUS
<1> USE DEF Init, CacheInit, ThreadsInit
<1>1. TypeOK
  BY InitType
<1>2. Roles /\ Carried /\ SingleFlight
  BY TileCacheAssumption
     DEF Roles, Carried, SingleFlight, Led, Leading, Finishing
<1>3. ErrorHasLeader /\ NoLostWakeup
  BY DEF ErrorHasLeader, NoLostWakeup
<1>4. Whole /\ Published
  BY TileCacheAssumption DEF Whole, NoTornTile, Published
<1>5. Recent
  BY LRUAssumption DEF Recent, RecencyOrder, Holds, NothingHeld
<1>6. Remembered
  BY DEF Remembered
<1> QED BY <1>1, <1>2, <1>3, <1>4, <1>5, <1>6 DEF IInv

\* The inductive invariant is inductive.
LEMMA IInvStep == IInv /\ [Next]_vars => IInv'
BY TypeStep, RolesStep, CarriedStep, SingleFlightStep, ErrorStep, WaitStep,
   WholeStep, PublishedStep, RecentStep, RememberedStep DEF IInv

\* The inductive invariant holds of every behaviour of get_or_compute.
THEOREM Invariance == Spec => []IInv
BY InitIInv, IInvStep, PTL DEF Spec

\* Every variable keeps its type, and a thread has a request exactly while it
\* is in get_or_compute.
THEOREM TypeCorrect == Spec => []TypeOK
<1>1. IInv => TypeOK
  BY DEF IInv
<1> QED BY <1>1, Invariance, PTL

\* At any time the thread in _inflight is the one and only leader of its key.
THEOREM OneLeaderPerKey == Spec => []SingleFlight
<1>1. IInv => SingleFlight
  BY DEF IInv
<1> QED BY <1>1, Invariance, PTL

\* The write-then-rename of TileCache.put never exposes half a tile.
THEOREM TilesAreWhole == Spec => []NoTornTile
<1>1. IInv => NoTornTile
  BY DEF IInv, Whole
<1> QED BY <1>1, Invariance, PTL

\* Every exception in _errors is one its leader is still going to remove.
THEOREM ErrorsAreTransient == Spec => []ErrorHasLeader
<1>1. IInv => ErrorHasLeader
  BY DEF IInv
<1> QED BY <1>1, Invariance, PTL

\* No follower waits for an Event that nobody is going to set.
THEOREM FollowersAreWoken == Spec => []NoLostWakeup
<1>1. IInv => NoLostWakeup
  BY DEF IInv
<1> QED BY <1>1, Invariance, PTL

\* A follower never recomputes what its leader computed where the memory layer
\* evicts nothing or the disk layer works.
THEOREM FollowersFindTheTile == Spec => []FollowerFindsTile
<1>1. IInv => FollowerFindsTile
  BY DEF IInv, Published, Remembered, FollowerFindsTile, Looking
<1> QED BY <1>1, Invariance, PTL

CacheBounded ==
  /\ IsFiniteSet({k \in Keys : mem[k] # None})
  /\ Cardinality({k \in Keys : mem[k] # None}) <= MaxSize

\* The memory layer never holds more tiles than its maxsize.
THEOREM CacheIsBounded == Spec => []CacheBounded
<1>1. ASSUME IInv PROVE CacheBounded
  <2>1. {k \in Keys : mem[k] # None} = {k \in Keys : Holds(age, k)}
    BY <1>1 DEF IInv, Recent
  <2> QED BY <1>1, <2>1, OrderBoundsSize DEF IInv, TypeOK, Recent, CacheBounded
<1> QED BY <1>1, Invariance, PTL

\* A tile file, once published, stays published.
THEOREM TilesStayOnDisk == Spec => DiskTileStays
<1> DEFINE Stays == \A k \in Keys : file[k] # None => file'[k] # None
<1>1. IInv /\ [Next]_vars => [Stays]_vars
  <2> SUFFICES ASSUME IInv, [Next]_vars PROVE [Stays]_vars
    OBVIOUS
  <2>1. CASE Restart
    BY <2>1 DEF Restart
  <2>2. ASSUME NEW t \in Threads, NEW k \in Keys, NEW l \in Limits, Call(t, k, l)
        PROVE  Stays
    BY <2>2 DEF Call
  <2>3. ASSUME NEW t \in Threads, Step(t) PROVE Stays
    <3>1. CASE CacheGet(t)
      BY <3>1, CacheGetStep DEF IInv
    <3>2. CASE CachePut(t)
      BY <3>2, CachePutStep, KeyOfType
         DEF IInv, TypeOK, CachePut, Put, PutMem, PutOpen, PutWrite, PutRename, PutFails
    <3> QED BY <2>3, <3>1, <3>2
            DEF Step, ReturnCached, BecomeLeader, ComputeTile, ComputeFails,
                PopInflight, SetEvent, PopError, BecomeFollower, Reraise,
                LookAgain, FallThrough, Recompute, GetRaises
  <2> QED BY <2>1, <2>2, <2>3 DEF Next
<1> QED BY <1>1, Invariance, PTL DEF Spec, DiskTileStays

(***************************************************************************)
(* get_or_compute implements SingleFlight: registering is Lead or Follow,  *)
(* _inflight.pop is Withdraw, wait_event.set() is Release, and no other    *)
(* step is visible.                                                        *)
(***************************************************************************)
\* No thread leads or follows at first.
LEMMA RefinedInit == Init => SF!Init
BY TileCacheAssumption DEF Init, ThreadsInit, SF!Init, leads, follows

\* SingleFlight does not see a step that leaves _inflight, leads and follows.
LEMMA Invisible ==
  ASSUME inflight' = inflight,
         \A u \in Threads : leads'[u] = leads[u] /\ follows'[u] = follows[u]
  PROVE  UNCHANGED SF!sfVars
BY DEF SF!sfVars, leads, follows

\* Every step of get_or_compute is a step of SingleFlight or invisible to it.
LEMMA RefinedStep == IInv /\ [Next]_vars => [SF!Next]_(SF!sfVars)
<1> SUFFICES ASSUME IInv, [Next]_vars PROVE [SF!Next]_(SF!sfVars)
  OBVIOUS
<1> USE DEF IInv, TypeOK, KeyOf
<1>1. CASE UNCHANGED vars
  BY <1>1, Invisible DEF vars, cacheVars, coalescerVars, leads, follows
<1>2. CASE Restart
  BY <1>2, TileCacheAssumption DEF Restart, SF!Next, SF!Restart, leads, follows
<1>3. ASSUME NEW t \in Threads, NEW k \in Keys, NEW l \in Limits, Call(t, k, l)
      PROVE  UNCHANGED SF!sfVars
  BY <1>3, Invisible, TileCacheAssumption DEF Call, Goto, Roles, coalescerVars, leads, follows
<1>4. ASSUME NEW t \in Threads, Step(t) PROVE [SF!Next]_(SF!sfVars)
  <2> USE DEF Goto, coalescerVars
  <2>0. pc[t] # "idle" => KeyOf(t) \in Keys
    BY KeyOfType
  <2>1. CASE BecomeLeader(t)
    <3>1. /\ leads[t] = None /\ follows[t] = None
          /\ inflight[KeyOf(t)] = None /\ KeyOf(t) \in Keys
      BY <2>0, <2>1, TileCacheAssumption DEF BecomeLeader, leads, follows
    <3>2. /\ inflight' = [inflight EXCEPT ![KeyOf(t)] = t]
          /\ leads' = [leads EXCEPT ![t] = KeyOf(t)]
          /\ follows' = follows
      BY <2>1, TileCacheAssumption DEF BecomeLeader, leads, follows
    <3> QED BY <3>1, <3>2 DEF SF!Next, SF!Lead
  <2>2. CASE BecomeFollower(t)
    <3>1. /\ leads[t] = None /\ follows[t] = None
          /\ inflight[KeyOf(t)] # None /\ KeyOf(t) \in Keys
      BY <2>0, <2>2, TileCacheAssumption DEF BecomeFollower, leads, follows
    <3>2. /\ inflight' = inflight
          /\ inflight[KeyOf(t)] # t /\ woke[t] = "unset"
      BY <2>0, <2>2, TileCacheAssumption
         DEF BecomeFollower, Roles, SingleFlight, Leading
    <3>3. leads' = leads
      BY <2>2, <3>2, TileCacheAssumption DEF BecomeFollower, leads
    <3>4. follows' = [follows EXCEPT ![t] = inflight[KeyOf(t)]]
      BY <2>2, <3>2 DEF BecomeFollower, follows
    <3> QED BY <3>1, <3>2, <3>3, <3>4 DEF SF!Next, SF!Follow
  <2>3. CASE PopInflight(t)
    <3>1. leads[t] = KeyOf(t) /\ inflight[KeyOf(t)] = t /\ KeyOf(t) \in Keys
      BY <2>0, <2>3 DEF PopInflight, leads, Roles, SingleFlight, Led, Leading
    <3>2. /\ inflight' = [inflight EXCEPT ![KeyOf(t)] = None]
          /\ leads' = leads
          /\ follows' = follows
      BY <2>3 DEF PopInflight, leads, follows
    <3> QED BY <3>1, <3>2 DEF SF!Next, SF!Withdraw
  <2>4. CASE SetEvent(t)
    <3>1. /\ leads[t] = KeyOf(t) /\ KeyOf(t) \in Keys
          /\ inflight[KeyOf(t)] # t /\ inflight' = inflight
      BY <2>0, <2>4
         DEF SetEvent, leads, Roles, SingleFlight, Led, Leading, Finishing
    <3>2. leads' = [leads EXCEPT ![t] = None]
      BY <2>4 DEF SetEvent, leads
    <3>3. follows' = [u \in Threads |->
                        IF follows[u] = t THEN None ELSE follows[u]]
      BY <2>4, TileCacheAssumption DEF SetEvent, Outcomes, follows
    <3> QED BY <3>1, <3>2, <3>3 DEF SF!Next, SF!Release
  <2>5. CASE PopError(t)
    BY <2>5, <2>0, Invisible, TileCacheAssumption DEF PopError, Finish, Roles, leads, follows
  <2>6. CASE CacheGet(t)
    BY <2>6, CacheGetStep, Invisible DEF Roles, Led, Leading, Finishing, leads, follows
  <2>7. CASE CachePut(t)
    BY <2>7, CachePutStep, Invisible DEF Roles, Led, Leading, Finishing, leads, follows
  <2>8. CASE ComputeTile(t) \/ ComputeFails(t) \/ FallThrough(t) \/ LookAgain(t)
    BY <2>8, Invisible
       DEF ComputeTile, ComputeFails, FallThrough, LookAgain, Roles, Led, Leading,
           Finishing, leads, follows
  <2>9. CASE ReturnCached(t) \/ Reraise(t) \/ Recompute(t) \/ GetRaises(t)
    BY <2>9, Invisible, TileCacheAssumption
       DEF ReturnCached, Reraise, Recompute, GetRaises, Finish, Roles, Led, Leading, Finishing,
           leads, follows
  <2> QED BY <1>4, <2>1, <2>2, <2>3, <2>4, <2>5, <2>6, <2>7, <2>8, <2>9 DEF Step
<1> QED BY <1>1, <1>2, <1>3, <1>4 DEF Next

\* RequestCoalescer keeps every promise of SingleFlight.
THEOREM Refinement == Spec => ImplementsSingleFlight
<1>1. Spec => SF!Spec
  BY RefinedInit, RefinedStep, Invariance, PTL DEF Spec, SF!Spec
<1> QED BY <1>1 DEF ImplementsSingleFlight
=============================================================================
