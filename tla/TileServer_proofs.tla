-------------------------- MODULE TileServer_proofs --------------------------
(***************************************************************************)
(* Theorems about TileServer, for any number of clients, workers,          *)
(* questions, tiles and clauses.  The inductive invariant IInv joins       *)
(* TypeOK, FollowersOfRunningJobs and NeverUnfiltered with what they rest  *)
(* on:                                                                     *)
(*                                                                         *)
(*   Queued      the queue holds the jobs no worker has, each of them once *)
(*   Roles       a leader's job is on a worker from the lead to the        *)
(*               release, and a job that is past its cache asks for a key  *)
(*   Registered  a key has the leader whose job has not yet withdrawn      *)
(*   Translated  a translation that is over and raised nothing has left    *)
(*               SQL where there is a question, and only there             *)
(*   Rejections  who has or leaves behind a rejection, leaves it for a     *)
(*               tile and a clause that a query was rejected for           *)
(***************************************************************************)
EXTENDS TileServer, FiniteSetTheorems, TLAPS

Queued ==
  /\ \A c \in Clients : job[c] = "queued" <=> \E i \in 1 .. Len(queue) : queue[i] = c
  /\ \A i, j \in 1 .. Len(queue) : queue[i] = queue[j] => i = j

Roles ==
  /\ \A c \in Clients : leads[c] # None => job[c] \in {"work", "stored", "withdrawn"}
  /\ \A c \in Clients : job[c] \in {"stored", "withdrawn"} => leads[c] # None
  /\ \A c \in Clients : leads[c] # None => leads[c] = KeyOf(c)
  /\ \A c \in Clients : pc[c] = "compile" /\ job[c] \in OnWorker \ {"start"} => ask[c].q # None
  /\ \A c \in Clients : follows[c] # None => leads[follows[c]] # None

Registered ==
  \A k \in Keys, c \in Clients :
    leader[k] = c <=> leads[c] = k /\ job[c] \in {"work", "stored"}

Translated ==
  \A c \in Clients :
    pc[c] = "compile" /\ job[c] \in {"stored", "withdrawn", "released", "done"} /\ raised[c] = None
      => (sql[c] = None <=> ask[c].q = None)

Rejections ==
  /\ \A k \in Keys : errors[k] = "rejected" => k \in rejects
  /\ \A c \in Clients :
       raised[c] = "rejected" => pc[c] = "compute" /\ <<ask[c].tile, sql[c]>> \in rejects

IInv ==
  /\ TypeOK
  /\ IsFiniteSet(Busy)
  /\ Queued
  /\ Roles
  /\ Registered
  /\ FollowersOfRunningJobs
  /\ Translated
  /\ NeverUnfiltered
  /\ Rejections

\* Nothing has arrived: every part of the invariant holds.
LEMMA InitInv == Init => IInv
<1> SUFFICES ASSUME Init PROVE IInv
  OBVIOUS
<1> USE ServerAssumption DEF Init, SF!Init
<1>1. Busy = {}
  BY DEF Busy, OnWorker
<1>2. IsFiniteSet(Busy) /\ Cardinality(Busy) <= Workers
  BY <1>1, FS_EmptySet
<1>3. TypeOK
  BY <1>2 DEF TypeOK
<1>4. Queued /\ Roles /\ Registered
  BY DEF Queued, Roles, Registered
<1>5. FollowersOfRunningJobs /\ Translated /\ NeverUnfiltered
  BY DEF FollowersOfRunningJobs, Translated, NeverUnfiltered
<1>6. Rejections
  BY DEF Rejections, Exceptions
<1> QED BY <1>2, <1>3, <1>4, <1>5, <1>6 DEF IInv

\* What a job asks its coalescer for is a question or a tile.
LEMMA KeyOfType ==
  ASSUME TypeOK, NEW c \in Clients, job[c] # "none",
         pc[c] = "compile" => ask[c].q # None
  PROVE  KeyOf(c) \in Keys
BY DEF TypeOK, KeyOf, TileKey, Keys, TileKeys, Questions, Asks

\* A handler that ends has no job, or one that is done.
LEMMA RespondsAs ==
  ASSUME TypeOK, NEW c \in Clients,
         \/ Refuse(c) \/ Abandon(c) \/ CompileRaised(c) \/ Answer(c) \/ DropFilter(c)
         \/ LookUp(c) /\ TileKey(c) \in tiles
         \/ LookUpRaises(c)
  PROVE  /\ Respond(c)
         /\ job[c] \in {"none", "done"}
         /\ filters' \in [Questions -> Sqls \cup {None}]
         /\ UNCHANGED <<queue, tiles, rejects, errors, leader, leads, follows>>
BY DEF TypeOK, Refuse, Abandon, CompileRaised, Answer, DropFilter, LookUp, LookUpRaises,
       ComputeDone, cacheVars, flightVars

\* A job that returns what its cache holds has SQL, or needs none.
LEMMA ReturnsAs ==
  ASSUME TypeOK, NEW c \in Clients, ReturnCached(c)
  PROVE  /\ \/ pc[c] # "compile" /\ sql' = sql
            \/ /\ pc[c] = "compile"
               /\ \E s \in Sqls \cup {None} :
                    (s = None <=> ask[c].q = None) /\ sql' = [sql EXCEPT ![c] = s]
         /\ UNCHANGED <<pc, ask, queue, raised, filters, tiles, rejects, errors, leader, leads, follows>>
<1>1. ask[c] # None => ask[c].q \in Questions \cup {None}
  BY DEF TypeOK, Questions, Asks
<1>2. pc[c] = "compile" => FilterFor(c) \in Sqls \cup {None} /\ (FilterFor(c) = None <=> ask[c].q = None)
  BY <1>1 DEF ReturnCached, Cached, FilterFor, TypeOK
<1> QED BY <1>2 DEF ReturnCached, cacheVars, flightVars

\* The workers are never more than there are: only an idle one takes a job.
LEMMA BusyStep ==
  IInv /\ [Next]_vars => (IsFiniteSet(Busy) /\ Cardinality(Busy) <= Workers)'
<1> SUFFICES ASSUME IInv, [Next]_vars
             PROVE  IsFiniteSet(Busy') /\ Cardinality(Busy') <= Workers
  OBVIOUS
<1>0. IsFiniteSet(Busy) /\ Cardinality(Busy) <= Workers /\ Workers \in Nat /\ Cardinality(Busy) \in Nat
  BY ServerAssumption, FS_CardinalityType DEF IInv, TypeOK
<1>1. CASE TakeJob
  <2>1. Busy' \subseteq Busy \cup {Head(queue)} /\ Cardinality(Busy) < Workers
    BY <1>1 DEF TakeJob, JobStep, Busy, IInv, TypeOK
  <2>2. /\ IsFiniteSet(Busy \cup {Head(queue)})
        /\ \/ Cardinality(Busy \cup {Head(queue)}) = Cardinality(Busy)
           \/ Cardinality(Busy \cup {Head(queue)}) = Cardinality(Busy) + 1
    BY <1>0, FS_AddElement, Zenon
  <2>3. IsFiniteSet(Busy') /\ Cardinality(Busy') <= Cardinality(Busy \cup {Head(queue)})
    BY <2>1, <2>2, FS_Subset
  <2>4. Cardinality(Busy \cup {Head(queue)}) \in Nat /\ Cardinality(Busy') \in Nat
    BY <2>2, <2>3, FS_CardinalityType
  <2> QED BY <1>0, <2>1, <2>2, <2>3, <2>4
<1>2. CASE ~ TakeJob
  <2>1. Busy' \subseteq Busy
    <3>1. SUFFICES \A c \in Clients : job'[c] \in OnWorker => job[c] \in OnWorker
      BY DEF Busy
    <3> USE DEF IInv, TypeOK, OnWorker
    <3>2. CASE UNCHANGED vars
      BY <3>2 DEF vars
    <3>3. ASSUME NEW c \in Clients, NEW a \in Asks, Arrive(c, a) PROVE job' = job
      BY <3>3 DEF Arrive
    <3>4. ASSUME NEW c \in Clients, Handle(c)
          PROVE  \A u \in Clients : job'[u] \in OnWorker => job[u] \in OnWorker
      BY <3>4, RespondsAs DEF Handle, StartCompile, Compiled, LookUp, StartCompute, Submit, Respond
    <3>5. ASSUME NEW c \in Clients, JobOf(c) PROVE job[c] \in OnWorker /\ \E l : job' = [job EXCEPT ![c] = l]
      BY <3>5 DEF JobOf, FindCached, GetRaises, Lead, Follow, Reraise, PickUp, FallThrough, Translate, Compute,
                  WorkFails, Withdraw, Release, PopError, JobStep
    <3>6. ASSUME NEW c \in Clients, JobOf(c)
          PROVE  \A u \in Clients : job'[u] \in OnWorker => job[u] \in OnWorker
      BY <3>5, <3>6
    <3> QED BY <1>2, <3>2, <3>3, <3>4, <3>6 DEF Next
  <2>2. IsFiniteSet(Busy') /\ Cardinality(Busy') <= Cardinality(Busy)
    BY <1>0, <2>1, FS_Subset
  <2>3. Cardinality(Busy') \in Nat
    BY <2>2, FS_CardinalityType
  <2> QED BY <1>0, <2>2, <2>3
<1> QED BY <1>1, <1>2

\* Every step keeps every type.
LEMMA TypeStep == IInv /\ [Next]_vars => TypeOK'
<1> SUFFICES ASSUME IInv, [Next]_vars, Cardinality(Busy') <= Workers PROVE TypeOK'
  BY BusyStep
<1> USE ServerAssumption DEF IInv, TypeOK, OnWorker, cacheVars, flightVars, handlerVars
<1>1. CASE UNCHANGED vars
  BY <1>1 DEF vars
<1>2. CASE TakeJob
  BY <1>2 DEF TakeJob, JobStep
<1>3. ASSUME NEW c \in Clients, NEW a \in Asks, Arrive(c, a) PROVE TypeOK'
  BY <1>3 DEF Arrive
<1>4. ASSUME NEW c \in Clients, Handle(c) PROVE TypeOK'
  <2>1. CASE \/ Refuse(c) \/ Abandon(c) \/ CompileRaised(c) \/ Answer(c) \/ DropFilter(c)
             \/ LookUp(c) /\ TileKey(c) \in tiles
             \/ LookUpRaises(c)
    <3>1. /\ filters' \in [Questions -> Sqls \cup {None}]
          /\ UNCHANGED <<queue, tiles, rejects, errors, leader, leads, follows>>
      BY <2>1, RespondsAs
    <3>2. Respond(c)
      BY <2>1, RespondsAs
    <3> QED BY <3>1, <3>2 DEF Respond
  <2>2. ASSUME NEW stage \in {"compile", "compute"}, Submit(c, stage), pc[c] # "idle",
               UNCHANGED <<ask, sql, raised, cacheVars, errors, flightVars>>
        PROVE  TypeOK'
    <3>1. queue' \in Seq(Clients)
      BY <2>2 DEF Submit
    <3> QED BY <2>2, <3>1 DEF Submit
  <2>3. CASE StartCompile(c) \/ StartCompute(c)
    BY <2>2, <2>3 DEF StartCompile, StartCompute
  <2>5. CASE Compiled(c)
    BY <2>5 DEF Compiled
  <2>4. CASE LookUp(c) /\ TileKey(c) \notin tiles
    BY <2>4 DEF LookUp
  <2> QED BY <1>4, <2>1, <2>3, <2>4, <2>5 DEF Handle
<1>5. ASSUME NEW c \in Clients, JobOf(c) PROVE TypeOK'
  <2>0. job[c] \in OnWorker /\ job[c] # "start" => KeyOf(c) \in Keys
    BY KeyOfType DEF Roles
  <2>1. CASE FindCached(c) \/ PickUp(c)
    <3>1. job' = [job EXCEPT ![c] = "done"] /\ job[c] \in {"start", "wait"}
      BY <2>1 DEF FindCached, PickUp, JobStep, Woken
    <3> QED BY <2>1, <3>1, ReturnsAs DEF FindCached, PickUp
  <2>2. CASE Lead(c)
    <3>1. KeyOf(c) \in Keys
      BY <2>2, KeyOfType DEF Lead, JobStep, Cached
    <3> QED BY <2>2, <3>1 DEF Lead, JobStep, SF!Lead
  <2>3. CASE Follow(c)
    <3>1. KeyOf(c) \in Keys
      BY <2>3, KeyOfType DEF Follow, JobStep, Cached
    <3> QED BY <2>3, <3>1 DEF Follow, JobStep, SF!Follow
  <2>4. CASE Reraise(c)
    <3>1. KeyOf(c) \in Keys
      BY <2>0, <2>4 DEF Reraise, JobStep
    <3> QED BY <2>4, <3>1 DEF Reraise, JobStep
  <2>5. CASE FallThrough(c)
    BY <2>5 DEF FallThrough, JobStep
  <2>6. ASSUME NEW s \in Sqls, Translate(c, s) PROVE TypeOK'
    BY <2>6 DEF Translate, JobStep, AfterWork
  <2>7. CASE Compute(c)
    <3>1. TileKey(c) \in TileKeys
      BY <2>7 DEF Compute, TileKey, TileKeys, Asks
    <3> QED BY <2>7, <3>1 DEF Compute, JobStep, AfterWork
  <2>8. ASSUME NEW e \in Exceptions, WorkFails(c, e) PROVE TypeOK'
    <3>1. pc[c] # "idle" /\ ask[c] \in Asks /\ sql[c] \in Sqls \cup {None}
      BY <2>8 DEF WorkFails, JobStep
    <3>2. <<ask[c].tile, sql[c]>> \in TileKeys
      BY <3>1 DEF TileKeys, Asks
    <3>3. rejects' \subseteq TileKeys
      BY <2>8, <3>2 DEF WorkFails
    <3> QED BY <2>8, <3>3 DEF WorkFails, JobStep, AfterWork
  <2>9. CASE Withdraw(c)
    BY <2>9 DEF Withdraw, JobStep, SF!Withdraw
  <2>10. CASE Release(c)
    BY <2>10 DEF Release, JobStep, SF!Release
  <2>11. CASE PopError(c)
    BY <2>11 DEF PopError, JobStep
  <2>12. CASE GetRaises(c)
    BY <2>12 DEF GetRaises, JobStep, Woken, Exceptions
  <2> QED BY <1>5, <2>1, <2>2, <2>3, <2>4, <2>5, <2>6, <2>7, <2>8, <2>9, <2>10, <2>11, <2>12
      DEF JobOf
<1> QED BY <1>1, <1>2, <1>3, <1>4, <1>5 DEF Next

\* A job is queued when it is submitted, at the end, and leaves the queue at the
\* front, for a worker.
LEMMA QueuedStep == IInv /\ [Next]_vars => Queued'
<1> SUFFICES ASSUME IInv, [Next]_vars PROVE Queued'
  OBVIOUS
<1> USE DEF Queued, cacheVars, flightVars, handlerVars
<1>0. job \in [Clients -> {"none", "queued", "done"} \cup OnWorker] /\ queue \in Seq(Clients)
      /\ Len(queue) \in Nat
  BY DEF IInv, TypeOK
<1>1. ASSUME queue' = queue, \A c \in Clients : job'[c] = "queued" <=> job[c] = "queued"
      PROVE  Queued'
  BY <1>1 DEF IInv
<1>2. CASE TakeJob
  <2>1. /\ queue # <<>> /\ queue' = Tail(queue)
        /\ job' = [job EXCEPT ![queue[1]] = "start"]
    BY <1>0, <1>2 DEF TakeJob, JobStep
  <2>2. /\ Len(queue') = Len(queue) - 1
        /\ \A i \in 1 .. Len(queue) - 1 : queue'[i] = queue[i + 1]
        /\ Len(queue) > 0 /\ queue[1] \in Clients
    BY <1>0, <2>1
  <2>3. /\ \A c \in Clients : job[c] = "queued" <=> \E i \in 1 .. Len(queue) : queue[i] = c
        /\ \A i, j \in 1 .. Len(queue) : queue[i] = queue[j] => i = j
    BY DEF IInv
  <2>4. \A i, j \in 1 .. Len(queue') : queue'[i] = queue'[j] => i = j
    BY <1>0, <2>2, <2>3
  <2>5. ASSUME NEW c \in Clients
        PROVE  job'[c] = "queued" <=> \E i \in 1 .. Len(queue') : queue'[i] = c
    <3>1. CASE c = queue[1]
      <4>1. \A i \in 2 .. Len(queue) : queue[i] # c
        BY <1>0, <2>2, <2>3, <3>1
      <4>2. \A i \in 1 .. Len(queue') : queue'[i] # c
        BY <1>0, <2>2, <4>1
      <4>3. job'[c] = "start"
        BY <1>0, <2>1, <3>1
      <4> QED BY <4>2, <4>3
    <3>2. CASE c # queue[1]
      <4>1. job'[c] = job[c]
        BY <1>0, <2>1, <3>2
      <4>2. ASSUME NEW i \in 1 .. Len(queue), queue[i] = c
            PROVE  i - 1 \in 1 .. Len(queue') /\ queue'[i - 1] = c
        BY <1>0, <2>2, <3>2, <4>2
      <4>3. ASSUME NEW i \in 1 .. Len(queue'), queue'[i] = c
            PROVE  i + 1 \in 1 .. Len(queue) /\ queue[i + 1] = c
        BY <1>0, <2>2, <4>3
      <4> QED BY <2>3, <4>1, <4>2, <4>3
    <3> QED BY <3>1, <3>2
  <2> QED BY <2>4, <2>5
<1>3. ASSUME NEW c \in Clients, Submit(c, pc'[c]), job[c] = "none" PROVE Queued'
  <2>1. /\ job' = [job EXCEPT ![c] = "queued"]
        /\ queue' = Append(queue, c)
    BY <1>3 DEF Submit
  <2>2. /\ Len(queue') = Len(queue) + 1
        /\ \A i \in 1 .. Len(queue) : queue'[i] = queue[i]
        /\ queue'[Len(queue) + 1] = c
    BY <1>0, <2>1
  <2>3. /\ \A u \in Clients : job[u] = "queued" <=> \E i \in 1 .. Len(queue) : queue[i] = u
        /\ \A i, j \in 1 .. Len(queue) : queue[i] = queue[j] => i = j
        /\ \A i \in 1 .. Len(queue) : queue[i] # c
    BY <1>3 DEF IInv
  <2>4. \A i, j \in 1 .. Len(queue') : queue'[i] = queue'[j] => i = j
    BY <1>0, <2>2, <2>3
  <2>5. ASSUME NEW u \in Clients
        PROVE  job'[u] = "queued" <=> \E i \in 1 .. Len(queue') : queue'[i] = u
    <3>1. CASE u = c
      BY <1>0, <2>1, <2>2, <3>1
    <3>2. CASE u # c
      BY <1>0, <2>1, <2>2, <2>3, <3>2
    <3> QED BY <3>1, <3>2
  <2> QED BY <2>4, <2>5
<1>4. CASE UNCHANGED vars
  BY <1>1, <1>4 DEF vars
<1>5. ASSUME NEW c \in Clients, NEW a \in Asks, Arrive(c, a) PROVE Queued'
  BY <1>1, <1>5 DEF Arrive
<1>6. ASSUME NEW c \in Clients, Handle(c) PROVE Queued'
  <2>1. CASE \/ Refuse(c) \/ Abandon(c) \/ CompileRaised(c) \/ Answer(c) \/ DropFilter(c)
             \/ LookUp(c) /\ TileKey(c) \in tiles
             \/ LookUpRaises(c)
    BY <1>0, <1>1, <2>1, RespondsAs DEF Respond, IInv
  <2>2. CASE StartCompile(c) \/ StartCompute(c)
    BY <1>3, <2>2 DEF StartCompile, StartCompute, Submit, IInv, TypeOK
  <2>3. CASE Compiled(c)
    BY <1>0, <1>1, <2>3 DEF Compiled
  <2>4. CASE LookUp(c) /\ TileKey(c) \notin tiles
    BY <1>1, <2>4 DEF LookUp
  <2> QED BY <1>6, <2>1, <2>2, <2>3, <2>4 DEF Handle
<1>7. ASSUME NEW c \in Clients, JobOf(c) PROVE Queued'
  <2>1. /\ queue' = queue
        /\ job[c] \in OnWorker
        /\ \E l \in {"done"} \cup OnWorker : job' = [job EXCEPT ![c] = l]
    BY <1>7 DEF JobOf, FindCached, GetRaises, Lead, Follow, Reraise, PickUp, FallThrough, Translate, Compute,
                WorkFails, Withdraw, Release, PopError, JobStep, ReturnCached, AfterWork, OnWorker
  <2> QED BY <1>0, <1>1, <2>1 DEF OnWorker
<1> QED BY <1>2, <1>4, <1>5, <1>6, <1>7 DEF Next

Flight == Roles /\ Registered /\ FollowersOfRunningJobs

\* A step of one handler that leaves its job off the tables of SingleFlight does
\* not disturb them.
LEMMA FlightUntouched ==
  ASSUME TypeOK, Flight, NEW c \in Clients,
         job[c] \in {"none", "queued", "start", "released", "done"},
         job'[c] \in {"none", "queued", "start", "done"},
         \A u \in Clients \ {c} :
           pc'[u] = pc[u] /\ ask'[u] = ask[u] /\ sql'[u] = sql[u] /\ job'[u] = job[u],
         UNCHANGED <<leader, leads, follows>>
  PROVE  Flight'
<1>1. leads[c] = None /\ \A u \in Clients : follows[u] # c
  BY ServerAssumption DEF Flight, Roles, FollowersOfRunningJobs
<1>2. \A u \in Clients \ {c} : KeyOf(u)' = KeyOf(u)
  BY DEF KeyOf, TileKey
<1>3. Roles'
  BY <1>1, <1>2 DEF TypeOK, Flight, Roles, OnWorker
<1>4. Registered'
  BY <1>1 DEF TypeOK, Flight, Registered
<1>5. FollowersOfRunningJobs'
  BY <1>1, ServerAssumption DEF TypeOK, Flight, FollowersOfRunningJobs
<1> QED BY <1>3, <1>4, <1>5 DEF Flight

\* A job that goes from one stage to the next without touching the tables of
\* SingleFlight, and still asks for the same key, keeps them.
LEMMA FlightMoves ==
  ASSUME TypeOK, Flight, NEW c \in Clients,
         \/ job[c] = "work" /\ job'[c] = AfterWork(c)
         \/ job[c] = "wait" /\ follows[c] = None /\ job'[c] \in {"work", "done"},
         \A u \in Clients \ {c} : job'[u] = job[u] /\ sql'[u] = sql[u],
         pc[c] # "compile" => sql'[c] = sql[c],
         UNCHANGED <<pc, ask, leader, leads, follows>>
  PROVE  Flight'
<1>1. \A u \in Clients : KeyOf(u)' = KeyOf(u)
  BY DEF KeyOf, TileKey
<1>2. \/ leads[c] # None /\ job[c] = "work" /\ job'[c] = "stored"
      \/ leads[c] = None /\ job[c] \in {"wait", "work"} /\ job'[c] \in {"work", "done"}
  BY DEF AfterWork, Flight, Roles
<1>3. follows[c] = None
  BY ServerAssumption DEF Flight, FollowersOfRunningJobs
<1>0. None \notin Clients
  BY ServerAssumption
<1>4. Roles'
  <2>1. \A u \in Clients : pc'[u] = "compile" /\ job'[u] \in OnWorker \ {"start"} => ask'[u].q # None
    BY <1>2 DEF TypeOK, Flight, Roles, OnWorker
  <2>2. /\ \A u \in Clients : leads'[u] # None => job'[u] \in {"work", "stored", "withdrawn"}
        /\ \A u \in Clients : job'[u] \in {"stored", "withdrawn"} => leads'[u] # None
    BY <1>2 DEF TypeOK, Flight, Roles
  <2>3. /\ \A u \in Clients : leads'[u] # None => leads'[u] = KeyOf(u)'
        /\ \A u \in Clients : follows'[u] # None => leads'[follows'[u]] # None
    BY <1>1 DEF Flight, Roles
  <2> QED BY <2>1, <2>2, <2>3 DEF Roles
<1>5. Registered'
  BY <1>2, ServerAssumption DEF TypeOK, Flight, Registered
<1>6. FollowersOfRunningJobs'
  BY <1>2, <1>3, ServerAssumption DEF TypeOK, Flight, Roles, FollowersOfRunningJobs
<1> QED BY <1>4, <1>5, <1>6 DEF Flight

\* A leader registers, withdraws and releases as SingleFlight says, and its job
\* is on a worker all the while.
LEMMA FlightStep == IInv /\ [Next]_vars => Flight'
<1> SUFFICES ASSUME IInv, [Next]_vars PROVE Flight'
  OBVIOUS
<1> USE ServerAssumption DEF cacheVars, flightVars, handlerVars
<1>0. TypeOK /\ Flight
  BY DEF IInv, Flight
<1>1. CASE UNCHANGED vars
  BY <1>0, <1>1 DEF vars, Flight, Roles, Registered, FollowersOfRunningJobs, KeyOf, TileKey
<1>2. CASE TakeJob
  <2>1. Head(queue) \in Clients
    BY <1>0, <1>2 DEF TypeOK, TakeJob
  <2> QED BY <1>0, <1>2, <2>1, FlightUntouched DEF TypeOK, TakeJob, JobStep
<1>3. ASSUME NEW c \in Clients, NEW a \in Asks, Arrive(c, a) PROVE Flight'
  BY <1>0, <1>3, FlightUntouched DEF TypeOK, Arrive
<1>4. ASSUME NEW c \in Clients, Handle(c) PROVE Flight'
  <2>1. CASE \/ Refuse(c) \/ Abandon(c) \/ CompileRaised(c) \/ Answer(c) \/ DropFilter(c)
             \/ LookUp(c) /\ TileKey(c) \in tiles
             \/ LookUpRaises(c)
    <3>1. Respond(c) /\ job[c] \in {"none", "done"} /\ UNCHANGED <<leader, leads, follows>>
      BY <1>0, <2>1, RespondsAs
    <3> QED BY <1>0, <3>1, FlightUntouched DEF TypeOK, Respond
  <2>2. CASE StartCompile(c) \/ StartCompute(c)
    BY <1>0, <2>2, FlightUntouched DEF TypeOK, StartCompile, StartCompute, Submit
  <2>3. CASE Compiled(c)
    BY <1>0, <2>3, FlightUntouched DEF TypeOK, Compiled
  <2>4. CASE LookUp(c) /\ TileKey(c) \notin tiles
    BY <1>0, <2>4, FlightUntouched DEF TypeOK, LookUp
  <2> QED BY <1>4, <2>1, <2>2, <2>3, <2>4 DEF Handle
<1>5. ASSUME NEW c \in Clients, JobOf(c) PROVE Flight'
  <2>1. CASE FindCached(c)
    <3>1. \A u \in Clients \ {c} : sql'[u] = sql[u]
      BY <1>0, <2>1, ReturnsAs DEF TypeOK, FindCached
    <3> QED BY <1>0, <2>1, <3>1, FlightUntouched DEF TypeOK, FindCached, JobStep, ReturnCached
  <2>2. CASE PickUp(c)
    <3>1. \A u \in Clients \ {c} : sql'[u] = sql[u]
      BY <1>0, <2>2, ReturnsAs DEF TypeOK, PickUp
    <3>2. pc[c] # "compile" => sql'[c] = sql[c]
      BY <1>0, <2>2, ReturnsAs DEF TypeOK, PickUp
    <3> QED BY <1>0, <2>2, <3>1, <3>2, FlightMoves DEF TypeOK, PickUp, JobStep, Woken, ReturnCached
  <2>3. CASE Reraise(c)
    BY <1>0, <2>3, FlightMoves DEF TypeOK, Reraise, JobStep, Woken
  <2>4. CASE FallThrough(c)
    BY <1>0, <2>4, FlightMoves DEF TypeOK, FallThrough, JobStep, Woken
  <2>5. ASSUME NEW s \in Sqls, Translate(c, s) PROVE Flight'
    BY <1>0, <2>5, FlightMoves DEF TypeOK, Translate, JobStep
  <2>6. CASE Compute(c)
    BY <1>0, <2>6, FlightMoves DEF TypeOK, Compute, JobStep
  <2>7. ASSUME NEW e \in Exceptions, WorkFails(c, e) PROVE Flight'
    BY <1>0, <2>7, FlightMoves DEF TypeOK, WorkFails, JobStep
  <2>8. CASE PopError(c)
    BY <1>0, <2>8, FlightUntouched DEF TypeOK, PopError, JobStep
  <2>9. CASE Lead(c)
    <3> DEFINE k == KeyOf(c)
    <3>1. /\ k \in Keys /\ job[c] = "start" /\ leads[c] = None /\ follows[c] = None
          /\ leader[k] = None
          /\ pc[c] = "compile" => ask[c].q # None
      BY <1>0, <2>9, KeyOfType DEF Lead, JobStep, Cached, SF!Lead
    <3>2. /\ job' = [job EXCEPT ![c] = "work"]
          /\ leader' = [leader EXCEPT ![k] = c]
          /\ leads' = [leads EXCEPT ![c] = k]
          /\ UNCHANGED <<pc, ask, sql, follows>>
      BY <2>9 DEF Lead, JobStep, SF!Lead
    <3>3. \A u \in Clients : KeyOf(u)' = KeyOf(u)
      BY <3>2 DEF KeyOf, TileKey
    <3> HIDE DEF k
    <3>4. Roles'
      BY <1>0, <3>1, <3>2, <3>3 DEF k, TypeOK, Flight, Roles, OnWorker
    <3>5. Registered'
      BY <1>0, <3>1, <3>2 DEF TypeOK, Flight, Registered
    <3>6. FollowersOfRunningJobs'
      BY <1>0, <3>1, <3>2 DEF TypeOK, Flight, FollowersOfRunningJobs
    <3> QED BY <3>4, <3>5, <3>6 DEF Flight
  <2>10. CASE Follow(c)
    <3> DEFINE l == leader[KeyOf(c)]
    <3>1. /\ KeyOf(c) \in Keys /\ job[c] = "start" /\ leads[c] = None /\ follows[c] = None
          /\ l # None
          /\ pc[c] = "compile" => ask[c].q # None
      BY <1>0, <2>10, KeyOfType DEF Follow, JobStep, Cached, SF!Follow
    <3>2. /\ job' = [job EXCEPT ![c] = "wait"]
          /\ follows' = [follows EXCEPT ![c] = l]
          /\ UNCHANGED <<pc, ask, sql, leader, leads>>
      BY <2>10 DEF Follow, JobStep, SF!Follow
    <3>3. \A u \in Clients : KeyOf(u)' = KeyOf(u)
      BY <3>2 DEF KeyOf, TileKey
    <3>4. l \in Clients /\ leads[l] # None /\ job[l] \in {"work", "stored"} /\ l # c
      BY <1>0, <3>1 DEF TypeOK, Flight, Registered
    <3> HIDE DEF l
    <3>5. Roles'
      BY <1>0, <3>1, <3>2, <3>3, <3>4 DEF TypeOK, Flight, Roles, OnWorker
    <3>6. Registered'
      BY <1>0, <3>1, <3>2 DEF TypeOK, Flight, Registered
    <3>7. FollowersOfRunningJobs'
      BY <1>0, <3>1, <3>2, <3>4 DEF TypeOK, Flight, FollowersOfRunningJobs
    <3> QED BY <3>5, <3>6, <3>7 DEF Flight
  <2>11. CASE Withdraw(c)
    <3> DEFINE k == KeyOf(c)
    <3>1. job[c] = "stored" /\ leads[c] = k /\ leads[c] \in Keys /\ leader[k] = c
      BY <1>0, <2>11 DEF Withdraw, JobStep, SF!Withdraw, TypeOK, Flight, Roles
    <3>2. /\ job' = [job EXCEPT ![c] = "withdrawn"]
          /\ leader' = [leader EXCEPT ![k] = None]
          /\ UNCHANGED <<pc, ask, sql, leads, follows>>
      BY <2>11 DEF Withdraw, JobStep, SF!Withdraw
    <3>3. \A u \in Clients : KeyOf(u)' = KeyOf(u)
      BY <3>2 DEF KeyOf, TileKey
    <3> HIDE DEF k
    <3>4. Roles'
      BY <1>0, <3>1, <3>2, <3>3 DEF TypeOK, Flight, Roles, OnWorker
    <3>5. Registered'
      BY <1>0, <3>1, <3>2 DEF TypeOK, Flight, Registered
    <3>6. FollowersOfRunningJobs'
      BY <1>0, <3>1, <3>2 DEF TypeOK, Flight, FollowersOfRunningJobs
    <3> QED BY <3>4, <3>5, <3>6 DEF Flight
  <2>12. CASE Release(c)
    <3>1. job[c] = "withdrawn"
      BY <2>12 DEF Release, JobStep
    <3>2. /\ job' = [job EXCEPT ![c] = "released"]
          /\ leads' = [leads EXCEPT ![c] = None]
          /\ follows' = [u \in Clients |-> IF follows[u] = c THEN None ELSE follows[u]]
          /\ UNCHANGED <<pc, ask, sql, leader>>
      BY <2>12 DEF Release, JobStep, SF!Release
    <3>3. \A u \in Clients : KeyOf(u)' = KeyOf(u)
      BY <3>2 DEF KeyOf, TileKey
    <3>4. Roles'
      BY <1>0, <3>1, <3>2, <3>3 DEF TypeOK, Flight, Roles, OnWorker
    <3>5. Registered'
      BY <1>0, <3>1, <3>2 DEF TypeOK, Flight, Registered
    <3>6. FollowersOfRunningJobs'
      BY <1>0, <3>1, <3>2 DEF TypeOK, Flight, FollowersOfRunningJobs
    <3> QED BY <3>4, <3>5, <3>6 DEF Flight
  <2>13. CASE GetRaises(c)
    <3>1. CASE job[c] = "start"
      BY <1>0, <2>13, <3>1, FlightUntouched DEF TypeOK, GetRaises, JobStep
    <3>2. CASE Woken(c) /\ job'[c] = "done"
      BY <1>0, <2>13, <3>2, FlightMoves DEF TypeOK, GetRaises, JobStep, Woken
    <3> QED BY <1>0, <2>13, <3>1, <3>2 DEF TypeOK, GetRaises, JobStep, Woken
  <2> QED BY <1>5, <2>1, <2>2, <2>3, <2>4, <2>5, <2>6, <2>7, <2>8, <2>9, <2>10, <2>11, <2>12,
             <2>13 DEF JobOf
<1> QED BY <1>1, <1>2, <1>3, <1>4, <1>5 DEF Next

\* Of one handler, what Translated and NeverUnfiltered say.
Filtered(c) ==
  /\ pc[c] = "compile" /\ job[c] \in {"stored", "withdrawn", "released", "done"} /\ raised[c] = None
       => (sql[c] = None <=> ask[c].q = None)
  /\ pc[c] \in {"look", "check", "compute"} => (sql[c] = None <=> ask[c].q = None)

\* A handler leaves "compile" for the tile only with the SQL its question needs:
\* from the cache, from a translation of its own or from its leader's.
LEMMA FilterStep == IInv /\ [Next]_vars => (Translated /\ NeverUnfiltered)'
<1> SUFFICES ASSUME IInv, [Next]_vars, NEW u \in Clients PROVE Filtered(u)'
  BY DEF Filtered, Translated, NeverUnfiltered
<1> USE ServerAssumption DEF cacheVars, flightVars, handlerVars
<1>0. TypeOK /\ Filtered(u)
  BY DEF IInv, Filtered, Translated, NeverUnfiltered
<1>1. CASE UNCHANGED vars
  BY <1>0, <1>1 DEF vars, Filtered
<1>2. CASE TakeJob
  BY <1>0, <1>2 DEF TypeOK, TakeJob, JobStep, Filtered
<1>3. ASSUME NEW c \in Clients, NEW a \in Asks, Arrive(c, a) PROVE Filtered(u)'
  BY <1>0, <1>3 DEF TypeOK, Arrive, Filtered
<1>4. ASSUME NEW c \in Clients, Handle(c) PROVE Filtered(u)'
  <2>1. CASE \/ Refuse(c) \/ Abandon(c) \/ CompileRaised(c) \/ Answer(c) \/ DropFilter(c)
             \/ LookUp(c) /\ TileKey(c) \in tiles
             \/ LookUpRaises(c)
    <3>1. Respond(c)
      BY <1>0, <2>1, RespondsAs
    <3> QED BY <1>0, <3>1 DEF TypeOK, Respond, Filtered
  <2>2. CASE StartCompile(c) \/ StartCompute(c)
    BY <1>0, <2>2 DEF TypeOK, StartCompile, StartCompute, Submit, Filtered
  <2>3. CASE Compiled(c)
    BY <1>0, <2>3 DEF TypeOK, Compiled, Filtered
  <2>4. CASE LookUp(c) /\ TileKey(c) \notin tiles
    BY <1>0, <2>4 DEF TypeOK, LookUp, Filtered
  <2> QED BY <1>4, <2>1, <2>2, <2>3, <2>4 DEF Handle
<1>5. ASSUME NEW c \in Clients, JobOf(c) PROVE Filtered(u)'
  <2>1. CASE FindCached(c) \/ PickUp(c)
    <3>1. /\ job' = [job EXCEPT ![c] = "done"]
          /\ ReturnCached(c)
      BY <2>1 DEF FindCached, PickUp, JobStep
    <3>2. /\ \/ pc[c] # "compile" /\ sql' = sql
             \/ /\ pc[c] = "compile"
                /\ \E s \in Sqls \cup {None} :
                     (s = None <=> ask[c].q = None) /\ sql' = [sql EXCEPT ![c] = s]
          /\ UNCHANGED <<pc, ask, raised>>
      BY <1>0, <3>1, ReturnsAs
    <3> QED BY <1>0, <3>1, <3>2 DEF TypeOK, Filtered
  <2>2. CASE Lead(c) \/ Follow(c)
    BY <1>0, <2>2 DEF TypeOK, Lead, Follow, JobStep, Filtered
  <2>3. CASE Reraise(c)
    BY <1>0, <2>3 DEF TypeOK, Reraise, JobStep, Filtered
  <2>4. CASE FallThrough(c)
    BY <1>0, <2>4 DEF TypeOK, FallThrough, JobStep, Filtered
  <2>5. ASSUME NEW s \in Sqls, Translate(c, s) PROVE Filtered(u)'
    <3>1. ask[c].q # None /\ s # None
      BY <2>5 DEF Translate, JobStep, IInv, Roles, OnWorker
    <3> QED BY <1>0, <2>5, <3>1 DEF TypeOK, Translate, JobStep, Filtered
  <2>6. CASE Compute(c)
    BY <1>0, <2>6 DEF TypeOK, Compute, JobStep, Filtered
  <2>7. ASSUME NEW e \in Exceptions, WorkFails(c, e) PROVE Filtered(u)'
    <3>1. e # None
      OBVIOUS
    <3> QED BY <1>0, <2>7, <3>1 DEF TypeOK, WorkFails, JobStep, Filtered
  <2>8. CASE Withdraw(c) \/ Release(c) \/ PopError(c)
    BY <1>0, <2>8 DEF TypeOK, Withdraw, Release, PopError, JobStep, Filtered
  <2>9. CASE GetRaises(c)
    BY <1>0, <2>9 DEF TypeOK, GetRaises, JobStep, Woken, Filtered
  <2> QED BY <1>5, <2>1, <2>2, <2>3, <2>4, <2>5, <2>6, <2>7, <2>8, <2>9 DEF JobOf
<1> QED BY <1>1, <1>2, <1>3, <1>4, <1>5 DEF Next

\* A rejection comes from a query of the very tile and clause its handler asks
\* for: the key under which a leader leaves it is the key its followers read.
LEMMA RejectionStep == IInv /\ [Next]_vars => Rejections'
<1> SUFFICES ASSUME IInv, [Next]_vars PROVE Rejections'
  OBVIOUS
<1> USE ServerAssumption DEF cacheVars, flightVars, handlerVars
<1>0. TypeOK /\ Rejections /\ Roles
  BY DEF IInv
<1>a. ASSUME UNCHANGED <<errors, rejects, raised>>,
             \A u \in Clients : raised[u] = "rejected" =>
               pc'[u] = pc[u] /\ ask'[u] = ask[u] /\ sql'[u] = sql[u]
      PROVE  Rejections'
  BY <1>0, <1>a DEF Rejections
<1>1. CASE UNCHANGED vars
  BY <1>1, <1>a DEF vars
<1>2. CASE TakeJob
  BY <1>2, <1>a DEF TakeJob
<1>3. ASSUME NEW c \in Clients, NEW a \in Asks, Arrive(c, a) PROVE Rejections'
  BY <1>0, <1>3, <1>a DEF TypeOK, Arrive, Rejections
<1>4. ASSUME NEW c \in Clients, Handle(c) PROVE Rejections'
  <2>1. CASE \/ Refuse(c) \/ Abandon(c) \/ CompileRaised(c) \/ Answer(c) \/ DropFilter(c)
             \/ LookUp(c) /\ TileKey(c) \in tiles
             \/ LookUpRaises(c)
    <3>1. Respond(c) /\ UNCHANGED <<rejects, errors>>
      BY <1>0, <2>1, RespondsAs
    <3>2. raised'[c] = None
          /\ \A u \in Clients \ {c} : pc'[u] = pc[u] /\ ask'[u] = ask[u]
                                       /\ sql'[u] = sql[u] /\ raised'[u] = raised[u]
      BY <1>0, <3>1 DEF TypeOK, Respond
    <3> QED BY <1>0, <3>1, <3>2 DEF Rejections, Exceptions
  <2>2. CASE \/ StartCompile(c) \/ StartCompute(c) \/ Compiled(c)
             \/ LookUp(c) /\ TileKey(c) \notin tiles
    <3>1. /\ raised[c] # "rejected"
          /\ UNCHANGED <<errors, rejects, raised, ask, sql>>
          /\ \A u \in Clients \ {c} : pc'[u] = pc[u]
      BY <1>0, <2>2
         DEF TypeOK, StartCompile, StartCompute, Compiled, LookUp, Submit, Rejections
    <3>2. \A u \in Clients : raised[u] = "rejected" =>
            pc'[u] = pc[u] /\ ask'[u] = ask[u] /\ sql'[u] = sql[u]
      BY <3>1
    <3>3. UNCHANGED <<errors, rejects, raised>>
      BY <3>1
    <3> QED BY <1>a, <3>2, <3>3
  <2> QED BY <1>4, <2>1, <2>2 DEF Handle
<1>5. ASSUME NEW c \in Clients, JobOf(c) PROVE Rejections'
  <2>1. CASE FindCached(c) \/ PickUp(c)
    <3>1. /\ UNCHANGED <<pc, ask, raised, rejects, errors>>
          /\ \A u \in Clients : pc[u] # "compile" => sql'[u] = sql[u]
      BY <1>0, <2>1, ReturnsAs DEF TypeOK, FindCached, PickUp
    <3> QED BY <1>0, <1>a, <3>1 DEF Rejections
  <2>2. CASE Lead(c) \/ Follow(c) \/ FallThrough(c) \/ Compute(c) \/ Withdraw(c) \/ Release(c)
    BY <1>a, <2>2 DEF Lead, Follow, FallThrough, Compute, Withdraw, Release
  <2>3. ASSUME NEW s \in Sqls, Translate(c, s) PROVE Rejections'
    BY <1>0, <1>a, <2>3 DEF TypeOK, Translate, Rejections
  <2>4. CASE Reraise(c)
    <3>1. KeyOf(c) \in Keys /\ (pc[c] = "compile" => KeyOf(c) \in Questions)
      <4>1. job[c] # "none" /\ (pc[c] = "compile" => ask[c].q # None /\ ask[c] # None)
        BY <1>0, <2>4 DEF TypeOK, Roles, Reraise, JobStep, OnWorker
      <4> QED BY <1>0, <4>1, KeyOfType DEF TypeOK, KeyOf, Questions, Asks
    <3>2. raised' = [raised EXCEPT ![c] = errors[KeyOf(c)]] /\ job[c] # "none"
          /\ UNCHANGED <<pc, ask, sql, rejects, errors>>
      BY <2>4 DEF Reraise, JobStep
    <3>3. CASE errors[KeyOf(c)] = "rejected"
      <4>1. KeyOf(c) \in rejects /\ pc[c] = "compute" /\ KeyOf(c) = <<ask[c].tile, sql[c]>>
        BY <1>0, <3>1, <3>2, <3>3 DEF TypeOK, Rejections, KeyOf, TileKey
      <4> QED BY <1>0, <3>2, <4>1 DEF TypeOK, Rejections
    <3>4. CASE errors[KeyOf(c)] # "rejected"
      BY <1>0, <3>2, <3>4 DEF TypeOK, Rejections
    <3> QED BY <3>3, <3>4
  <2>5. CASE GetRaises(c)
    BY <1>0, <2>5 DEF TypeOK, GetRaises, Rejections
  <2>6. ASSUME NEW e \in Exceptions, WorkFails(c, e) PROVE Rejections'
    <3>1. /\ raised' = [raised EXCEPT ![c] = e]
          /\ errors' \in {errors, [errors EXCEPT ![KeyOf(c)] = e]}
          /\ rejects \subseteq rejects'
          /\ UNCHANGED <<pc, ask, sql>>
      BY <2>6 DEF WorkFails
    <3>2. CASE e = "rejected"
      <4>1. pc[c] = "compute"
        BY <1>0, <2>6, <3>2 DEF TypeOK, WorkFails, JobStep
      <4>2. KeyOf(c) = <<ask[c].tile, sql[c]>> /\ KeyOf(c) \in rejects'
        BY <2>6, <3>2, <4>1 DEF WorkFails, KeyOf, TileKey
      <4>3. \A k \in Keys : errors'[k] = "rejected" => k \in rejects'
        BY <1>0, <3>1, <4>2 DEF TypeOK, Rejections
      <4>4. \A u \in Clients : raised'[u] = "rejected" =>
              pc[u] = "compute" /\ <<ask[u].tile, sql[u]>> \in rejects'
        BY <1>0, <3>1, <4>1, <4>2 DEF TypeOK, Rejections
      <4> QED BY <3>1, <4>3, <4>4 DEF Rejections
    <3>3. CASE e # "rejected"
      BY <1>0, <3>1, <3>3 DEF TypeOK, Rejections
    <3> QED BY <3>2, <3>3
  <2>7. CASE PopError(c)
    <3>1. errors' = [errors EXCEPT ![KeyOf(c)] = None] /\ UNCHANGED <<pc, ask, sql, raised, rejects>>
      BY <2>7 DEF PopError
    <3> QED BY <1>0, <3>1 DEF TypeOK, Rejections, Exceptions
  <2> QED BY <1>5, <2>1, <2>2, <2>3, <2>4, <2>5, <2>6, <2>7 DEF JobOf
<1> QED BY <1>1, <1>2, <1>3, <1>4, <1>5 DEF Next

\* Every step keeps every part of the invariant.
LEMMA NextInv == IInv /\ [Next]_vars => IInv'
BY BusyStep, TypeStep, QueuedStep, FlightStep, FilterStep, RejectionStep DEF IInv, Flight

\* The inductive invariant holds throughout.
LEMMA Invariance == Spec => []IInv
BY InitInv, NextInv, PTL DEF Spec

(***************************************************************************)
(* The properties.                                                         *)
(***************************************************************************)
\* Every variable keeps its type, and no more jobs run than there are workers.
THEOREM TypeCorrect == Spec => []TypeOK
<1>1. IInv => TypeOK
  BY DEF IInv
<1> QED BY <1>1, Invariance, PTL

\* A job that blocks its worker waits for a job that has a worker, never for one
\* in the queue.
THEOREM NoFollowerOfAQueuedJob == Spec => []FollowersOfRunningJobs
<1>1. IInv => FollowersOfRunningJobs
  BY DEF IInv
<1> QED BY <1>1, Invariance, PTL

\* No request with a question is answered with the tile that has no filter.
THEOREM QuestionsAreFiltered == Spec => []NeverUnfiltered
<1>1. IInv => NeverUnfiltered
  BY DEF IInv
<1> QED BY <1>1, Invariance, PTL

\* No job is lost or run twice: those that no worker has taken are in the queue,
\* once each.
THEOREM QueueIsExact == Spec => []Queued
<1>1. IInv => Queued
  BY DEF IInv
<1> QED BY <1>1, Invariance, PTL

\* The pool never stands still: as long as there is a job, an idle worker can take
\* one or a job on a worker is not blocked, however few workers there are.
THEOREM PoolNeverStandsStill == Spec => []PoolMoves
<1>1. ASSUME IInv, NEW c \in Clients, job[c] \in OnWorker
      PROVE  \E u \in Clients : job[u] \in OnWorker /\ (job[u] = "wait" => Woken(u))
  <2>1. CASE job[c] # "wait" \/ follows[c] = None
    BY <1>1, <2>1 DEF Woken
  <2>2. CASE follows[c] # None
    <3>1. follows[c] \in Clients /\ job[follows[c]] \in {"work", "stored", "withdrawn"}
      BY <1>1, <2>2 DEF IInv, TypeOK, FollowersOfRunningJobs
    <3> QED BY <3>1 DEF OnWorker
  <2> QED BY <2>1, <2>2
<1>2. ASSUME IInv, NEW c \in Clients, job[c] = "queued"
      PROVE  PoolMoves
  <2>1. queue # <<>> /\ Head(queue) \in Clients /\ job[Head(queue)] = "queued"
    <3>1. queue \in Seq(Clients) /\ \E i \in 1 .. Len(queue) : queue[i] = c
      BY <1>2 DEF IInv, TypeOK, Queued
    <3>2. queue # <<>> /\ Len(queue) \in Nat \ {0} /\ Head(queue) = queue[1] /\ queue[1] \in Clients
      BY <3>1
    <3> QED BY <1>2, <3>2 DEF IInv, Queued
  <2>2. CASE Cardinality(Busy) < Workers
    BY <2>1, <2>2 DEF PoolMoves
  <2>3. CASE Busy # {}
    <3>1. \E u \in Clients : job[u] \in OnWorker
      BY <2>3 DEF Busy
    <3> QED BY <1>1, <1>2, <3>1 DEF PoolMoves
  <2>4. CASE Busy = {}
    <3>1. Cardinality(Busy) = 0
      BY <2>4, FS_EmptySet
    <3> QED BY <2>2, <3>1, ServerAssumption
  <2> QED BY <2>3, <2>4
<1>3. IInv => PoolMoves
  BY <1>1, <1>2 DEF PoolMoves
<1> QED BY <1>3, Invariance, PTL

\* A translation leaves the cache only when a handler of its question was to draw
\* a tile with a clause that a query of this tile was rejected for.
THEOREM FiltersAreKept == Spec => OnlyRejectedClausesDrop
<1> DEFINE Dropped(q) ==
      \E c \in Clients : /\ pc[c] = "compute" /\ pc'[c] = "idle" /\ ask[c].q = q
                         /\ <<ask[c].tile, sql[c]>> \in rejects
<1>1. ASSUME IInv, [Next]_vars, NEW q \in Questions, filters[q] # None, filters'[q] = None
      PROVE  Dropped(q)
  <2> USE DEF cacheVars, flightVars, handlerVars
  <2>1. ASSUME NEW c \in Clients, DropFilter(c) PROVE Dropped(q)
    <3>1. ask[c].q = q /\ pc[c] = "compute" /\ raised[c] = "rejected" /\ pc'[c] = "idle"
      BY <1>1, <2>1 DEF DropFilter, ComputeDone, Respond, IInv, TypeOK
    <3>2. <<ask[c].tile, sql[c]>> \in rejects
      BY <1>1, <3>1 DEF IInv, Rejections
    <3> QED BY <3>1, <3>2
  <2>2. ASSUME NEW c \in Clients, NEW s \in Sqls, Translate(c, s) PROVE FALSE
    BY <1>1, <2>2, ServerAssumption DEF Translate, IInv, TypeOK
  <2>3. CASE filters' = filters
    BY <1>1, <2>3
  <2> HIDE DEF Dropped
  <2> QED BY <1>1, <2>1, <2>2, <2>3
       DEF Next, vars, Arrive, Handle, JobOf, TakeJob, Refuse, Abandon, StartCompile,
           CompileRaised, Compiled, LookUp, LookUpRaises, StartCompute, Answer, FindCached,
           GetRaises, ReturnCached, Lead, Follow, Reraise, PickUp, FallThrough, Compute,
           WorkFails, Withdraw, Release, PopError
<1>2. IInv /\ [Next]_vars =>
        [\A q \in Questions : filters[q] # None /\ filters'[q] = None => Dropped(q)]_vars
  BY <1>1
<1> QED BY <1>2, Invariance, PTL DEF Spec, OnlyRejectedClausesDrop

(***************************************************************************)
(* What follows from SingleFlight alone.  Both coalescers implement it, so *)
(* it holds of their registered leaders and blocked followers too.         *)
(***************************************************************************)
SFInv ==
  /\ leader \in [Keys -> Clients \cup {None}]
  /\ leads \in [Clients -> Keys \cup {None}]
  /\ follows \in [Clients -> Clients \cup {None}]
  /\ SF!LeaderLeads
  /\ SF!NoOrphan

\* A thread that registers leads nothing yet, one that releases is no longer
\* registered and leaves no follower behind: every step keeps the invariant.
LEMMA SFInvStep == SFInv /\ [SF!Next]_(SF!sfVars) => SFInv'
<1> SUFFICES ASSUME SFInv, [SF!Next]_(SF!sfVars) PROVE SFInv'
  OBVIOUS
<1> USE ServerAssumption DEF SFInv, SF!LeaderLeads, SF!NoOrphan
<1>1. ASSUME NEW c \in Clients, NEW k \in Keys, SF!Lead(c, k) PROVE SFInv'
  BY <1>1 DEF SF!Lead
<1>2. ASSUME NEW c \in Clients, NEW k \in Keys, SF!Follow(c, k) PROVE SFInv'
  BY <1>2 DEF SF!Follow
<1>3. ASSUME NEW c \in Clients, NEW k \in Keys, SF!Withdraw(c, k) PROVE SFInv'
  BY <1>3 DEF SF!Withdraw
<1>4. ASSUME NEW c \in Clients, NEW k \in Keys, SF!Release(c, k) PROVE SFInv'
  BY <1>4 DEF SF!Release
<1>5. CASE SF!Restart
  BY <1>5 DEF SF!Restart
<1>6. CASE UNCHANGED SF!sfVars
  BY <1>6 DEF SF!sfVars
<1> QED BY <1>1, <1>2, <1>3, <1>4, <1>5, <1>6 DEF SF!Next

\* No thread is registered for two keys, and nobody waits for a thread that has
\* nothing left to release.
THEOREM SingleFlightIsSound == SF!Spec => [](SF!LeaderLeads /\ SF!NoOrphan)
<1>1. SF!Init => SFInv
  BY ServerAssumption DEF SF!Init, SFInv, SF!LeaderLeads, SF!NoOrphan
<1>2. SFInv => SF!LeaderLeads /\ SF!NoOrphan
  BY DEF SFInv
<1> QED BY <1>1, <1>2, SFInvStep, PTL DEF SF!Spec
=============================================================================
