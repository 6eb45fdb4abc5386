-------------------------- MODULE RequestCoalescer --------------------------
(***************************************************************************)
(* tile_cache.RequestCoalescer.get_or_compute, run by worker threads over  *)
(* one TileCache.  A thread that misses the cache either registers an      *)
(* Event for the key and computes (the leader) or waits for the registered *)
(* Event (a follower).                                                     *)
(*                                                                         *)
(* An Event belongs to the leader that created it, so lead[t] names it by  *)
(* that thread: lead[t] = t for the leader itself.  woke[t] says that the  *)
(* Event t waits for is set.  It also records how that leader fared; the   *)
(* code keeps no such record, only properties read that part of it.        *)
(*                                                                         *)
(* An exception is named by the thread that raised it first.               *)
(***************************************************************************)
EXTENDS TileCache, FiniteSets

VARIABLES inflight,   \* _inflight: the leader registered for a key
          errors,     \* _errors: the exception left for the followers of a key
          lead,       \* the Event a thread created or waits for
          woke        \* whether that Event is set, and its leader's outcome

coalescerVars == <<inflight, errors, lead, woke>>
vars == <<cacheVars, coalescerVars>>

Outcomes == {"unset", "ok", "failed"}
Labels == {"idle", "get", "read", "warm", "got",
           "compute", "put", "open", "write", "rename", "stored",
           "set", "clear", "wait", "recompute"}

TypeOK ==
  /\ pc \in [Threads -> Labels]
  /\ req \in [Threads -> Request \cup {None}]
  /\ \A t \in Threads : req[t] = None <=> pc[t] = "idle"
  /\ data \in [Threads -> Bytes]
  /\ mem \in [Keys -> Bytes]
  /\ age \in [Keys -> Ages]
  /\ file \in [Keys -> Bytes]
  /\ tmp \in [Keys -> Bytes]
  /\ inflight \in [Keys -> Threads \cup {None}]
  /\ errors \in [Keys -> Threads \cup {None}]
  /\ lead \in [Threads -> Threads \cup {None}]
  /\ woke \in [Threads -> Outcomes]

\* No thread is serving a request.
ThreadsInit ==
  /\ pc = [t \in Threads |-> "idle"]
  /\ req = [t \in Threads |-> None]
  /\ data = [t \in Threads |-> None]
  /\ inflight = [k \in Keys |-> None]
  /\ errors = [k \in Keys |-> None]
  /\ lead = [t \in Threads |-> None]
  /\ woke = [t \in Threads |-> "unset"]

Init == CacheInit /\ ThreadsInit

Call(t, k, limit) ==
  /\ pc[t] = "idle"
  /\ req' = [req EXCEPT ![t] = [key |-> k, limit |-> limit]]
  /\ Goto(t, "get")
  /\ UNCHANGED <<data, mem, age, file, tmp, coalescerVars>>

\* Mutant: a finished call leaves its request behind.
FinishKeepsRequest(t) ==
  /\ Goto(t, "idle")
  /\ data' = [data EXCEPT ![t] = None]
  /\ lead' = [lead EXCEPT ![t] = None]
  /\ woke' = [woke EXCEPT ![t] = "unset"]
  /\ UNCHANGED req

\* The call ends, by returning data[t] or by raising.
Finish(t) ==
  /\ Goto(t, "idle")
  /\ req' = [req EXCEPT ![t] = None]
  /\ data' = [data EXCEPT ![t] = None]
  /\ lead' = [lead EXCEPT ![t] = None]
  /\ woke' = [woke EXCEPT ![t] = "unset"]

CacheGet(t) == Get(t) /\ UNCHANGED coalescerVars

\* The first or the second lookup found the tile.
ReturnCached(t) ==
  /\ pc[t] = "got" /\ data[t] # None
  /\ Finish(t)
  /\ UNCHANGED <<mem, age, file, tmp, inflight, errors>>

\* path.exists() is outside the try statement of get, and both lookups are
\* outside the one of a leader: what it raises ends the call.
GetRaises(t) ==
  /\ pc[t] = "read" /\ IOFaults
  /\ Finish(t)
  /\ UNCHANGED <<mem, age, file, tmp, inflight, errors>>

(***************************************************************************)
(* After a first miss: the locked test of _inflight.                       *)
(***************************************************************************)
\* Mutant: _inflight is tested before the lock is taken, not under it.
BecomeLeaderUntested(t) ==
  /\ pc[t] = "got" /\ data[t] = None /\ lead[t] = None
  /\ inflight' = [inflight EXCEPT ![KeyOf(t)] = t]
  /\ lead' = [lead EXCEPT ![t] = t]
  /\ Goto(t, "compute")
  /\ UNCHANGED <<req, data, mem, age, file, tmp, errors, woke>>

BecomeLeader(t) ==
  /\ pc[t] = "got" /\ data[t] = None /\ lead[t] = None
  /\ inflight[KeyOf(t)] = None
  /\ inflight' = [inflight EXCEPT ![KeyOf(t)] = t]
  /\ lead' = [lead EXCEPT ![t] = t]
  /\ Goto(t, "compute")
  /\ UNCHANGED <<req, data, mem, age, file, tmp, errors, woke>>

BecomeFollower(t) ==
  /\ pc[t] = "got" /\ data[t] = None /\ lead[t] = None
  /\ inflight[KeyOf(t)] # None
  /\ lead' = [lead EXCEPT ![t] = inflight[KeyOf(t)]]
  /\ Goto(t, "wait")
  /\ UNCHANGED <<req, data, mem, age, file, tmp, inflight, errors, woke>>

(***************************************************************************)
(* Follower: the Event is set, _errors is read, the cache looked up again. *)
(***************************************************************************)
Reraise(t) ==
  /\ pc[t] = "wait" /\ woke[t] # "unset"
  /\ errors[KeyOf(t)] # None
  /\ Finish(t)
  /\ UNCHANGED <<mem, age, file, tmp, inflight, errors>>

LookAgain(t) ==
  /\ pc[t] = "wait" /\ woke[t] # "unset"
  /\ errors[KeyOf(t)] = None
  /\ Goto(t, "get")
  /\ UNCHANGED <<req, data, mem, age, file, tmp, coalescerVars>>

FallThrough(t) ==
  /\ pc[t] = "got" /\ data[t] = None /\ lead[t] # None
  /\ Goto(t, "recompute")
  /\ UNCHANGED <<req, data, mem, age, file, tmp, coalescerVars>>

\* A follower that computes returns the tile or raises; it stores nothing.
Recompute(t) ==
  /\ pc[t] = "recompute"
  /\ Finish(t)
  /\ UNCHANGED <<mem, age, file, tmp, inflight, errors>>

(***************************************************************************)
(* Leader: compute and store, then the finally block in its three steps.   *)
(***************************************************************************)
ComputeTile(t) ==
  /\ pc[t] = "compute"
  /\ data' = [data EXCEPT ![t] = req[t].limit]
  /\ Goto(t, "put")
  /\ UNCHANGED <<req, mem, age, file, tmp, coalescerVars>>

\* Mutant: except without finally.
ComputeFailsNoFinally(t) ==
  /\ pc[t] = "compute"
  /\ Finish(t)
  /\ UNCHANGED <<mem, age, file, tmp, inflight, errors>>

ComputeFails(t) ==
  /\ pc[t] = "compute"
  /\ errors' = [errors EXCEPT ![KeyOf(t)] = t]
  /\ Goto(t, "stored")
  /\ UNCHANGED <<req, data, mem, age, file, tmp, inflight, lead, woke>>

CachePut(t) == Put(t) /\ UNCHANGED coalescerVars

\* Mutant: the Event is set while its leader is still in _inflight.
PopInflightForgotten(t) ==
  /\ pc[t] = "stored"
  /\ Goto(t, "set")
  /\ UNCHANGED <<req, data, mem, age, file, tmp, coalescerVars>>

PopInflight(t) ==
  /\ pc[t] = "stored"
  /\ inflight' = [inflight EXCEPT ![KeyOf(t)] = None]
  /\ Goto(t, "set")
  /\ UNCHANGED <<req, data, mem, age, file, tmp, errors, lead, woke>>

\* Mutant: notify of a Condition, which wakes one waiter, instead of an Event.
NotifyOne(t) ==
  /\ pc[t] = "set"
  /\ LET waiting == {u \in Threads :
                      pc[u] = "wait" /\ lead[u] = t /\ woke[u] = "unset"}
     IN  IF waiting = {} THEN woke' = woke
         ELSE \E u \in waiting :
                woke' = [woke EXCEPT
                           ![u] = IF data[t] = None THEN "failed" ELSE "ok"]
  /\ Goto(t, "clear")
  /\ UNCHANGED <<req, data, mem, age, file, tmp, inflight, errors, lead>>

\* wait_event.set() reaches every thread that obtained this Event, also one
\* that has not called wait() yet.
SetEvent(t) ==
  /\ pc[t] = "set"
  /\ woke' = [u \in Threads |->
                IF pc[u] = "wait" /\ lead[u] = t /\ woke[u] = "unset"
                  THEN IF data[t] = None THEN "failed" ELSE "ok"
                  ELSE woke[u]]
  /\ Goto(t, "clear")
  /\ UNCHANGED <<req, data, mem, age, file, tmp, inflight, errors, lead>>

\* Mutant: the exception is kept for followers that are still to come.
PopErrorForgotten(t) ==
  /\ pc[t] = "clear"
  /\ Finish(t)
  /\ UNCHANGED <<mem, age, file, tmp, inflight, errors>>

PopError(t) ==
  /\ pc[t] = "clear"
  /\ errors' = [errors EXCEPT ![KeyOf(t)] = None]
  /\ Finish(t)
  /\ UNCHANGED <<mem, age, file, tmp, inflight>>

(***************************************************************************)
(* The process dies and a new one starts on the same cache directory.      *)
(***************************************************************************)
Restart ==
  /\ pc' = [t \in Threads |-> "idle"]
  /\ req' = [t \in Threads |-> None]
  /\ data' = [t \in Threads |-> None]
  /\ inflight' = [k \in Keys |-> None]
  /\ errors' = [k \in Keys |-> None]
  /\ lead' = [t \in Threads |-> None]
  /\ woke' = [t \in Threads |-> "unset"]
  /\ mem' = [k \in Keys |-> None]
  /\ age' = NothingHeld
  /\ UNCHANGED <<file, tmp>>

Step(t) ==
  \/ CacheGet(t) \/ ReturnCached(t) \/ GetRaises(t)
  \/ BecomeLeader(t) \/ ComputeTile(t) \/ ComputeFails(t) \/ CachePut(t)
  \/ PopInflight(t) \/ SetEvent(t) \/ PopError(t)
  \/ BecomeFollower(t) \/ Reraise(t) \/ LookAgain(t)
  \/ FallThrough(t) \/ Recompute(t)

Next ==
  \/ \E t \in Threads : Step(t) \/ \E k \in Keys, l \in Limits : Call(t, k, l)
  \/ Restart

Spec == Init /\ [][Next]_vars

\* A worker thread that can run is scheduled, and a compute ends: the watchdog
\* of query_features bounds it.  Nothing obliges a client to call.
FairSpec == Spec /\ \A t \in Threads : WF_vars(Step(t))

(***************************************************************************)
(* Properties                                                              *)
(***************************************************************************)
Leading == {"compute", "put", "open", "write", "rename", "stored"}
Finishing == {"set", "clear"}

LeadsFor(t, k) == lead[t] = t /\ KeyOf(t) = k /\ pc[t] \in Leading \cup Finishing

\* get_or_compute, "only one of them actually runs compute_fn": the thread in
\* _inflight is the only one between registering and un-registering for its
\* key, whatever its put, its failure or an overlapping generation do.
SingleFlight ==
  \A t \in Threads, k \in Keys :
    inflight[k] = t
      <=> pc[t] \in Leading /\ KeyOf(t) = k

\* TileCache.put writes a .tmp file and renames it so that nobody reads half a
\* tile.  The .tmp name is the same for every writer, so this rests on the
\* coalescer letting one writer per key in, across failed writes and restarts.
NoTornTile ==
  /\ \A k \in Keys : mem[k] # Torn /\ file[k] # Torn
  /\ \A t \in Threads : data[t] # Torn

\* The finally block of get_or_compute: an exception left for followers is
\* always removed again, by a leader of that key that is still to do so.
ErrorHasLeader ==
  \A k \in Keys : errors[k] # None =>
    LeadsFor(errors[k], k) /\ pc[errors[k]] \in {"stored", "set", "clear"}

\* wait_event.wait() has no timeout: a blocked follower's Event must belong
\* to a leader of the same key that has yet to set it.
NoLostWakeup ==
  \A t \in Threads : pc[t] = "wait" /\ woke[t] = "unset" =>
    /\ LeadsFor(lead[t], KeyOf(t))
    /\ pc[lead[t]] # "clear"

Roomy == IsFiniteSet(Keys) /\ Cardinality(Keys) <= MaxSize

\* The comment in get_or_compute expects a follower to recompute only after
\* "cache evicted them before this follower woke up".  A follower of a leader
\* that succeeded finds the tile unless both layers fail it: the memory layer is
\* too small for the tiles asked for, and the disk layer is missing or faulty.
FollowerFindsTile ==
  Roomy \/ (HasDisk /\ ~ IOFaults) =>
    \A t \in Threads : woke[t] = "ok" => pc[t] # "recompute"

\* A tile that reached the disk is never lost or emptied again: put replaces
\* the file in one step, and a restart or a failed write leaves it.
DiskTileStays ==
  [][\A k \in Keys : file[k] # None => file'[k] # None]_vars

\* Every request that entered get_or_compute returns or raises.
EveryCallReturns ==
  \A t \in Threads : pc[t] # "idle" ~> pc[t] = "idle"

\* The abstract state: what a thread leads until it has set its Event, and whom
\* a blocked follower waits for.
leads == [t \in Threads |->
            IF lead[t] = t /\ pc[t] # "clear" THEN KeyOf(t) ELSE None]

follows == [t \in Threads |->
              IF pc[t] = "wait" /\ woke[t] = "unset" THEN lead[t] ELSE None]

SF == INSTANCE SingleFlight WITH leader <- inflight

\* Registration, waiting and release behave as SingleFlight says: a leader
\* withdraws before it releases, and releases all its followers at once.
ImplementsSingleFlight == SF!Spec
=============================================================================
