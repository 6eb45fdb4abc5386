------------------------------ MODULE TileCache ------------------------------
(***************************************************************************)
(* The two-layer tile cache of tile_cache.py: an in-memory LRU over a      *)
(* directory with one file per tile.  get and put are split where the code *)
(* leaves its lock or makes a system call, so that threads interleave at   *)
(* those points:                                                           *)
(*                                                                         *)
(*   get   the locked lookup, the file read, the locked warm-up            *)
(*   put   the locked store, open of the .tmp file, its write, its rename  *)
(*                                                                         *)
(* A key stands for (dataset, z, x, y, filter_sql), which the code maps    *)
(* one to one to a memory key and to a file name.  A tile is represented   *)
(* by the feature limit of the query that computed it, which is all that   *)
(* tells two tiles of a key apart here.  A file that was opened for        *)
(* writing and not yet written holds Torn.                                 *)
(*                                                                         *)
(* A caller enters with pc "get" or "put" and gets control back at "got"   *)
(* (data holds the bytes, or None for a miss) or "stored".                 *)
(***************************************************************************)
EXTENDS LRU

CONSTANTS Threads,    \* worker threads of the server process
          Limits,     \* feature limits a request may carry
          HasDisk,    \* FALSE: the cache directory could not be created
          IOFaults,   \* TRUE: any file operation may raise OSError
          None,       \* no entry, no bytes, no thread
          Torn        \* bytes that are not a whole tile

Request == [key : Keys, limit : Limits]
Bytes == Limits \cup {Torn, None}

ASSUME TileCacheAssumption ==
  /\ Limits \subseteq Nat
  /\ HasDisk \in BOOLEAN
  /\ IOFaults \in BOOLEAN
  /\ None \notin Threads \cup Keys \cup Limits \cup Request \cup {Torn}
  /\ Torn \notin Limits

VARIABLES pc,     \* where each thread is
          req,    \* the request a thread serves: its key and its limit
          data,   \* the bytes a thread holds, looked up or computed
          mem,    \* the in-memory layer ...
          age,    \* ... and its recency order
          file,   \* the published file of a tile
          tmp     \* the .tmp file next to it

cacheVars == <<pc, req, data, mem, age, file, tmp>>

CacheInit ==
  /\ mem = [k \in Keys |-> None]
  /\ age = NothingHeld
  /\ file = [k \in Keys |-> None]
  /\ tmp = [k \in Keys |-> None]

KeyOf(t) == req[t].key

Goto(t, label) == pc' = [pc EXCEPT ![t] = label]

\* self._cache[k] = v under the lock.
MemStore(k, v) ==
  /\ age' = Use(age, k)
  /\ mem' = Kept(age', [mem EXCEPT ![k] = v], None)

(***************************************************************************)
(* get                                                                     *)
(***************************************************************************)
GetHit(t) ==
  /\ pc[t] = "get"
  /\ mem[KeyOf(t)] # None
  /\ data' = [data EXCEPT ![t] = mem[KeyOf(t)]]
  /\ age' = Use(age, KeyOf(t))
  /\ Goto(t, "got")
  /\ UNCHANGED <<req, mem, file, tmp>>

GetMiss(t) ==
  /\ pc[t] = "get"
  /\ mem[KeyOf(t)] = None
  /\ Goto(t, IF HasDisk THEN "read" ELSE "got")
  /\ UNCHANGED <<req, data, mem, age, file, tmp>>

ReadFile(t) ==
  /\ pc[t] = "read"
  /\ file[KeyOf(t)] # None
  /\ data' = [data EXCEPT ![t] = file[KeyOf(t)]]
  /\ Goto(t, "warm")
  /\ UNCHANGED <<req, mem, age, file, tmp>>

ReadNothing(t) ==
  /\ pc[t] = "read"
  /\ file[KeyOf(t)] = None \/ IOFaults
  /\ Goto(t, "got")
  /\ UNCHANGED <<req, data, mem, age, file, tmp>>

Warm(t) ==
  /\ pc[t] = "warm"
  /\ MemStore(KeyOf(t), data[t])
  /\ Goto(t, "got")
  /\ UNCHANGED <<req, data, file, tmp>>

Get(t) == GetHit(t) \/ GetMiss(t) \/ ReadFile(t) \/ ReadNothing(t) \/ Warm(t)

(***************************************************************************)
(* put                                                                     *)
(***************************************************************************)
\* Mutant: the memory layer is left for the next get to warm up.
PutMemLater(t) ==
  /\ pc[t] = "put"
  /\ Goto(t, IF HasDisk THEN "open" ELSE "stored")
  /\ UNCHANGED <<req, data, mem, age, file, tmp>>

PutMem(t) ==
  /\ pc[t] = "put"
  /\ MemStore(KeyOf(t), data[t])
  /\ Goto(t, IF HasDisk THEN "open" ELSE "stored")
  /\ UNCHANGED <<req, data, file, tmp>>

\* Mutant: the tile is written in place.
PutOpenInPlace(t) ==
  /\ pc[t] = "open"
  /\ file' = [file EXCEPT ![KeyOf(t)] = Torn]
  /\ tmp' = [tmp EXCEPT ![KeyOf(t)] = Torn]
  /\ Goto(t, "write")
  /\ UNCHANGED <<req, data, mem, age>>

\* Mutant: the old file is unlinked first.
PutOpenUnlinks(t) ==
  /\ pc[t] = "open"
  /\ file' = [file EXCEPT ![KeyOf(t)] = None]
  /\ tmp' = [tmp EXCEPT ![KeyOf(t)] = Torn]
  /\ Goto(t, "write")
  /\ UNCHANGED <<req, data, mem, age>>

PutOpen(t) ==
  /\ pc[t] = "open"
  /\ tmp' = [tmp EXCEPT ![KeyOf(t)] = Torn]
  /\ Goto(t, "write")
  /\ UNCHANGED <<req, data, mem, age, file>>

PutWrite(t) ==
  /\ pc[t] = "write"
  /\ tmp' = [tmp EXCEPT ![KeyOf(t)] = data[t]]
  /\ Goto(t, "rename")
  /\ UNCHANGED <<req, data, mem, age, file>>

PutRename(t) ==
  /\ pc[t] = "rename"
  /\ tmp[KeyOf(t)] # None
  /\ file' = [file EXCEPT ![KeyOf(t)] = tmp[KeyOf(t)]]
  /\ tmp' = [tmp EXCEPT ![KeyOf(t)] = None]
  /\ Goto(t, "stored")
  /\ UNCHANGED <<req, data, mem, age>>

\* The OSError of a failed step is logged and swallowed; a .tmp file it leaves
\* behind stays.  Renaming a .tmp file that is gone fails too.
PutFails(t) ==
  /\ pc[t] \in {"open", "write", "rename"}
  /\ IOFaults \/ (pc[t] = "rename" /\ tmp[KeyOf(t)] = None)
  /\ Goto(t, "stored")
  /\ UNCHANGED <<req, data, mem, age, file, tmp>>

Put(t) == PutMem(t) \/ PutOpen(t) \/ PutWrite(t) \/ PutRename(t) \/ PutFails(t)
==============================================================================
