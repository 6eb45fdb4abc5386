--------------------------- MODULE FilterCompiler ---------------------------
(***************************************************************************)
(* filters.compile_filter over the FilterCache of cache.py, and what       *)
(* server.tile does with the SQL it returns: run it and, when DuckDB       *)
(* raises, invalidate the cached translation.                              *)
(*                                                                         *)
(* A key is a (dataset, question) pair; a question is never empty, for     *)
(* which compile_filter returns at once.  The cache is reached through     *)
(* get_default_cache, an unlocked test and assignment, so more than one    *)
(* FilterCache can be made: an instance is named by the thread that made   *)
(* it.  As in RequestCoalescer, lead[t] names the Event a thread made or   *)
(* waits for, woke[t] tells whether it is set and how its leader fared,    *)
(* and an exception is named by the thread that raised it.                 *)
(*                                                                         *)
(* Nothing here outlives the process, so a restart is a new behaviour.     *)
(***************************************************************************)
EXTENDS LRU, FiniteSets

CONSTANTS Threads,        \* worker threads of the server process
          Sqls,           \* WHERE clauses the LLM may answer with
          Rejected,       \* those of them that DuckDB rejects
          LlmFaults,      \* TRUE: a translation may fail
          NetworkFaults,  \* TRUE: a query may raise duckdb.Error for other reasons
          None            \* no entry, no SQL, no thread

ASSUME FilterAssumption ==
  /\ Rejected \subseteq Sqls
  /\ LlmFaults \in BOOLEAN
  /\ NetworkFaults \in BOOLEAN
  /\ None \notin Threads \cup Keys \cup Sqls

VARIABLES pc,        \* where each thread is
          asks,      \* the key a thread translates
          sql,       \* the SQL a thread holds
          default,   \* _DEFAULT_CACHE
          uses,      \* the FilterCache a thread has obtained
          mem,       \* the entries of each FilterCache ...
          age,       \* ... and their recency order
          inflight,  \* _inflight
          errors,    \* _inflight_errors
          lead,      \* the Event a thread made or waits for
          woke       \* whether it is set, and its leader's outcome

cacheVars == <<mem, age>>
flightVars == <<inflight, errors, lead, woke>>
vars == <<pc, asks, sql, default, uses, cacheVars, flightVars>>

Labels == {"idle", "default", "create", "get", "missed", "wait", "translate",
           "put", "pop", "set", "clear", "run", "drop"}

TypeOK ==
  /\ pc \in [Threads -> Labels]
  /\ asks \in [Threads -> Keys \cup {None}]
  /\ \A t \in Threads : asks[t] = None <=> pc[t] = "idle"
  /\ sql \in [Threads -> Sqls \cup {None}]
  /\ \A t \in Threads : pc[t] \in {"put", "run", "drop"} => sql[t] # None
  /\ default \in Threads \cup {None}
  /\ uses \in [Threads -> Threads \cup {None}]
  /\ mem \in [Threads -> [Keys -> Sqls \cup {None}]]
  /\ age \in [Threads -> [Keys -> Ages]]
  /\ inflight \in [Keys -> Threads \cup {None}]
  /\ errors \in [Keys -> Threads \cup {None}]
  /\ lead \in [Threads -> Threads \cup {None}]
  /\ woke \in [Threads -> {"unset", "ok", "failed"}]

Init ==
  /\ pc = [t \in Threads |-> "idle"]
  /\ asks = [t \in Threads |-> None]
  /\ sql = [t \in Threads |-> None]
  /\ default = None
  /\ uses = [t \in Threads |-> None]
  /\ mem = [t \in Threads |-> [k \in Keys |-> None]]
  /\ age = [t \in Threads |-> NothingHeld]
  /\ inflight = [k \in Keys |-> None]
  /\ errors = [k \in Keys |-> None]
  /\ lead = [t \in Threads |-> None]
  /\ woke = [t \in Threads |-> "unset"]

Goto(t, label) == pc' = [pc EXCEPT ![t] = label]

\* The request is answered, or compile_filter raises.
Finish(t) ==
  /\ Goto(t, "idle")
  /\ asks' = [asks EXCEPT ![t] = None]
  /\ sql' = [sql EXCEPT ![t] = None]
  /\ uses' = [uses EXCEPT ![t] = None]
  /\ lead' = [lead EXCEPT ![t] = None]
  /\ woke' = [woke EXCEPT ![t] = "unset"]

Call(t, k) ==
  /\ pc[t] = "idle"
  /\ asks' = [asks EXCEPT ![t] = k]
  /\ Goto(t, "default")
  /\ UNCHANGED <<sql, default, uses, cacheVars, flightVars>>

(***************************************************************************)
(* get_default_cache: the test, the assignment and the second read.        *)
(***************************************************************************)
UseDefault(t) ==
  /\ pc[t] = "default"
  /\ default # None
  /\ uses' = [uses EXCEPT ![t] = default]
  /\ Goto(t, "get")
  /\ UNCHANGED <<asks, sql, default, cacheVars, flightVars>>

NoDefaultYet(t) ==
  /\ pc[t] = "default"
  /\ default = None
  /\ Goto(t, "create")
  /\ UNCHANGED <<asks, sql, default, uses, cacheVars, flightVars>>

CreateDefault(t) ==
  /\ pc[t] = "create"
  /\ default' = t
  /\ Goto(t, "default")
  /\ UNCHANGED <<asks, sql, uses, cacheVars, flightVars>>

(***************************************************************************)
(* The lookup, first and second.                                           *)
(***************************************************************************)
Hit(t) ==
  /\ pc[t] = "get"
  /\ mem[uses[t]][asks[t]] # None
  /\ sql' = [sql EXCEPT ![t] = mem[uses[t]][asks[t]]]
  /\ age' = [age EXCEPT ![uses[t]] = Use(@, asks[t])]
  /\ Goto(t, "run")
  /\ UNCHANGED <<asks, default, uses, mem, flightVars>>

Miss(t) ==
  /\ pc[t] = "get"
  /\ mem[uses[t]][asks[t]] = None
  /\ Goto(t, "missed")
  /\ UNCHANGED <<asks, sql, default, uses, cacheVars, flightVars>>

\* Mutant: _inflight is tested before the lock is taken, not under it.
BecomeLeaderUntested(t) ==
  /\ pc[t] = "missed" /\ lead[t] = None
  /\ inflight' = [inflight EXCEPT ![asks[t]] = t]
  /\ lead' = [lead EXCEPT ![t] = t]
  /\ Goto(t, "translate")
  /\ UNCHANGED <<asks, sql, default, uses, cacheVars, errors, woke>>

BecomeLeader(t) ==
  /\ pc[t] = "missed" /\ lead[t] = None
  /\ inflight[asks[t]] = None
  /\ inflight' = [inflight EXCEPT ![asks[t]] = t]
  /\ lead' = [lead EXCEPT ![t] = t]
  /\ Goto(t, "translate")
  /\ UNCHANGED <<asks, sql, default, uses, cacheVars, errors, woke>>

BecomeFollower(t) ==
  /\ pc[t] = "missed" /\ lead[t] = None
  /\ inflight[asks[t]] # None
  /\ lead' = [lead EXCEPT ![t] = inflight[asks[t]]]
  /\ Goto(t, "wait")
  /\ UNCHANGED <<asks, sql, default, uses, cacheVars, inflight, errors, woke>>

Reraise(t) ==
  /\ pc[t] = "wait" /\ woke[t] # "unset"
  /\ errors[asks[t]] # None
  /\ Finish(t)
  /\ UNCHANGED <<default, cacheVars, inflight, errors>>

LookAgain(t) ==
  /\ pc[t] = "wait" /\ woke[t] # "unset"
  /\ errors[asks[t]] = None
  /\ Goto(t, "get")
  /\ UNCHANGED <<asks, sql, default, uses, cacheVars, flightVars>>

FallThrough(t) ==
  /\ pc[t] = "missed" /\ lead[t] # None
  /\ Goto(t, "translate")
  /\ UNCHANGED <<asks, sql, default, uses, cacheVars, flightVars>>

(***************************************************************************)
(* The try statement.  A follower that fell through runs it too, but for   *)
(* the finally block: what it leaves in errors stays there.                *)
(***************************************************************************)
Translate(t, s) ==
  /\ pc[t] = "translate"
  /\ sql' = [sql EXCEPT ![t] = s]
  /\ Goto(t, "put")
  /\ UNCHANGED <<asks, default, uses, cacheVars, flightVars>>

\* Mutant: an exception ends the call before the finally block.
TranslateFailsNoFinally(t) ==
  /\ LlmFaults
  /\ pc[t] = "translate"
  /\ Finish(t)
  /\ UNCHANGED <<default, cacheVars, inflight, errors>>

\* An exception that neither except clause is for, say of a client that cannot
\* be made, is not noted.
TranslateFails(t) ==
  /\ LlmFaults
  /\ pc[t] = "translate"
  /\ errors' = [errors EXCEPT ![asks[t]] = t] \/ UNCHANGED errors
  /\ IF lead[t] = t
       THEN Goto(t, "pop") /\ UNCHANGED <<asks, sql, uses, lead, woke>>
       ELSE Finish(t)
  /\ UNCHANGED <<default, cacheVars, inflight>>

\* Mutant: the SQL is returned and not kept.
PutNothing(t) ==
  /\ pc[t] = "put"
  /\ Goto(t, IF lead[t] = t THEN "pop" ELSE "run")
  /\ UNCHANGED <<asks, sql, default, uses, cacheVars, flightVars>>

Put(t) ==
  /\ pc[t] = "put"
  /\ LET c == uses[t]
     IN  /\ age' = [age EXCEPT ![c] = Use(@, asks[t])]
         /\ mem' = [mem EXCEPT
                      ![c] = Kept(age'[c], [@ EXCEPT ![asks[t]] = sql[t]], None)]
  /\ Goto(t, IF lead[t] = t THEN "pop" ELSE "run")
  /\ UNCHANGED <<asks, sql, default, uses, flightVars>>

(***************************************************************************)
(* The finally block of the leader.                                        *)
(***************************************************************************)
PopInflight(t) ==
  /\ pc[t] = "pop"
  /\ inflight' = [inflight EXCEPT ![asks[t]] = None]
  /\ Goto(t, "set")
  /\ UNCHANGED <<asks, sql, default, uses, cacheVars, errors, lead, woke>>

\* Mutant: the Event is set only after a success.
SetEventOnSuccess(t) ==
  /\ pc[t] = "set"
  /\ woke' = [u \in Threads |->
                IF pc[u] = "wait" /\ lead[u] = t /\ woke[u] = "unset"
                   /\ sql[t] # None
                  THEN "ok" ELSE woke[u]]
  /\ Goto(t, "clear")
  /\ UNCHANGED <<asks, sql, default, uses, cacheVars, inflight, errors, lead>>

SetEvent(t) ==
  /\ pc[t] = "set"
  /\ woke' = [u \in Threads |->
                IF pc[u] = "wait" /\ lead[u] = t /\ woke[u] = "unset"
                  THEN IF sql[t] = None THEN "failed" ELSE "ok"
                  ELSE woke[u]]
  /\ Goto(t, "clear")
  /\ UNCHANGED <<asks, sql, default, uses, cacheVars, inflight, errors, lead>>

PopError(t) ==
  /\ pc[t] = "clear"
  /\ errors' = [errors EXCEPT ![asks[t]] = None]
  /\ IF sql[t] = None
       THEN Finish(t)
       ELSE /\ Goto(t, "run")
            /\ lead' = [lead EXCEPT ![t] = None]
            /\ UNCHANGED <<asks, sql, uses, woke>>
  /\ UNCHANGED <<default, cacheVars, inflight>>

(***************************************************************************)
(* server.tile, once it holds the SQL.                                     *)
(***************************************************************************)
\* A tile, a timeout, no file to read or a client that has gone.
Answer(t) ==
  /\ pc[t] = "run"
  /\ Finish(t)
  /\ UNCHANGED <<default, cacheVars, inflight, errors>>

QueryRaises(t) ==
  /\ pc[t] = "run"
  /\ sql[t] \in Rejected \/ NetworkFaults
  /\ Goto(t, "drop")
  /\ UNCHANGED <<asks, sql, default, uses, cacheVars, flightVars>>

Invalidate(t) ==
  /\ pc[t] = "drop"
  /\ age' = [age EXCEPT ![default] = Forget(@, asks[t])]
  /\ mem' = [mem EXCEPT ![default][asks[t]] = None]
  /\ Finish(t)
  /\ UNCHANGED <<default, inflight, errors>>

Step(t) ==
  \/ UseDefault(t) \/ NoDefaultYet(t) \/ CreateDefault(t)
  \/ Hit(t) \/ Miss(t)
  \/ BecomeLeader(t) \/ BecomeFollower(t)
  \/ Reraise(t) \/ LookAgain(t) \/ FallThrough(t)
  \/ \E s \in Sqls : Translate(t, s)
  \/ TranslateFails(t) \/ Put(t)
  \/ PopInflight(t) \/ SetEvent(t) \/ PopError(t)
  \/ Answer(t) \/ QueryRaises(t) \/ Invalidate(t)

Next == \E t \in Threads : Step(t) \/ \E k \in Keys : Call(t, k)

Spec == Init /\ [][Next]_vars

\* A worker thread that can run is scheduled, and an LLM call ends: it has a
\* timeout.  Nothing obliges a client to call.
FairSpec == Spec /\ \A t \in Threads : WF_vars(Step(t))

(***************************************************************************)
(* Properties                                                              *)
(***************************************************************************)
\* The wait has no timeout: a blocked follower's Event belongs to a leader of
\* the same question that has yet to set it.
NoLostWakeup ==
  \A t \in Threads : pc[t] = "wait" /\ woke[t] = "unset" =>
    /\ lead[lead[t]] = lead[t]
    /\ asks[lead[t]] = asks[t]
    /\ pc[lead[t]] \in {"translate", "put", "pop", "set"}

\* A follower is told of success only when the translation is in a FilterCache,
\* as long as nothing is evicted and no query fails: its own, or, after the race
\* in get_default_cache, another one; it then looks in vain and calls the LLM
\* again.
TranslationKept ==
  IsFiniteSet(Keys) /\ Cardinality(Keys) <= MaxSize /\ Rejected = {} /\ ~ NetworkFaults =>
    \A t \in Threads : woke[t] = "ok" => \E c \in Threads : mem[c][asks[t]] # None

\* Every request gets through compile_filter, by a translation or an exception.
EveryCompileEnds ==
  \A t \in Threads : pc[t] # "idle" ~> pc[t] = "idle"

leads == [t \in Threads |->
            IF lead[t] = t /\ pc[t] # "clear" THEN asks[t] ELSE None]

follows == [t \in Threads |->
              IF pc[t] = "wait" /\ woke[t] = "unset" THEN lead[t] ELSE None]

SF == INSTANCE SingleFlight WITH leader <- inflight

\* compile_filter registers, waits and releases as SingleFlight says, although
\* a follower may do what only a leader does in RequestCoalescer.
ImplementsSingleFlight == SF!Spec

(***************************************************************************)
(* What the comments claim and the code does not do                        *)
(***************************************************************************)
\* "followers wait for the leader's event and read from the cache": a follower
\* of a leader that succeeded does not raise.
FollowersReadCache ==
  [][\A t \in Threads : ~ (woke[t] = "ok" /\ Reraise(t))]_vars
=============================================================================
