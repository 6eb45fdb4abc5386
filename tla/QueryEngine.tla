---------------------------- MODULE QueryEngine ----------------------------
(***************************************************************************)
(* duckdb_query.query_features: the lazily built DuckDB instance, the      *)
(* semaphore that bounds how many queries run on it, and the watchdog      *)
(* timer that interrupts a query that runs too long.                       *)
(*                                                                         *)
(* A query has a cursor of its own, and its timer, its fired flag and its  *)
(* interrupt belong to that cursor, so they are sets of cursors.  Timer    *)
(* callbacks are actors: timer.cancel() does not stop one that has begun,  *)
(* and such a callback may outlive its query.                              *)
(*                                                                         *)
(* Semaphores are named by the thread that made them: a failed build of    *)
(* the instance leaves one behind, which the next build replaces.          *)
(***************************************************************************)
EXTENDS Integers, FiniteSets

CONSTANTS Threads,          \* worker threads of the server process
          Slots,            \* _max_concurrent_queries()
          Cursors,          \* names for cursors; closed ones are used again
          BuildFaults,      \* TRUE: _build_connection may raise
          CursorFaults,     \* TRUE: con.cursor() may raise
          TimerFaults,      \* TRUE: timer.start() may raise
          None              \* no thread, no cursor, no semaphore

ASSUME QueryAssumption ==
  /\ IsFiniteSet(Threads)
  /\ Slots \in Nat \ {0}
  /\ {BuildFaults, CursorFaults, TimerFaults} \subseteq BOOLEAN
  /\ None \notin Threads \cup Cursors

VARIABLES pc,           \* where each thread is
          instance,     \* _instance is not None
          lock,         \* who holds _instance_lock
          query_slots,  \* _query_slots
          permits,      \* the counter of each semaphore
          took,         \* the semaphore a thread has acquired
          lost,         \* history: slots that nobody will give back
          cur,          \* the cursor a thread has opened
          armed,        \* cursors whose timer is running
          fired,        \* cursors whose fired flag is set
          callback,     \* cursors whose callback has yet to interrupt
          running,      \* cursors that execute a query
          interrupted,  \* cursors DuckDB has been told to stop
          raised,       \* what the query of a thread raised
          outcome       \* what query_features made of it

engineVars == <<instance, lock, query_slots, permits, took, lost>>
watchdogVars == <<armed, fired, callback, interrupted>>
vars == <<pc, engineVars, cur, running, watchdogVars, raised, outcome>>

Labels == {"idle", "instance", "lock", "test", "build", "acquire", "cursor",
           "start", "execute", "running", "except", "close", "cancel", "release"}
Holding == {"cursor", "start", "execute", "running", "except", "close",
            "cancel", "release"}

TypeOK ==
  /\ pc \in [Threads -> Labels]
  /\ instance \in BOOLEAN
  /\ lock \in Threads \cup {None}
  /\ query_slots \in Threads \cup {None}
  /\ permits \in [Threads -> 0 .. Slots]
  /\ took \in [Threads -> Threads \cup {None}]
  /\ \A t \in Threads : took[t] # None <=> pc[t] \in Holding
  /\ lost \in 0 .. Slots
  /\ cur \in [Threads -> Cursors \cup {None}]
  /\ armed \subseteq Cursors /\ fired \subseteq Cursors
  /\ callback \subseteq Cursors
  /\ running \subseteq Cursors /\ interrupted \subseteq Cursors
  /\ raised \in [Threads -> {"nothing", "interrupt", "error"}]
  /\ outcome \in [Threads -> {"none", "rows", "timeout", "error"}]

Init ==
  /\ pc = [t \in Threads |-> "idle"]
  /\ instance = FALSE
  /\ lock = None
  /\ query_slots = None
  /\ permits = [t \in Threads |-> 0]
  /\ took = [t \in Threads |-> None]
  /\ lost = 0
  /\ cur = [t \in Threads |-> None]
  /\ armed = {} /\ fired = {} /\ callback = {}
  /\ running = {} /\ interrupted = {}
  /\ raised = [t \in Threads |-> "nothing"]
  /\ outcome = [t \in Threads |-> "none"]

Goto(t, label) == pc' = [pc EXCEPT ![t] = label]

\* A request with at least one file to read.
Call(t) ==
  /\ pc[t] = "idle"
  /\ Goto(t, "instance")
  /\ raised' = [raised EXCEPT ![t] = "nothing"]
  /\ outcome' = [outcome EXCEPT ![t] = "none"]
  /\ UNCHANGED <<engineVars, cur, running, watchdogVars>>

(***************************************************************************)
(* _get_instance: double-checked locking.                                  *)
(***************************************************************************)
ReadInstance(t) ==
  /\ pc[t] = "instance"
  /\ Goto(t, IF instance THEN "acquire" ELSE "lock")
  /\ UNCHANGED <<engineVars, cur, running, watchdogVars, raised, outcome>>

\* Mutant: the lock is there, but the test under it is not.
LockWithoutTest(t) ==
  /\ pc[t] = "lock"
  /\ lock = None
  /\ lock' = t
  /\ query_slots' = t
  /\ permits' = [permits EXCEPT ![t] = Slots]
  /\ Goto(t, "build")
  /\ UNCHANGED <<instance, took, cur, running, watchdogVars, raised, outcome, lost>>

Lock(t) ==
  /\ pc[t] = "lock"
  /\ lock = None
  /\ lock' = t
  /\ Goto(t, "test")
  /\ UNCHANGED <<instance, query_slots, permits, took,
                 cur, running, watchdogVars, raised, outcome, lost>>

FoundInstance(t) ==
  /\ pc[t] = "test"
  /\ instance
  /\ lock' = None
  /\ Goto(t, "acquire")
  /\ UNCHANGED <<instance, query_slots, permits, took,
                 cur, running, watchdogVars, raised, outcome, lost>>

MakeSlots(t) ==
  /\ pc[t] = "test"
  /\ ~ instance
  /\ query_slots' = t
  /\ permits' = [permits EXCEPT ![t] = Slots]
  /\ Goto(t, "build")
  /\ UNCHANGED <<instance, lock, took, cur, running, watchdogVars, raised, outcome, lost>>

Build(t) ==
  /\ pc[t] = "build"
  /\ instance' = TRUE
  /\ lock' = None
  /\ Goto(t, "acquire")
  /\ UNCHANGED <<query_slots, permits, took, cur, running, watchdogVars, raised, outcome, lost>>

BuildFails(t) ==
  /\ BuildFaults
  /\ pc[t] = "build"
  /\ lock' = None
  /\ Goto(t, "idle")
  /\ outcome' = [outcome EXCEPT ![t] = "error"]
  /\ UNCHANGED <<instance, query_slots, permits, took, cur, running, watchdogVars, raised, lost>>

(***************************************************************************)
(* query_features: the slot, the cursor and the timer.                     *)
(***************************************************************************)
Acquire(t) ==
  /\ pc[t] = "acquire"
  /\ permits[query_slots] > 0
  /\ permits' = [permits EXCEPT ![query_slots] = @ - 1]
  /\ took' = [took EXCEPT ![t] = query_slots]
  /\ Goto(t, "cursor")
  /\ UNCHANGED <<instance, lock, query_slots, cur, running, watchdogVars, raised, outcome, lost>>

InUse == {cur[t] : t \in Threads} \cup armed \cup callback

\* Mutant: a thread keeps its cursor's name while an old callback aims at it.
ReuseCursor(t) ==
  /\ pc[t] = "cursor"
  /\ \E c \in Cursors \ {cur[u] : u \in Threads} :
       /\ cur' = [cur EXCEPT ![t] = c]
       /\ fired' = fired \ {c}
       /\ interrupted' = interrupted \ {c}
  /\ Goto(t, "start")
  /\ UNCHANGED <<engineVars, running, armed, callback, raised, outcome>>

OpenCursor(t) ==
  /\ pc[t] = "cursor"
  /\ \E c \in Cursors \ InUse :
       /\ cur' = [cur EXCEPT ![t] = c]
       /\ fired' = fired \ {c}
       /\ interrupted' = interrupted \ {c}
  /\ Goto(t, "start")
  /\ UNCHANGED <<engineVars, running, armed, callback, raised, outcome>>

\* con.cursor() is outside the try statement: the slot is not given back.
CursorFails(t) ==
  /\ CursorFaults
  /\ pc[t] = "cursor"
  /\ took' = [took EXCEPT ![t] = None]
  /\ lost' = lost + 1
  /\ Goto(t, "idle")
  /\ outcome' = [outcome EXCEPT ![t] = "error"]
  /\ UNCHANGED <<instance, lock, query_slots, permits, cur, running, watchdogVars, raised>>

StartTimer(t) ==
  /\ pc[t] = "start"
  /\ armed' = armed \cup {cur[t]}
  /\ Goto(t, "execute")
  /\ UNCHANGED <<engineVars, cur, running, fired, callback, interrupted, raised, outcome>>

\* Inside the outer try statement only: the cursor is not closed.
StartFails(t) ==
  /\ TimerFaults
  /\ pc[t] = "start"
  /\ outcome' = [outcome EXCEPT ![t] = "error"]
  /\ Goto(t, "cancel")
  /\ UNCHANGED <<engineVars, cur, running, watchdogVars, raised>>

(***************************************************************************)
(* The timer thread of a cursor: fired.set(), then cur.interrupt().        *)
(***************************************************************************)
\* Mutant: the callback is cur.interrupt, with no flag.
FireUnflagged(c) ==
  /\ c \in armed
  /\ armed' = armed \ {c}
  /\ callback' = callback \cup {c}
  /\ UNCHANGED <<pc, engineVars, cur, running, fired, interrupted, raised, outcome>>

Fire(c) ==
  /\ c \in armed
  /\ armed' = armed \ {c}
  /\ fired' = fired \cup {c}
  /\ callback' = callback \cup {c}
  /\ UNCHANGED <<pc, engineVars, cur, running, interrupted, raised, outcome>>

\* Mutant: the parent connection is interrupted, not the cursor.
InterruptParent(c) ==
  /\ c \in callback
  /\ callback' = callback \ {c}
  /\ UNCHANGED <<pc, engineVars, cur, running, armed, fired, interrupted, raised, outcome>>

\* Only a query that is running is sure to be stopped: whether DuckDB forgets
\* the interrupt of an idle cursor when its query starts is left open.  On a
\* closed cursor the call raises in the timer thread and changes nothing.
Interrupt(c) ==
  /\ c \in callback
  /\ callback' = callback \ {c}
  /\ \/ /\ \E t \in Threads : cur[t] = c
        /\ interrupted' = interrupted \cup {c}
     \/ /\ c \notin running
        /\ UNCHANGED interrupted
  /\ UNCHANGED <<pc, engineVars, cur, running, armed, fired, raised, outcome>>

(***************************************************************************)
(* execute and fetchall, as the cursor sees them.                          *)
(***************************************************************************)
Execute(t) ==
  /\ pc[t] = "execute"
  /\ running' = running \cup {cur[t]}
  /\ Goto(t, "running")
  /\ UNCHANGED <<engineVars, cur, watchdogVars, raised, outcome>>

\* An interrupt may come too late for a query that is about to end.
QueryEnds(t) ==
  /\ pc[t] = "running"
  /\ running' = running \ {cur[t]}
  /\ outcome' = [outcome EXCEPT ![t] = "rows"]
  /\ Goto(t, "close")
  /\ UNCHANGED <<engineVars, cur, watchdogVars, raised>>

\* DuckDB rejects the SQL, or cannot read a file.
QueryFails(t) ==
  /\ pc[t] = "running"
  /\ running' = running \ {cur[t]}
  /\ raised' = [raised EXCEPT ![t] = "error"]
  /\ Goto(t, "except")
  /\ UNCHANGED <<engineVars, cur, watchdogVars, outcome>>

QueryInterrupted(t) ==
  /\ pc[t] = "running"
  /\ cur[t] \in interrupted
  /\ running' = running \ {cur[t]}
  /\ raised' = [raised EXCEPT ![t] = "interrupt"]
  /\ Goto(t, "except")
  /\ UNCHANGED <<engineVars, cur, watchdogVars, outcome>>

\* except duckdb.Error: fired tells a timeout from any other error.
Except(t) ==
  /\ pc[t] = "except"
  /\ outcome' = [outcome EXCEPT
                   ![t] = IF cur[t] \in fired THEN "timeout" ELSE "error"]
  /\ Goto(t, "close")
  /\ UNCHANGED <<engineVars, cur, running, watchdogVars, raised>>

(***************************************************************************)
(* The two finally blocks.                                                 *)
(***************************************************************************)
\* Nothing is left to stop on a closed cursor.
CloseCursor(t) ==
  /\ pc[t] = "close"
  /\ Goto(t, "cancel")
  /\ UNCHANGED <<engineVars, cur, running, watchdogVars, raised, outcome>>

\* Mutant: each finally block releases the slot.
CancelAndRelease(t) ==
  /\ pc[t] = "cancel"
  /\ armed' = armed \ {cur[t]}
  /\ cur' = [cur EXCEPT ![t] = None]
  /\ permits' = [permits EXCEPT ![query_slots] = @ + 1]
  /\ Goto(t, "release")
  /\ UNCHANGED <<instance, lock, query_slots, took,
                 running, fired, callback, interrupted, raised, outcome, lost>>

\* The last use of the cursor.  A callback that has begun is not stopped.
CancelTimer(t) ==
  /\ pc[t] = "cancel"
  /\ armed' = armed \ {cur[t]}
  /\ cur' = [cur EXCEPT ![t] = None]
  /\ Goto(t, "release")
  /\ UNCHANGED <<engineVars, running, fired, callback, interrupted, raised, outcome>>

\* Mutant: the slot of a query that raised is not given back.
ReleaseOnSuccess(t) ==
  /\ pc[t] = "release"
  /\ permits' = IF outcome[t] = "rows"
                  THEN [permits EXCEPT ![query_slots] = @ + 1] ELSE permits
  /\ took' = [took EXCEPT ![t] = None]
  /\ Goto(t, "idle")
  /\ UNCHANGED <<instance, lock, query_slots, cur, running, watchdogVars, raised, outcome, lost>>

Release(t) ==
  /\ pc[t] = "release"
  /\ permits' = [permits EXCEPT ![query_slots] = @ + 1]
  /\ took' = [took EXCEPT ![t] = None]
  /\ Goto(t, "idle")
  /\ UNCHANGED <<instance, lock, query_slots, cur, running, watchdogVars, raised, outcome, lost>>

Step(t) ==
  \/ ReadInstance(t) \/ Lock(t) \/ FoundInstance(t) \/ MakeSlots(t)
  \/ Build(t) \/ BuildFails(t)
  \/ Acquire(t) \/ OpenCursor(t) \/ CursorFails(t)
  \/ StartTimer(t) \/ StartFails(t) \/ Execute(t)
  \/ QueryInterrupted(t) \/ Except(t)
  \/ CloseCursor(t) \/ CancelTimer(t) \/ Release(t)

\* A query may end by itself; the program cannot count on it.
QueryStep(t) == QueryEnds(t) \/ QueryFails(t)

TimerStep(c) == Fire(c) \/ Interrupt(c)

Next ==
  \/ \E t \in Threads : Call(t) \/ Step(t) \/ QueryStep(t)
  \/ \E c \in Cursors : TimerStep(c)

Spec == Init /\ [][Next]_vars

\* Threads that can run are scheduled, an armed timer fires in the end, and a
\* query that DuckDB was told to stop does stop.
FairSpec ==
  /\ Spec
  /\ \A t \in Threads : WF_vars(Step(t))
  /\ \A c \in Cursors : WF_vars(TimerStep(c))

(***************************************************************************)
(* Properties                                                              *)
(***************************************************************************)
\* "how many tiles may hit DuckDB at once": no more queries hold a cursor than
\* DUCKDB_POOL_SIZE allows, even when a failed build made a second semaphore.
BoundedConcurrency ==
  Cardinality({t \in Threads : cur[t] # None}) <= Slots

Holders == {t \in Threads : took[t] # None}

\* Every slot that is not free is held by a query that will give it back, to
\* the semaphore it took it from, or was lost for want of a cursor: no path
\* through the two finally blocks loses a slot or gives one back twice.
SlotsConserved ==
  instance =>
    /\ \A t \in Holders : took[t] = query_slots
    /\ permits[query_slots] + Cardinality(Holders) + lost = Slots

\* An interrupt hits only the query whose own budget has run out, never a later
\* one of the same thread or a sibling.
InterruptsOnlyExpired == interrupted \subseteq fired

\* "the cached filter is fine and must not be thrown away": a query that the
\* watchdog stopped is never reported as one that DuckDB rejected.
InterruptIsTimeout ==
  \A t \in Threads :
    raised[t] = "interrupt" /\ pc[t] \in {"close", "cancel", "release", "idle"}
      => outcome[t] = "timeout"

\* "a pathological filter cannot hold the connection": whoever holds a slot
\* gives it back or comes to run its query, and a query that runs while its
\* timer has yet to interrupt it gives the slot back although no query has to
\* end by itself.  Nothing is said of a query whose timer was through before
\* execute() began: no second interrupt follows.
NobodyHoldsForever ==
  \A t \in Threads :
    /\ pc[t] \in Holding ~> pc[t] \notin Holding \/ pc[t] = "running"
    /\ pc[t] = "running" /\ cur[t] \in armed \cup callback ~> pc[t] \notin Holding

\* A thread that waits for another: for _instance_lock or for a slot.
Waits(t) ==
  \/ pc[t] = "lock" /\ lock # None
  \/ pc[t] = "acquire" /\ permits[query_slots] = 0

\* The threads in query_features never all wait for one another, whatever fails
\* under the lock or in the two finally blocks, as long as there is a slot that
\* was not lost.
EngineMoves ==
  lost < Slots /\ (\E t \in Threads : pc[t] # "idle")
    => \E t \in Threads : pc[t] # "idle" /\ ~ Waits(t)

\* The abstract state: before there is an instance all slots are free, and a
\* semaphore that a failed build left behind is nobody's.
free == IF instance THEN permits[query_slots] ELSE Slots

Pool == INSTANCE SlotPool WITH holding <- Holders, gone <- lost

\* "how many tiles may hit DuckDB at once": to its callers the lazily built
\* instance is one pool of slots that was always there.  No two builds give out
\* slots side by side, and a slot comes back once, to where it was taken.
ImplementsSlotPool == Pool!Spec
=============================================================================
