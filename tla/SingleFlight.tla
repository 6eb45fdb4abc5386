---------------------------- MODULE SingleFlight ----------------------------
(***************************************************************************)
(* What both coalescers of the server promise, stripped of what they       *)
(* compute and where they keep it: tile_cache.RequestCoalescer for tiles   *)
(* and filters.compile_filter for translations.  For each key at most one  *)
(* thread is the registered leader; a thread that arrives meanwhile        *)
(* follows that leader; a leader first withdraws its registration and then *)
(* releases all its followers at once.  Between the two a new leader may   *)
(* register, so two generations of a key can overlap.                      *)
(***************************************************************************)
CONSTANTS Threads, Keys, None

VARIABLES leader,    \* the registered leader of each key
          leads,     \* the key a thread leads, registered or withdrawn
          follows    \* the leader a blocked thread waits for

sfVars == <<leader, leads, follows>>

Init ==
  /\ leader = [k \in Keys |-> None]
  /\ leads = [t \in Threads |-> None]
  /\ follows = [t \in Threads |-> None]

Lead(t, k) ==
  /\ leads[t] = None /\ follows[t] = None
  /\ leader[k] = None
  /\ leader' = [leader EXCEPT ![k] = t]
  /\ leads' = [leads EXCEPT ![t] = k]
  /\ UNCHANGED follows

Follow(t, k) ==
  /\ leads[t] = None /\ follows[t] = None
  /\ leader[k] # None
  /\ follows' = [follows EXCEPT ![t] = leader[k]]
  /\ UNCHANGED <<leader, leads>>

Withdraw(t, k) ==
  /\ leads[t] = k
  /\ leader[k] = t
  /\ leader' = [leader EXCEPT ![k] = None]
  /\ UNCHANGED <<leads, follows>>

Release(t, k) ==
  /\ leads[t] = k
  /\ leader[k] # t
  /\ leads' = [leads EXCEPT ![t] = None]
  /\ follows' = [u \in Threads |-> IF follows[u] = t THEN None ELSE follows[u]]
  /\ UNCHANGED leader

\* The process dies: nothing of this survives it.
Restart ==
  /\ leader' = [k \in Keys |-> None]
  /\ leads' = [t \in Threads |-> None]
  /\ follows' = [t \in Threads |-> None]

Next ==
  \/ \E t \in Threads, k \in Keys :
       Lead(t, k) \/ Follow(t, k) \/ Withdraw(t, k) \/ Release(t, k)
  \/ Restart

Spec == Init /\ [][Next]_sfVars

\* Nobody waits for a thread that will not release it: whom a thread follows
\* is leading the key it is registered for, or has yet to release.
NoOrphan ==
  \A t \in Threads : follows[t] # None => leads[follows[t]] # None

\* A registered leader is leading that key, so no thread leads two keys and
\* no key has two registered leaders.
LeaderLeads ==
  \A k \in Keys : leader[k] # None => leads[leader[k]] = k
=============================================================================
