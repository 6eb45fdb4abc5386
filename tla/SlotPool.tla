------------------------------ MODULE SlotPool ------------------------------
(***************************************************************************)
(* What duckdb_query promises the tile handler: a pool of query slots that *)
(* is there from the start.  A thread that holds none takes a free one, if *)
(* there is one, and gives it back once.  A slot may go missing with the   *)
(* thread that held it.  Nothing is said of how the pool comes to be, nor  *)
(* of cursors and timers.                                                  *)
(***************************************************************************)
EXTENDS Naturals

CONSTANTS Threads, Slots

VARIABLES free,     \* how many slots a thread could take
          holding,  \* the threads that have one
          gone      \* how many slots are missing

poolVars == <<free, holding, gone>>

Init ==
  /\ free = Slots
  /\ holding = {}
  /\ gone = 0

Take(t) ==
  /\ t \notin holding
  /\ free > 0
  /\ free' = free - 1
  /\ holding' = holding \cup {t}
  /\ UNCHANGED gone

Give(t) ==
  /\ t \in holding
  /\ free' = free + 1
  /\ holding' = holding \ {t}
  /\ UNCHANGED gone

Lose(t) ==
  /\ t \in holding
  /\ holding' = holding \ {t}
  /\ gone' = gone + 1
  /\ UNCHANGED free

Next == \E t \in Threads : Take(t) \/ Give(t) \/ Lose(t)

Spec == Init /\ [][Next]_poolVars
=============================================================================
