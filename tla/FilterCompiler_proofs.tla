----------------------- MODULE FilterCompiler_proofs -----------------------
(***************************************************************************)
(* Theorems about FilterCompiler, for any number of threads, questions and *)
(* clauses and any cache size.  The inductive invariant IInv joins TypeOK, *)
(* NoLostWakeup and TranslationKept with what they rest on:                *)
(*                                                                         *)
(*   Roles       which threads lead, follow, have been woken, hold SQL or  *)
(*               a cache; a follower that fell through is where a leader   *)
(*               may be, so pc alone does not tell                         *)
(*   Registered  _inflight has exactly the leaders before their pop        *)
(*   Recent      the ages of a FilterCache are a recency order without     *)
(*               gaps, and what is held has a translation                  *)
(*   Stored      while nothing is evicted or dropped, a leader that is     *)
(*               through with put has left its translation in its cache    *)
(***************************************************************************)
EXTENDS FilterCompiler, FiniteSetTheorems, TLAPS

Before == {"idle", "default", "create"}
Leading == {"translate", "put", "pop"}
Finally == {"pop", "set", "clear"}

Roles ==
  /\ \A t \in Threads : lead[t] = t => pc[t] \in Leading \cup Finally
  /\ \A t \in Threads : pc[t] \in Finally => lead[t] = t
  /\ \A t \in Threads : pc[t] \in Before => lead[t] = None
  /\ \A t \in Threads : pc[t] \in {"wait", "translate", "put"} => lead[t] # None
  /\ \A t \in Threads :
       lead[t] \notin {None, t} /\ pc[t] # "wait" => woke[t] # "unset"
  /\ \A t \in Threads : woke[t] # "unset" => lead[t] \notin {None, t}
  /\ \A t \in Threads :
       pc[t] \notin {"put", "run", "drop"} \cup Finally => sql[t] = None
  /\ \A t \in Threads : uses[t] = None <=> pc[t] \in Before
  /\ \A t \in Threads : uses[t] # None => default # None

Registered ==
  \A k \in Keys, t \in Threads :
    inflight[k] = t <=> lead[t] = t /\ asks[t] = k /\ pc[t] \in Leading

Recent ==
  \A c \in Threads :
    /\ RecencyOrder(age[c])
    /\ \A k \in Keys : mem[c][k] # None <=> Holds(age[c], k)

Undisturbed ==
  IsFiniteSet(Keys) /\ Cardinality(Keys) <= MaxSize /\ Rejected = {} /\ ~ NetworkFaults

Stored ==
  Undisturbed =>
    /\ \A t \in Threads : pc[t] # "drop"
    /\ \A t \in Threads :
         pc[t] \in Finally /\ sql[t] # None => mem[uses[t]][asks[t]] # None

IInv ==
  /\ TypeOK
  /\ Roles
  /\ Registered
  /\ NoLostWakeup
  /\ Recent
  /\ Stored
  /\ TranslationKept

(***************************************************************************)
(* The recency order of a FilterCache.                                     *)
(***************************************************************************)
\* The map of cachetools stays a map of ages, whatever is asked of it.
LEMMA AgesType ==
  ASSUME NEW a \in [Keys -> Ages], NEW k \in Keys
  PROVE  /\ Use(a, k) \in [Keys -> Ages]
         /\ Forget(a, k) \in [Keys -> Ages]
BY LRUAssumption DEF Use, Forget, Holds, Ages

\* get and an assignment keep the recency order: the entry that was used comes
\* first and those before it move back by one.
LEMMA UseKeepsOrder ==
  ASSUME NEW a \in [Keys -> Ages], RecencyOrder(a), NEW k \in Keys
  PROVE  RecencyOrder(Use(a, k))
<1> DEFINE b == Use(a, k)
<1> USE LRUAssumption DEF Ages, Holds
<1>1. /\ b[k] = 0
      /\ \A j \in Keys \ {k} : b[j] = IF a[j] < a[k] THEN a[j] + 1 ELSE a[j]
  BY DEF Use
<1>2. b \in [Keys -> Ages]
  BY AgesType
<1> HIDE DEF b
<1>3. ASSUME NEW i \in Keys, NEW j \in Keys, Holds(b, i), b[i] = b[j]
      PROVE  i = j
  BY <1>1, <1>2, <1>3 DEF RecencyOrder
<1>4. ASSUME NEW j \in Keys, Holds(b, j), NEW n \in 0 .. b[j] - 1
      PROVE  \E i \in Keys : b[i] = n
  <2>1. CASE n = 0
    BY <1>1, <2>1
  <2>2. CASE n # 0 /\ n <= a[k]
    <3>1. n - 1 \in 0 .. a[k] - 1 /\ (Holds(a, k) \/ n - 1 \in 0 .. a[j] - 1)
      BY <1>1, <1>2, <1>4, <2>2
    <3>2. Holds(a, k) \/ Holds(a, j)
      BY <1>1, <1>2, <1>4, <2>2
    <3>3. PICK i \in Keys : a[i] = n - 1
      BY <1>1, <1>2, <1>4, <2>2, <3>1, <3>2 DEF RecencyOrder
    <3> QED BY <1>1, <2>2, <3>3
  <2>3. CASE n > a[k]
    <3>1. j # k /\ a[j] = b[j]
      BY <1>1, <1>2, <1>4, <2>3
    <3>2. PICK i \in Keys : a[i] = n
      BY <1>4, <3>1 DEF RecencyOrder
    <3> QED BY <1>1, <2>3, <3>2
  <2> QED BY <2>1, <2>2, <2>3
<1> QED BY <1>3, <1>4 DEF RecencyOrder, b

\* pop keeps it too: what was behind the removed entry moves up.
LEMMA ForgetKeepsOrder ==
  ASSUME NEW a \in [Keys -> Ages], RecencyOrder(a), NEW k \in Keys
  PROVE  RecencyOrder(Forget(a, k))
<1> DEFINE b == Forget(a, k)
<1> USE LRUAssumption DEF Ages, Holds
<1>1. /\ b[k] = MaxSize
      /\ \A j \in Keys \ {k} :
           b[j] = IF a[k] < a[j] /\ a[j] < MaxSize THEN a[j] - 1 ELSE a[j]
  BY DEF Forget
<1>2. b \in [Keys -> Ages]
  BY AgesType
<1> HIDE DEF b
<1>3. ASSUME NEW i \in Keys, NEW j \in Keys, Holds(b, i), b[i] = b[j]
      PROVE  i = j
  BY <1>1, <1>2, <1>3 DEF RecencyOrder
<1>4. ASSUME NEW j \in Keys, Holds(b, j), NEW n \in 0 .. b[j] - 1
      PROVE  \E i \in Keys : b[i] = n
  <2>1. j # k /\ Holds(a, j) /\ a[j] >= b[j]
    BY <1>1, <1>2, <1>4
  <2>2. CASE n < a[k]
    <3>1. PICK i \in Keys : a[i] = n
      BY <1>2, <1>4, <2>1 DEF RecencyOrder
    <3> QED BY <1>1, <2>2, <3>1
  <2>3. CASE n >= a[k]
    <3>1. n + 1 \in 0 .. a[j] - 1
      BY <1>1, <1>2, <1>4, <2>1, <2>3 DEF RecencyOrder
    <3>2. PICK i \in Keys : a[i] = n + 1
      BY <2>1, <3>1 DEF RecencyOrder
    <3> QED BY <1>1, <2>1, <2>3, <3>1, <3>2
  <2> QED BY <2>2, <2>3
<1> QED BY <1>3, <1>4 DEF RecencyOrder, b

\* As long as there are no more keys than the map has room for, nothing is
\* evicted: behind the stalest entry there is one for every younger age.
LEMMA NothingEvicted ==
  ASSUME NEW a \in [Keys -> Ages], RecencyOrder(a), NEW k \in Keys,
         IsFiniteSet(Keys), Cardinality(Keys) <= MaxSize,
         NEW j \in Keys, Holds(a, j)
  PROVE  Holds(Use(a, k), j)
<1>0. MaxSize \in Nat \ {0} /\ a[j] \in 0 .. MaxSize - 1 /\ a[k] \in 0 .. MaxSize
  BY LRUAssumption DEF Ages, Holds
<1>1. CASE a[j] >= a[k] \/ j = k \/ a[k] < MaxSize
  BY <1>0, <1>1 DEF Holds, Use
<1>2. CASE a[j] < a[k] /\ j # k /\ a[k] = MaxSize
  <2>1. SUFFICES ASSUME a[j] = MaxSize - 1 PROVE FALSE
    BY <1>0, <1>2 DEF Holds, Use
  <2> DEFINE others == Keys \ {k}
             young == 0 .. MaxSize - 1
             f == [n \in young |-> CHOOSE i \in Keys : a[i] = n]
  <2>2. \A n \in young : \E i \in Keys : a[i] = n
    <3>1. \A n \in 0 .. a[j] - 1 : \E i \in Keys : a[i] = n
      BY DEF RecencyOrder
    <3> QED BY <1>0, <2>1, <3>1
  <2>3. \A n \in young : f[n] \in others /\ a[f[n]] = n
    BY <1>0, <1>2, <2>2
  <2>4. IsFiniteSet(young) /\ Cardinality(young) = MaxSize
    BY <1>0, FS_Interval
  <2>5. IsFiniteSet(others) /\ Cardinality(others) = Cardinality(Keys) - 1
    BY FS_RemoveElement
  <2>6. Cardinality(others) < Cardinality(young)
    BY <1>0, <2>4, <2>5, FS_CardinalityType
  <2>7. f \in [young -> others]
    BY <2>3
  <2> HIDE DEF f, young, others
  <2>8. PICK m, n \in young : m # n /\ f[m] = f[n]
    BY <2>4, <2>5, <2>6, <2>7, FS_PigeonHole
  <2> QED BY <2>3, <2>8
<1> QED BY <1>0, <1>1, <1>2

\* A map in recency order has room for MaxSize entries and no more.
LEMMA OrderBoundsSize ==
  ASSUME NEW a \in [Keys -> Ages], RecencyOrder(a)
  PROVE  LET held == {k \in Keys : Holds(a, k)}
         IN  IsFiniteSet(held) /\ Cardinality(held) <= MaxSize
<1> DEFINE held == {k \in Keys : Holds(a, k)}
           young == 0 .. MaxSize - 1
           f == [k \in held |-> a[k]]
<1>1. f \in [held -> young]
  BY LRUAssumption DEF Holds, Ages
<1>2. \A i, j \in held : f[i] = f[j] => i = j
  BY DEF RecencyOrder
<1>3. f \in Injection(held, young)
  BY <1>1, <1>2 DEF Injection, IsInjective
<1>4. IsFiniteSet(young) /\ Cardinality(young) = MaxSize
  BY LRUAssumption, FS_Interval
<1> QED BY <1>3, <1>4, FS_Injection

(***************************************************************************)
(* The steps.                                                              *)
(***************************************************************************)
\* The initial state satisfies every part of the invariant.
LEMMA InitInv == Init => IInv
<1> SUFFICES ASSUME Init PROVE IInv
  OBVIOUS
<1> USE FilterAssumption, LRUAssumption DEF Init
<1>1. TypeOK
  BY DEF TypeOK, Labels, NothingHeld, Ages
<1>2. Roles /\ Registered
  BY DEF Roles, Registered, Before, Leading, Finally
<1>3. NoLostWakeup /\ Stored /\ TranslationKept
  BY DEF NoLostWakeup, Stored, TranslationKept, Finally
<1>4. Recent
  BY DEF Recent, RecencyOrder, Holds, NothingHeld
<1> QED BY <1>1, <1>2, <1>3, <1>4 DEF IInv

\* A thread that is past get_default_cache has a FilterCache and a question.
LEMMA CacheOf ==
  ASSUME TypeOK, Roles, NEW t \in Threads, pc[t] \notin Before
  PROVE  uses[t] \in Threads /\ asks[t] \in Keys /\ default \in Threads
BY DEF TypeOK, Roles, Before

\* What an eviction leaves in a FilterCache is SQL or nothing.
LEMMA KeptType ==
  ASSUME NEW a, NEW v \in [Keys -> Sqls \cup {None}]
  PROVE  Kept(a, v, None) \in [Keys -> Sqls \cup {None}]
BY DEF Kept

\* An exception takes a leader to its finally block and ends the call of anyone
\* else.
LEMMA RaisedAs ==
  ASSUME NEW t \in Threads, TranslateFails(t)
  PROVE  /\ pc[t] = "translate"
         /\ errors' = [errors EXCEPT ![asks[t]] = t] \/ errors' = errors
         /\ UNCHANGED <<default, mem, age, inflight>>
         /\ \/ lead[t] = t /\ Goto(t, "pop") /\ UNCHANGED <<asks, sql, uses, lead, woke>>
            \/ lead[t] # t /\ Finish(t)
BY DEF TranslateFails, cacheVars

\* The finally block is over, and the call goes on or raises.
LEMMA ClearedAs ==
  ASSUME NEW t \in Threads, PopError(t)
  PROVE  /\ pc[t] = "clear"
         /\ errors' = [errors EXCEPT ![asks[t]] = None]
         /\ UNCHANGED <<default, mem, age, inflight>>
         /\ \/ sql[t] = None /\ Finish(t)
            \/ /\ sql[t] # None /\ Goto(t, "run")
               /\ lead' = [lead EXCEPT ![t] = None]
               /\ UNCHANGED <<asks, sql, uses, woke>>
BY DEF PopError, cacheVars

\* Every step keeps every type.
LEMMA TypeStep == IInv /\ [Next]_vars => TypeOK'
<1> SUFFICES ASSUME IInv, [Next]_vars PROVE TypeOK'
  OBVIOUS
<1> USE FilterAssumption DEF IInv, TypeOK, Labels, Goto, cacheVars, flightVars
<1>1. CASE UNCHANGED vars
  BY <1>1 DEF vars
<1>2. ASSUME NEW t \in Threads, NEW k \in Keys, Call(t, k) PROVE TypeOK'
  BY <1>2 DEF Call
<1>3. ASSUME NEW t \in Threads, Step(t) PROVE TypeOK'
  <2>1. CASE UseDefault(t)
    BY <2>1 DEF UseDefault
  <2>2. CASE NoDefaultYet(t)
    BY <2>2 DEF NoDefaultYet
  <2>3. CASE CreateDefault(t)
    BY <2>3 DEF CreateDefault
  <2>4. CASE Hit(t)
    <3>1. mem[uses[t]][asks[t]] \in Sqls /\ asks[t] \in Keys /\ uses[t] \in Threads
      BY <2>4, CacheOf DEF Hit, Before
    <3>2. Use(age[uses[t]], asks[t]) \in [Keys -> Ages]
      BY <3>1, AgesType
    <3> QED BY <2>4, <3>1, <3>2 DEF Hit
  <2>5. CASE Miss(t)
    BY <2>5 DEF Miss
  <2>6. CASE BecomeLeader(t)
    BY <2>6 DEF BecomeLeader
  <2>7. CASE BecomeFollower(t)
    BY <2>7 DEF BecomeFollower
  <2>8. CASE Reraise(t)
    BY <2>8 DEF Reraise, Finish
  <2>9. CASE LookAgain(t)
    BY <2>9 DEF LookAgain
  <2>10. CASE FallThrough(t)
    BY <2>10 DEF FallThrough
  <2>11. CASE TranslateFails(t)
    <3>0. /\ pc[t] = "translate"
          /\ errors' \in [Keys -> Threads \cup {None}]
          /\ UNCHANGED <<default, mem, age, inflight>>
      BY <2>11, RaisedAs
    <3>1. CASE Goto(t, "pop") /\ lead[t] = t /\ UNCHANGED <<asks, sql, uses, lead, woke>>
      BY <3>0, <3>1
    <3>2. CASE Finish(t) /\ lead[t] # t
      BY <3>0, <3>2 DEF Finish
    <3> QED BY <2>11, <3>1, <3>2, RaisedAs
  <2>12. CASE Put(t)
    <3>1. asks[t] \in Keys /\ uses[t] \in Threads /\ sql[t] \in Sqls
      BY <2>12, CacheOf DEF Put, Before
    <3>2. Use(age[uses[t]], asks[t]) \in [Keys -> Ages]
      BY <3>1, AgesType
    <3>3. [mem[uses[t]] EXCEPT ![asks[t]] = sql[t]] \in [Keys -> Sqls \cup {None}]
      BY <3>1
    <3>4. Kept(age'[uses[t]], [mem[uses[t]] EXCEPT ![asks[t]] = sql[t]], None)
            \in [Keys -> Sqls \cup {None}]
      BY <3>3, KeptType
    <3> QED BY <2>12, <3>1, <3>2, <3>4 DEF Put
  <2>13. CASE PopInflight(t)
    BY <2>13 DEF PopInflight
  <2>14. CASE SetEvent(t)
    BY <2>14 DEF SetEvent
  <2>15. CASE PopError(t)
    <3>0. /\ pc[t] = "clear"
          /\ errors' \in [Keys -> Threads \cup {None}]
          /\ UNCHANGED <<default, mem, age, inflight>>
      BY <2>15, ClearedAs
    <3>1. CASE Finish(t)
      BY <3>0, <3>1 DEF Finish
    <3>2. CASE /\ sql[t] # None /\ Goto(t, "run")
               /\ lead' = [lead EXCEPT ![t] = None]
               /\ UNCHANGED <<asks, sql, uses, woke>>
      BY <3>0, <3>2
    <3> QED BY <2>15, <3>1, <3>2, ClearedAs
  <2>16. CASE Answer(t)
    BY <2>16 DEF Answer, Finish
  <2>17. CASE QueryRaises(t)
    BY <2>17 DEF QueryRaises
  <2>18. CASE Invalidate(t)
    <3>1. asks[t] \in Keys /\ default \in Threads
      BY <2>18, CacheOf DEF Invalidate, Before
    <3>2. Forget(age[default], asks[t]) \in [Keys -> Ages]
      BY <3>1, AgesType
    <3> QED BY <2>18, <3>1, <3>2 DEF Invalidate, Finish
  <2>19. ASSUME NEW s \in Sqls, Translate(t, s) PROVE TypeOK'
    BY <2>19 DEF Translate
  <2> QED
    BY <1>3, <2>1, <2>2, <2>3, <2>4, <2>5, <2>6, <2>7, <2>8, <2>9, <2>10, <2>11, <2>12, <2>13, <2>14, <2>15, <2>16, <2>17, <2>18, <2>19 DEF Step
<1> QED BY <1>1, <1>2, <1>3 DEF Next

\* A leader registers only where nobody is, withdraws before it wakes its
\* followers, and a follower takes the Event of the registered leader.
LEMMA FlightStep == IInv /\ [Next]_vars => (Roles /\ Registered /\ NoLostWakeup)'
<1> SUFFICES ASSUME IInv, [Next]_vars PROVE (Roles /\ Registered /\ NoLostWakeup)'
  OBVIOUS
<1> USE FilterAssumption DEF IInv, TypeOK, Labels, Roles, Registered, NoLostWakeup, Before, Leading, Finally, Goto,
                         cacheVars, flightVars
<1>1. CASE UNCHANGED vars
  BY <1>1 DEF vars
<1>2. ASSUME NEW t \in Threads, NEW k \in Keys, Call(t, k) PROVE (Roles /\ Registered /\ NoLostWakeup)'
  BY <1>2 DEF Call
<1>3. ASSUME NEW t \in Threads, Step(t) PROVE (Roles /\ Registered /\ NoLostWakeup)'
  <2>1. CASE UseDefault(t)
    BY <2>1 DEF UseDefault
  <2>2. CASE NoDefaultYet(t)
    BY <2>2 DEF NoDefaultYet
  <2>3. CASE CreateDefault(t)
    BY <2>3 DEF CreateDefault
  <2>4. CASE Hit(t)
    BY <2>4 DEF Hit
  <2>5. CASE Miss(t)
    BY <2>5 DEF Miss
  <2>6. CASE BecomeLeader(t)
    BY <2>6 DEF BecomeLeader
  <2>7. CASE BecomeFollower(t)
    BY <2>7 DEF BecomeFollower
  <2>8. CASE Reraise(t)
    BY <2>8 DEF Reraise, Finish
  <2>9. CASE LookAgain(t)
    BY <2>9 DEF LookAgain
  <2>10. CASE FallThrough(t)
    BY <2>10 DEF FallThrough
  <2>11. CASE TranslateFails(t)
    <3>0. /\ pc[t] = "translate"
          /\ UNCHANGED <<default, inflight>>
      BY <2>11, RaisedAs
    <3>1. CASE Goto(t, "pop") /\ lead[t] = t /\ UNCHANGED <<asks, sql, uses, lead, woke>>
      BY <3>0, <3>1
    <3>2. CASE Finish(t) /\ lead[t] # t
      BY <3>0, <3>2 DEF Finish
    <3> QED BY <2>11, <3>1, <3>2, RaisedAs
  <2>12. CASE Put(t)
    BY <2>12 DEF Put
  <2>13. CASE PopInflight(t)
    BY <2>13 DEF PopInflight
  <2>14. CASE SetEvent(t)
    BY <2>14 DEF SetEvent
  <2>15. CASE PopError(t)
    <3>0. /\ pc[t] = "clear"
          /\ UNCHANGED <<default, inflight>>
      BY <2>15, ClearedAs
    <3>1. CASE Finish(t)
      BY <3>0, <3>1 DEF Finish
    <3>2. CASE /\ sql[t] # None /\ Goto(t, "run")
               /\ lead' = [lead EXCEPT ![t] = None]
               /\ UNCHANGED <<asks, sql, uses, woke>>
      BY <3>0, <3>2
    <3> QED BY <2>15, <3>1, <3>2, ClearedAs
  <2>16. CASE Answer(t)
    BY <2>16 DEF Answer, Finish
  <2>17. CASE QueryRaises(t)
    BY <2>17 DEF QueryRaises
  <2>18. CASE Invalidate(t)
    BY <2>18 DEF Invalidate, Finish
  <2>19. ASSUME NEW s \in Sqls, Translate(t, s) PROVE (Roles /\ Registered /\ NoLostWakeup)'
    BY <2>19 DEF Translate
  <2> QED
    BY <1>3, <2>1, <2>2, <2>3, <2>4, <2>5, <2>6, <2>7, <2>8, <2>9, <2>10, <2>11, <2>12, <2>13, <2>14, <2>15, <2>16, <2>17, <2>18, <2>19 DEF Step
<1> QED BY <1>1, <1>2, <1>3 DEF Next

\* Only a hit, a put and an invalidation touch a FilterCache.
LEMMA CacheUntouched ==
  ASSUME NEW t \in Threads, Step(t), ~ Hit(t), ~ Put(t), ~ Invalidate(t)
  PROVE  UNCHANGED <<mem, age>>
BY DEF Step, cacheVars, flightVars, UseDefault, NoDefaultYet, CreateDefault, Miss,
       BecomeLeader, BecomeFollower, Reraise, LookAgain, FallThrough, Translate,
       TranslateFails, PopInflight, SetEvent, PopError, Answer, QueryRaises, Finish

\* What the recency order holds and what has a translation stay the same, one
\* FilterCache at a time.
LEMMA RecentStep == IInv /\ [Next]_vars => Recent'
<1> SUFFICES ASSUME IInv, [Next]_vars PROVE Recent'
  OBVIOUS
<1> USE FilterAssumption, LRUAssumption DEF IInv, TypeOK
<1>1. CASE UNCHANGED <<mem, age>>
  BY <1>1 DEF Recent
<1>2. ASSUME NEW t \in Threads, Hit(t) PROVE Recent'
  <2> DEFINE c == uses[t]
             k == asks[t]
  <2>1. /\ c \in Threads /\ k \in Keys
        /\ Holds(age[c], k)
        /\ mem' = mem
        /\ age' = [age EXCEPT ![c] = Use(age[c], k)]
    BY <1>2, CacheOf DEF Hit, Before, Recent
  <2>2. RecencyOrder(Use(age[c], k))
    BY <2>1, UseKeepsOrder DEF Recent
  <2>3. \A j \in Keys : Holds(Use(age[c], k), j) <=> Holds(age[c], j)
    <3>1. \A j \in Keys : age[c][j] \in Nat
      BY <2>1 DEF Ages
    <3> HIDE DEF c, k
    <3> QED BY <2>1, <3>1 DEF Use, Holds
  <2> HIDE DEF c, k
  <2> QED BY <2>1, <2>2, <2>3 DEF Recent
<1>3. ASSUME NEW t \in Threads, Put(t) PROVE Recent'
  <2> DEFINE c == uses[t]
             k == asks[t]
             a == Use(age[c], k)
             v == [mem[c] EXCEPT ![k] = sql[t]]
  <2>1. /\ c \in Threads /\ k \in Keys
        /\ sql[t] # None
        /\ age' = [age EXCEPT ![c] = a]
        /\ mem' = [mem EXCEPT ![c] = Kept(a, v, None)]
    BY <1>3, CacheOf DEF Put, Before
  <2>2. RecencyOrder(a)
    BY <2>1, UseKeepsOrder DEF Recent
  <2>3. \A j \in Keys : Kept(a, v, None)[j] # None <=> Holds(a, j)
    <3>1. SUFFICES ASSUME NEW j \in Keys, Holds(a, j) PROVE v[j] # None
      BY DEF Kept
    <3>2. CASE j = k
      BY <2>1, <3>2
    <3>3. CASE j # k
      <4>1. Holds(age[c], j)
        BY <2>1, <3>1, <3>3 DEF Use, Holds, Ages
      <4> QED BY <2>1, <3>3, <4>1 DEF Recent
    <3> QED BY <3>2, <3>3
  <2> HIDE DEF a, c, k, v
  <2> QED BY <2>1, <2>2, <2>3 DEF Recent
<1>4. ASSUME NEW t \in Threads, Invalidate(t) PROVE Recent'
  <2> DEFINE k == asks[t]
             a == Forget(age[default], k)
  <2>1. /\ default \in Threads /\ k \in Keys
        /\ age' = [age EXCEPT ![default] = a]
        /\ mem' = [mem EXCEPT ![default] = [mem[default] EXCEPT ![k] = None]]
    BY <1>4, CacheOf DEF Invalidate, Before
  <2>2. RecencyOrder(a)
    BY <2>1, ForgetKeepsOrder DEF Recent
  <2>3. \A j \in Keys : Holds(a, j) <=> j # k /\ Holds(age[default], j)
    BY <2>1 DEF Forget, Holds, Ages
  <2>4. \A j \in Keys : [mem[default] EXCEPT ![k] = None][j] # None <=> Holds(a, j)
    BY <2>1, <2>3 DEF Recent
  <2> HIDE DEF a, k
  <2> QED BY <2>1, <2>2, <2>4 DEF Recent
<1>5. ASSUME NEW t \in Threads, NEW k \in Keys, Call(t, k) PROVE UNCHANGED <<mem, age>>
  BY <1>5 DEF Call, cacheVars
<1>6. CASE UNCHANGED vars
  BY <1>1, <1>6 DEF vars, cacheVars
<1> QED BY <1>1, <1>2, <1>3, <1>4, <1>5, <1>6, CacheUntouched DEF Next

\* While nothing is evicted or dropped, a FilterCache only gains entries.
LEMMA MemGrows ==
  ASSUME IInv, [Next]_vars, Undisturbed, NEW c \in Threads, NEW k \in Keys,
         mem[c][k] # None
  PROVE  mem'[c][k] # None
<1> USE FilterAssumption DEF IInv, TypeOK
<1>1. CASE UNCHANGED <<mem, age>>
  BY <1>1
<1>2. ASSUME NEW t \in Threads, Hit(t) PROVE mem' = mem
  BY <1>2 DEF Hit
<1>3. ASSUME NEW t \in Threads, Put(t) PROVE mem'[c][k] # None
  <2>1. /\ uses[t] \in Threads /\ asks[t] \in Keys /\ sql[t] # None
        /\ age' = [age EXCEPT ![uses[t]] = Use(age[uses[t]], asks[t])]
        /\ mem' = [mem EXCEPT ![uses[t]] =
                     Kept(age'[uses[t]], [mem[uses[t]] EXCEPT ![asks[t]] = sql[t]], None)]
    BY <1>3, CacheOf DEF Put, Before
  <2>2. CASE c = uses[t]
    <3>1. Holds(Use(age[c], asks[t]), k)
      BY <2>1, NothingEvicted DEF Recent, Undisturbed
    <3> QED BY <2>1, <2>2, <3>1 DEF Kept
  <2>3. CASE c # uses[t]
    BY <2>1, <2>3
  <2> QED BY <2>2, <2>3
<1>4. ASSUME NEW t \in Threads PROVE ~ Invalidate(t)
  BY <1>4 DEF Invalidate, Stored
<1>5. ASSUME NEW t \in Threads, NEW j \in Keys, Call(t, j) PROVE mem' = mem
  BY <1>5 DEF Call, cacheVars
<1>6. CASE UNCHANGED vars
  BY <1>6 DEF vars, cacheVars
<1> QED BY <1>1, <1>2, <1>3, <1>4, <1>5, <1>6, CacheUntouched DEF Next

\* A thread moves itself alone; only set() reaches others.
LEMMA OthersStay ==
  ASSUME TypeOK, NEW t \in Threads, Step(t) \/ \E k \in Keys : Call(t, k),
         NEW u \in Threads \ {t}
  PROVE  /\ pc'[u] = pc[u] /\ asks'[u] = asks[u]
         /\ sql'[u] = sql[u] /\ uses'[u] = uses[u]
         /\ woke'[u] = woke[u] \/ SetEvent(t)
<1> USE DEF TypeOK, Goto, cacheVars, flightVars
<1>1. CASE \E k \in Keys : Call(t, k)
  BY <1>1 DEF Call
<1>2. CASE UseDefault(t) \/ NoDefaultYet(t) \/ CreateDefault(t) \/ Hit(t) \/ Miss(t)
  BY <1>2 DEF UseDefault, NoDefaultYet, CreateDefault, Hit, Miss
<1>3. CASE BecomeLeader(t) \/ BecomeFollower(t) \/ LookAgain(t) \/ FallThrough(t)
  BY <1>3 DEF BecomeLeader, BecomeFollower, LookAgain, FallThrough
<1>4. CASE Reraise(t) \/ Answer(t) \/ Invalidate(t)
  BY <1>4 DEF Reraise, Answer, Invalidate, Finish
<1>5. CASE TranslateFails(t)
  BY <1>5, RaisedAs DEF Finish
<1>6. CASE PopError(t)
  BY <1>6, ClearedAs DEF Finish
<1>7. CASE Put(t) \/ PopInflight(t) \/ SetEvent(t) \/ QueryRaises(t)
  BY <1>7 DEF Put, PopInflight, SetEvent, QueryRaises
<1>8. CASE \E s \in Sqls : Translate(t, s)
  BY <1>8 DEF Translate
<1> QED BY <1>1, <1>2, <1>3, <1>4, <1>5, <1>6, <1>7, <1>8 DEF Step

\* A leader that enters its finally block with SQL has just put it.
LEMMA EntersFinally ==
  ASSUME IInv, NEW t \in Threads, Step(t) \/ \E k \in Keys : Call(t, k),
         pc'[t] \in Finally, sql'[t] # None
  PROVE  \/ Put(t)
         \/ /\ pc[t] \in Finally /\ sql[t] # None
            /\ uses'[t] = uses[t] /\ asks'[t] = asks[t]
<1> USE DEF IInv, TypeOK, Goto, Finally, cacheVars, flightVars
<1>1. CASE \E k \in Keys : Call(t, k)
  BY <1>1 DEF Call
<1>2. CASE UseDefault(t) \/ NoDefaultYet(t) \/ CreateDefault(t) \/ Hit(t) \/ Miss(t)
  BY <1>2 DEF UseDefault, NoDefaultYet, CreateDefault, Hit, Miss
<1>3. CASE BecomeLeader(t) \/ BecomeFollower(t) \/ LookAgain(t) \/ FallThrough(t)
  BY <1>3 DEF BecomeLeader, BecomeFollower, LookAgain, FallThrough
<1>4. CASE Reraise(t) \/ Answer(t) \/ Invalidate(t)
  BY <1>4 DEF Reraise, Answer, Invalidate, Finish
<1>5. CASE TranslateFails(t)
  <2>1. sql[t] = None
    BY <1>5, RaisedAs DEF Roles
  <2>2. sql' = sql \/ sql'[t] = None
    BY <1>5, RaisedAs DEF Finish
  <2> QED BY <2>1, <2>2
<1>6. CASE PopError(t)
  BY <1>6, ClearedAs DEF Finish
<1>7. CASE PopInflight(t) \/ SetEvent(t) \/ QueryRaises(t)
  BY <1>7 DEF PopInflight, SetEvent, QueryRaises
<1>8. CASE \E s \in Sqls : Translate(t, s)
  BY <1>8 DEF Translate
<1> QED BY <1>1, <1>2, <1>3, <1>4, <1>5, <1>6, <1>7, <1>8 DEF Step

\* While nothing is evicted or dropped, what a leader put is there when it sets
\* its Event, and stays.
LEMMA StoredStep == IInv /\ [Next]_vars => (Stored /\ TranslationKept)'
<1> SUFFICES ASSUME IInv, [Next]_vars, Undisturbed
             PROVE  /\ \A u \in Threads : pc'[u] # "drop"
                    /\ \A u \in Threads : pc'[u] \in Finally /\ sql'[u] # None
                                            => mem'[uses'[u]][asks'[u]] # None
                    /\ \A u \in Threads : woke'[u] = "ok"
                                            => \E c \in Threads : mem'[c][asks'[u]] # None
  BY DEF Stored, TranslationKept, Undisturbed
<1>0. /\ \A u \in Threads : pc[u] # "drop"
      /\ \A u \in Threads : pc[u] \in Finally /\ sql[u] # None => mem[uses[u]][asks[u]] # None
      /\ \A u \in Threads : woke[u] = "ok" => \E c \in Threads : mem[c][asks[u]] # None
  BY DEF IInv, Stored, TranslationKept, Undisturbed
<1>1. /\ \A c \in Threads, k \in Keys : mem[c][k] # None => mem'[c][k] # None
      /\ \A u \in Threads : pc[u] \in Finally => uses[u] \in Threads /\ asks[u] \in Keys
      /\ \A u \in Threads : woke[u] = "ok" => asks[u] \in Keys
  <2>1. TypeOK /\ Roles
    BY DEF IInv
  <2>2. \A u \in Threads : pc[u] \in Finally => uses[u] \in Threads /\ asks[u] \in Keys
    BY <2>1, CacheOf DEF Before, Finally
  <2>3. \A u \in Threads : woke[u] = "ok" => asks[u] \in Keys
    BY <2>1, CacheOf DEF Roles, Before
  <2> QED BY <2>2, <2>3, MemGrows
<1>2. CASE UNCHANGED vars
  BY <1>0, <1>2 DEF vars, cacheVars, flightVars
<1>3. ASSUME NEW t \in Threads, Step(t) \/ \E k \in Keys : Call(t, k),
             NEW u \in Threads
      PROVE  /\ pc'[u] # "drop"
             /\ pc'[u] \in Finally /\ sql'[u] # None => mem'[uses'[u]][asks'[u]] # None
             /\ woke'[u] = "ok" => \E c \in Threads : mem'[c][asks'[u]] # None
  <2>1. pc'[u] # "drop"
    <3>1. ~ QueryRaises(t)
      BY <1>3 DEF QueryRaises, Undisturbed
    <3> QED BY <1>0, <1>3, <3>1, RaisedAs, ClearedAs
         DEF IInv, TypeOK, Goto, Finish, Step, Call, UseDefault, NoDefaultYet, CreateDefault, Hit, Miss,
             BecomeLeader, BecomeFollower, Reraise, LookAgain, FallThrough, Translate, Put,
             PopInflight, SetEvent, Answer, Invalidate
  <2>2. ASSUME pc'[u] \in Finally, sql'[u] # None PROVE mem'[uses'[u]][asks'[u]] # None
    <3>1. CASE u # t
      <4>1. /\ pc'[u] = pc[u] /\ asks'[u] = asks[u]
            /\ sql'[u] = sql[u] /\ uses'[u] = uses[u]
        BY <1>3, <3>1, OthersStay DEF IInv
      <4> QED BY <1>0, <1>1, <2>2, <4>1
    <3>2. CASE u = t /\ Put(t)
      <4>1. /\ uses[t] \in Threads /\ asks[t] \in Keys /\ sql[t] # None
            /\ uses' = uses /\ asks' = asks
            /\ age' = [age EXCEPT ![uses[t]] = Use(age[uses[t]], asks[t])]
            /\ mem' = [mem EXCEPT ![uses[t]] =
                     Kept(age'[uses[t]], [mem[uses[t]] EXCEPT ![asks[t]] = sql[t]], None)]
        BY <3>2, CacheOf DEF Put, Before, IInv, TypeOK
      <4>2. Holds(age'[uses[t]], asks[t])
        BY <4>1, LRUAssumption DEF Use, Holds, IInv, TypeOK
      <4> QED BY <3>2, <4>1, <4>2 DEF Kept, IInv, TypeOK
    <3>3. CASE u = t /\ ~ Put(t)
      BY <1>0, <1>1, <1>3, <2>2, <3>3, EntersFinally
    <3> QED BY <3>1, <3>2, <3>3
  <2>3. ASSUME woke'[u] = "ok" PROVE \E c \in Threads : mem'[c][asks'[u]] # None
    <3>1. CASE woke[u] = "ok" /\ asks'[u] = asks[u]
      BY <1>0, <1>1, <3>1
    <3>2. CASE SetEvent(t) /\ woke[u] # "ok"
      <4>1. /\ pc[t] = "set" /\ sql[t] # None /\ asks' = asks
            /\ pc[u] = "wait" /\ lead[u] = t /\ woke[u] = "unset"
        BY <2>3, <3>2 DEF SetEvent, IInv, TypeOK
      <4>2. asks[u] = asks[t]
        BY <4>1 DEF IInv, NoLostWakeup
      <4> QED BY <1>0, <1>1, <4>1, <4>2 DEF Finally
    <3>3. CASE SetEvent(t)
      BY <3>1, <3>2, <3>3 DEF SetEvent
    <3>4. CASE u # t
      BY <1>3, <2>3, <3>1, <3>3, <3>4, OthersStay DEF IInv
    <3>5. CASE u = t /\ ~ SetEvent(t)
      <4>1. woke[t] = "ok" /\ asks'[t] = asks[t]
        BY <1>3, <2>3, <3>5, RaisedAs, ClearedAs
           DEF IInv, TypeOK, Roles, Before, Goto, Finish, Step, Call, UseDefault, NoDefaultYet, CreateDefault,
               Hit, Miss, BecomeLeader, BecomeFollower, Reraise, LookAgain, FallThrough, Translate,
               Put, PopInflight, Answer, QueryRaises, Invalidate, cacheVars, flightVars
      <4> QED BY <3>1, <3>5, <4>1
    <3> QED BY <3>3, <3>4, <3>5
  <2> QED BY <2>1, <2>2, <2>3
<1> QED BY <1>2, <1>3 DEF Next

\* Every step keeps every part of the invariant.
LEMMA NextInv == IInv /\ [Next]_vars => IInv'
BY TypeStep, FlightStep, RecentStep, StoredStep DEF IInv

\* The inductive invariant holds throughout.
LEMMA Invariance == Spec => []IInv
BY InitInv, NextInv, PTL DEF Spec

(***************************************************************************)
(* The properties.                                                         *)
(***************************************************************************)
\* Every variable keeps its type: a thread that puts or runs SQL has some.
THEOREM TypeCorrect == Spec => []TypeOK
<1>1. IInv => TypeOK
  BY DEF IInv
<1> QED BY <1>1, Invariance, PTL

\* A blocked follower has a leader of the same question that has yet to set the
\* Event, whatever fails and whoever falls through.
THEOREM FollowersAreWoken == Spec => []NoLostWakeup
<1>1. IInv => NoLostWakeup
  BY DEF IInv
<1> QED BY <1>1, Invariance, PTL

\* The leader's put comes before its Event: a follower is told of success only
\* when some FilterCache has the translation, which is not its own if the race in
\* get_default_cache has made two.
THEOREM TranslationsAreKept == Spec => []TranslationKept
<1>1. IInv => TranslationKept
  BY DEF IInv
<1> QED BY <1>1, Invariance, PTL

CacheBounded ==
  \A c \in Threads :
    /\ IsFiniteSet({k \in Keys : mem[c][k] # None})
    /\ Cardinality({k \in Keys : mem[c][k] # None}) <= MaxSize

\* No FilterCache ever holds more translations than its maxsize.
THEOREM CacheIsBounded == Spec => []CacheBounded
<1>1. ASSUME IInv, NEW c \in Threads
      PROVE  /\ IsFiniteSet({k \in Keys : mem[c][k] # None})
             /\ Cardinality({k \in Keys : mem[c][k] # None}) <= MaxSize
  <2>1. {k \in Keys : mem[c][k] # None} = {k \in Keys : Holds(age[c], k)}
    BY <1>1 DEF IInv, Recent
  <2> QED BY <1>1, <2>1, OrderBoundsSize DEF IInv, TypeOK, Recent
<1>2. IInv => CacheBounded
  BY <1>1 DEF CacheBounded
<1> QED BY <1>2, Invariance, PTL

(***************************************************************************)
(* compile_filter implements SingleFlight: leads and follows, computed     *)
(* from pc, lead and woke, change as SingleFlight says.                    *)
(***************************************************************************)
\* Nobody leads or follows at first.
LEMMA RefinedInit == Init => SF!Init
BY FilterAssumption DEF Init, SF!Init, leads, follows

\* SingleFlight does not see a step that leaves _inflight, leads and follows.
LEMMA Invisible ==
  ASSUME inflight' = inflight,
         \A u \in Threads : leads'[u] = leads[u] /\ follows'[u] = follows[u]
  PROVE  UNCHANGED SF!sfVars
BY DEF SF!sfVars, leads, follows

\* Every step of compile_filter is a step of SingleFlight or invisible to it.
LEMMA RefinedStep == IInv /\ [Next]_vars => [SF!Next]_(SF!sfVars)
<1> SUFFICES ASSUME IInv, [Next]_vars PROVE [SF!Next]_(SF!sfVars)
  OBVIOUS
<1> USE FilterAssumption DEF IInv, TypeOK, Goto, cacheVars, flightVars
<1>1. CASE UNCHANGED vars
  BY <1>1, Invisible DEF vars, leads, follows
<1>2. ASSUME NEW t \in Threads, NEW k \in Keys, Call(t, k) PROVE UNCHANGED SF!sfVars
  BY <1>2, Invisible DEF Call, Roles, Before, leads, follows
<1>3. ASSUME NEW t \in Threads, Step(t) PROVE [SF!Next]_(SF!sfVars)
  <2>0. pc[t] # "idle" => asks[t] \in Keys
    OBVIOUS
  <2>1. CASE BecomeLeader(t)
    <3>1. /\ leads[t] = None /\ follows[t] = None
          /\ inflight[asks[t]] = None /\ asks[t] \in Keys
      BY <2>0, <2>1 DEF BecomeLeader, leads, follows
    <3>2. /\ inflight' = [inflight EXCEPT ![asks[t]] = t]
          /\ leads' = [leads EXCEPT ![t] = asks[t]]
          /\ follows' = follows
      BY <2>1 DEF BecomeLeader, leads, follows
    <3> QED BY <3>1, <3>2 DEF SF!Next, SF!Lead
  <2>2. CASE BecomeFollower(t)
    <3>1. /\ leads[t] = None /\ follows[t] = None
          /\ inflight[asks[t]] # None /\ asks[t] \in Keys
      BY <2>0, <2>2 DEF BecomeFollower, leads, follows
    <3>2. /\ inflight' = inflight
          /\ inflight[asks[t]] # t /\ woke[t] = "unset"
      BY <2>0, <2>2 DEF BecomeFollower, Roles, Registered
    <3>3. leads' = leads
      BY <2>2, <3>2 DEF BecomeFollower, leads
    <3>4. follows' = [follows EXCEPT ![t] = inflight[asks[t]]]
      BY <2>2, <3>2 DEF BecomeFollower, follows
    <3> QED BY <3>1, <3>2, <3>3, <3>4 DEF SF!Next, SF!Follow
  <2>3. CASE PopInflight(t)
    <3>1. leads[t] = asks[t] /\ inflight[asks[t]] = t /\ asks[t] \in Keys
      BY <2>0, <2>3 DEF PopInflight, leads, Roles, Registered, Leading, Finally
    <3>2. /\ inflight' = [inflight EXCEPT ![asks[t]] = None]
          /\ leads' = leads
          /\ follows' = follows
      BY <2>3 DEF PopInflight, leads, follows
    <3> QED BY <3>1, <3>2 DEF SF!Next, SF!Withdraw
  <2>4. CASE SetEvent(t)
    <3>1. /\ leads[t] = asks[t] /\ asks[t] \in Keys
          /\ inflight[asks[t]] # t /\ inflight' = inflight
      BY <2>0, <2>4 DEF SetEvent, leads, Roles, Registered, Leading, Finally
    <3>2. leads' = [leads EXCEPT ![t] = None]
      BY <2>4 DEF SetEvent, leads
    <3>3. follows' = [u \in Threads |->
                        IF follows[u] = t THEN None ELSE follows[u]]
      BY <2>4 DEF SetEvent, follows
    <3> QED BY <3>1, <3>2, <3>3 DEF SF!Next, SF!Release
  <2>5. CASE PopError(t)
    <3>1. pc[t] = "clear" /\ inflight' = inflight
      BY <2>5, ClearedAs
    <3>2. CASE Finish(t)
      BY <3>1, <3>2, Invisible DEF Finish, Roles, Finally, leads, follows
    <3>3. CASE Goto(t, "run") /\ lead' = [lead EXCEPT ![t] = None] /\ UNCHANGED <<asks, woke>>
      BY <3>1, <3>3, Invisible DEF Roles, Finally, leads, follows
    <3> QED BY <2>5, <3>2, <3>3, ClearedAs
  <2>6. CASE TranslateFails(t)
    <3>1. pc[t] = "translate" /\ inflight' = inflight
      BY <2>6, RaisedAs
    <3>2. CASE lead[t] = t /\ Goto(t, "pop") /\ UNCHANGED <<asks, lead, woke>>
      BY <3>1, <3>2, Invisible DEF leads, follows
    <3>3. CASE lead[t] # t /\ Finish(t)
      BY <3>1, <3>3, Invisible DEF Finish, leads, follows
    <3> QED BY <2>6, <3>2, <3>3, RaisedAs
  <2>7. CASE UseDefault(t) \/ NoDefaultYet(t) \/ CreateDefault(t) \/ Hit(t) \/ Miss(t)
    BY <2>7, Invisible
       DEF UseDefault, NoDefaultYet, CreateDefault, Hit, Miss, Roles, Before, Leading, Finally,
           leads, follows
  <2>8. CASE LookAgain(t) \/ FallThrough(t) \/ Put(t) \/ QueryRaises(t)
             \/ \E s \in Sqls : Translate(t, s)
    BY <2>8, Invisible
       DEF LookAgain, FallThrough, Put, QueryRaises, Translate, Roles, Leading, Finally,
           leads, follows
  <2>9. CASE Reraise(t) \/ Answer(t) \/ Invalidate(t)
    BY <2>9, Invisible
       DEF Reraise, Answer, Invalidate, Finish, Roles, Leading, Finally, leads, follows
  <2> QED BY <1>3, <2>1, <2>2, <2>3, <2>4, <2>5, <2>6, <2>7, <2>8, <2>9 DEF Step
<1> QED BY <1>1, <1>2, <1>3 DEF Next

\* compile_filter keeps every promise of SingleFlight, although its followers
\* may translate on their own.
THEOREM Refinement == Spec => ImplementsSingleFlight
<1>1. Spec => SF!Spec
  BY RefinedInit, RefinedStep, Invariance, PTL DEF Spec, SF!Spec
<1> QED BY <1>1 DEF ImplementsSingleFlight
=============================================================================
