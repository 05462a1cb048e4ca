-------------------------- MODULE SemaphoreProofs --------------------------
(***************************************************************************)
(* sem_wait() and sem_signal() lose no wake-up and leave no node dangling, *)
(* for any number of tasks and cores and any number of signals.            *)
(***************************************************************************)
EXTENDS Semaphore, FiniteSetTheorems, SequenceTheorems,
        WellFoundedInduction, TLAPS

IInv == TypeOK /\ NoDanglingNode /\ SleeperIsLinked /\ NoLostWakeup

-----------------------------------------------------------------------------
(* The list of waiters.                                                    *)

\* list_add_tail() of a node that is not yet linked.
LEMMA Appended ==
  ASSUME NEW S, NEW s \in Seq(S), NEW e \in S
  PROVE  /\ Append(s, e) \in Seq(S)
         /\ ToSet(Append(s, e)) = ToSet(s) \cup {e}
         /\ IsInjective(s) /\ e \notin ToSet(s) => IsInjective(Append(s, e))
<1> DEFINE a == Append(s, e)
<1>1. /\ a \in Seq(S) /\ Len(a) = Len(s) + 1 /\ Len(s) \in Nat
      /\ \A i \in 1..Len(s) : a[i] = s[i]
      /\ a[Len(s) + 1] = e
      /\ DOMAIN a = 1..(Len(s) + 1) /\ DOMAIN s = 1..Len(s)
  OBVIOUS
<1>2. ToSet(a) = ToSet(s) \cup {e}
  BY <1>1 DEF ToSet
<1>3. IsInjective(s) /\ e \notin ToSet(s) => IsInjective(a)
  BY <1>1 DEF ToSet, IsInjective
<1> QED
  BY <1>1, <1>2, <1>3

\* list_del(): the node at the place i goes, those behind it move up.
LEMMA RemovedAt ==
  ASSUME NEW S, NEW s \in Seq(S), NEW i \in 1..Len(s)
  PROVE  /\ RemoveAt(s, i) \in Seq(S)
         /\ Len(RemoveAt(s, i)) = Len(s) - 1
         /\ \A j \in 1..Len(s)-1 : RemoveAt(s, i)[j] = s[IF j < i THEN j ELSE j+1]
<1> DEFINE front == SubSeq(s, 1, i-1)
           back == SubSeq(s, i+1, Len(s))
<1>1. Len(s) \in Nat /\ i \in Nat
  OBVIOUS
<1>2. /\ front \in Seq(S) /\ Len(front) = i-1
      /\ \A j \in 1..i-1 : front[j] = s[j]
  BY <1>1
<1>3. /\ back \in Seq(S) /\ Len(back) = Len(s) - i
      /\ \A j \in 1..Len(s)-i : back[j] = s[i+j]
  BY <1>1
<1> HIDE DEF front, back
<1>4. /\ front \o back \in Seq(S)
      /\ Len(front \o back) = Len(front) + Len(back)
      /\ \A j \in 1..Len(front) + Len(back) : (front \o back)[j] =
           IF j <= Len(front) THEN front[j] ELSE back[j - Len(front)]
  BY <1>2, <1>3, ConcatProperties
<1>5. \A j \in 1..Len(s)-1 :
        (front \o back)[j] = s[IF j < i THEN j ELSE j+1]
  BY <1>1, <1>2, <1>3, <1>4
<1>6. Len(front) + Len(back) = Len(s) - 1
  BY <1>1, <1>2, <1>3
<1> QED
  BY <1>4, <1>5, <1>6 DEF RemoveAt, front, back

LEMMA Removed ==
  ASSUME NEW S, NEW s \in Seq(S), IsInjective(s), NEW i \in 1..Len(s)
  PROVE  /\ IsInjective(RemoveAt(s, i))
         /\ ToSet(RemoveAt(s, i)) = ToSet(s) \ {s[i]}
<1> DEFINE r == RemoveAt(s, i)
<1>1. /\ Len(s) \in Nat /\ DOMAIN s = 1..Len(s) /\ DOMAIN r = 1..(Len(s) - 1)
      /\ \A j \in 1..Len(s)-1 : r[j] = s[IF j < i THEN j ELSE j+1]
  BY RemovedAt
<1> HIDE DEF r
<1>2. IsInjective(r)
  <2> SUFFICES ASSUME NEW a \in DOMAIN r, NEW b \in DOMAIN r, r[a] = r[b]
               PROVE  a = b
    BY DEF IsInjective
  <2>1. (IF a < i THEN a ELSE a+1) = (IF b < i THEN b ELSE b+1)
    BY <1>1 DEF IsInjective
  <2> QED
    BY <2>1, <1>1
<1>3. ToSet(r) \subseteq ToSet(s) \ {s[i]}
  BY <1>1 DEF ToSet, IsInjective
<1>4. ASSUME NEW k \in 1..Len(s), k # i
      PROVE  s[k] \in ToSet(r)
  <2> DEFINE j == IF k < i THEN k ELSE k - 1
  <2>1. j \in 1..(Len(s) - 1) /\ r[j] = s[k]
    BY <1>1, <1>4
  <2> QED
    BY <2>1, <1>1 DEF ToSet
<1>5. ToSet(s) \ {s[i]} \subseteq ToSet(r)
  BY <1>1, <1>4 DEF ToSet
<1> QED
  BY <1>2, <1>3, <1>5 DEF r

LEMMA Unlinks ==
  ASSUME TypeOK, NoDanglingNode, NEW t \in Task, in_list[t]
  PROVE  /\ Unlink(t) \in Seq(Task)
         /\ IsInjective(Unlink(t))
         /\ ToSet(Unlink(t)) = ToSet(waiters) \ {t}
<1> DEFINE i == CHOOSE i \in DOMAIN waiters : waiters[i] = t
<1>1. t \in ToSet(waiters)
  BY DEF NoDanglingNode
<1>2. i \in DOMAIN waiters /\ waiters[i] = t
  BY <1>1 DEF ToSet
<1>3. i \in 1..Len(waiters) /\ waiters \in Seq(Task)
  BY <1>2 DEF TypeOK
<1>4. Unlink(t) = RemoveAt(waiters, i)
  BY DEF Unlink
<1> HIDE DEF i
<1> QED
  BY <1>2, <1>3, <1>4, RemovedAt, Removed DEF NoDanglingNode

-----------------------------------------------------------------------------
(* Each step preserves the invariant.                                      *)

LEMMA WaitersFinite ==
  ASSUME SemaphoreAssumption, NEW s
  PROVE  IsFiniteSet(Waiters(s)) /\ Cardinality(Waiters(s)) \in Nat
  BY FS_Subset, FS_CardinalityType DEF SemaphoreAssumption, Waiters

LEMMA InitInvariant == SemaphoreAssumption /\ Init => IInv
<1> SUFFICES ASSUME SemaphoreAssumption, Init PROVE IInv
  OBVIOUS
<1> USE DEF SemaphoreAssumption, Init
<1>1. ToSet(waiters) = {}
  BY DEF ToSet
<1>2. TypeOK
  BY FS_EmptySet DEF TypeOK
<1>3. NoDanglingNode
  BY <1>1 DEF NoDanglingNode, IsInjective
<1>4. SleeperIsLinked
  BY DEF SleeperIsLinked
<1>5. NoLostWakeup
  BY <1>1 DEF NoLostWakeup, Waiters
<1> QED
  BY <1>2, <1>3, <1>4, <1>5 DEF IInv

\* Taking a token removes at most one waiter that is awake.
LEMMA AcquirePreserves ==
  ASSUME SemaphoreAssumption, IInv, NEW t \in Task, sem_wait_acquire(t)
  PROVE  IInv'
<1> USE DEF IInv, sem_wait_acquire
<1>1. /\ waiters' \in Seq(Task)
      /\ IsInjective(waiters')
      /\ ToSet(waiters') = ToSet(waiters) \ {t}
  <2>1. CASE in_list[t]
    BY <2>1, Unlinks
  <2>2. CASE ~in_list[t]
    BY <2>2 DEF TypeOK, NoDanglingNode
  <2> QED
    BY <2>1, <2>2
<1>2. TypeOK'
  BY <1>1 DEF TypeOK
<1>3. NoDanglingNode'
  BY <1>1 DEF NoDanglingNode, TypeOK
<1>4. SleeperIsLinked'
  BY <1>1 DEF SleeperIsLinked, TypeOK
<1>5. NoLostWakeup'
  <2>1. Waiters("WAITING")' = Waiters("WAITING") \ {t}
    BY <1>1 DEF Waiters
  <2>2. Waiters("RUNNING")' = Waiters("RUNNING") \ {t}
    BY <1>1 DEF Waiters
  <2>3. Cardinality(Waiters("RUNNING")) - 1 <= Cardinality(Waiters("RUNNING")')
    BY <2>2, WaitersFinite, FS_RemoveElement
  <2>4. Cardinality(Waiters("RUNNING")') \in Nat
    BY <2>2, WaitersFinite, FS_RemoveElement, FS_CardinalityType
  <2> QED
    BY <2>1, <2>3, <2>4, WaitersFinite DEF NoLostWakeup, TypeOK
<1> QED
  BY <1>2, <1>3, <1>4, <1>5

\* Blocking happens only without a token, and links the node before the task
\* counts as asleep.
LEMMA BlockPreserves ==
  ASSUME SemaphoreAssumption, IInv, NEW t \in Task, sem_wait_block(t)
  PROVE  IInv'
<1> USE DEF IInv, sem_wait_block
<1>1. /\ waiters' \in Seq(Task)
      /\ IsInjective(waiters')
      /\ ToSet(waiters') = ToSet(waiters) \cup {t}
  <2>1. CASE in_list[t]
    BY <2>1 DEF TypeOK, NoDanglingNode
  <2>2. CASE ~in_list[t]
    BY <2>2, Appended DEF TypeOK, NoDanglingNode
  <2> QED
    BY <2>1, <2>2
<1>2. TypeOK'
  BY <1>1 DEF TypeOK
<1>3. NoDanglingNode'
  BY <1>1 DEF NoDanglingNode, TypeOK
<1>4. SleeperIsLinked'
  BY <1>1 DEF SleeperIsLinked, TypeOK
<1>5. NoLostWakeup'
  <2>1. IsFiniteSet(Waiters("RUNNING")')
    BY FS_Subset DEF SemaphoreAssumption, Waiters
  <2> QED
    BY <2>1, FS_CardinalityType DEF NoLostWakeup
<1> QED
  BY <1>2, <1>3, <1>4, <1>5

LEMMA LeastNat ==
  ASSUME NEW S, S \subseteq Nat, S # {}
  PROVE  \E m \in S : \A k \in S : m <= k
<1> DEFINE less == {p \in Nat \X Nat : p[1] < p[2]}
<1>1. IsWellFoundedOn(less, Nat)
  BY NatLessThanWellFounded, Zenon DEF OpToRel
<1>2. PICK m \in S : \A k \in S : ~ (<<k, m>> \in less)
  <2> HIDE DEF less
  <2> QED
    BY <1>1, WFMin
<1>3. ASSUME NEW k \in S
      PROVE  m <= k
  <2>1. m \in Nat /\ k \in Nat
    OBVIOUS
  <2>2. ~ (<<k, m>>[1] < <<k, m>>[2])
    BY <1>2, <2>1
  <2> QED
    BY <2>1, <2>2
<1> QED
  BY <1>3

\* A signal wakes a waiter whenever one sleeps, and no other.
LEMMA WakesOne ==
  ASSUME TypeOK, Waiters("WAITING") # {}
  PROVE  \E w \in Waiters("WAITING") : Wakeable = {w}
<1> DEFINE asleep == {i \in DOMAIN waiters : state[waiters[i]] = "WAITING"}
<1>1. asleep # {} /\ asleep \subseteq Nat
  BY DEF TypeOK, Waiters, ToSet
<1>2. PICK m \in asleep : \A k \in asleep : m <= k
  <2> HIDE DEF asleep
  <2> QED
    BY <1>1, LeastNat
<1>3. {j \in asleep : \A k \in asleep : j <= k} = {m}
  BY <1>1, <1>2
<1>4. Wakeable = {waiters[m]}
  BY <1>3 DEF Wakeable
<1>5. waiters[m] \in Waiters("WAITING")
  BY <1>2 DEF TypeOK, Waiters, ToSet
<1> QED
  BY <1>4, <1>5

LEMMA SignalPreserves ==
  ASSUME SemaphoreAssumption, IInv, sem_signal
  PROVE  IInv'
<1> USE DEF IInv, sem_signal
<1>1. \A t \in Task : state'[t] = "WAITING" => state[t] = "WAITING"
  OBVIOUS
<1>2. TypeOK'
  BY DEF TypeOK
<1>3. NoDanglingNode'
  BY DEF NoDanglingNode
<1>4. SleeperIsLinked'
  BY <1>1 DEF SleeperIsLinked
<1>5. NoLostWakeup'
  <2>1. CASE Waiters("WAITING") = {}
    BY <2>1, <1>1 DEF NoLostWakeup, Waiters
  <2>2. CASE Waiters("WAITING") # {}
    <3>1. PICK w \in Waiters("WAITING") : Wakeable = {w}
      BY <2>2, WakesOne
    <3>2. Waiters("RUNNING")' = Waiters("RUNNING") \cup {w} /\ w \notin Waiters("RUNNING")
      BY <3>1 DEF Waiters
    <3>3. Cardinality(Waiters("RUNNING")') = Cardinality(Waiters("RUNNING")) + 1
      BY <3>2, WaitersFinite, FS_AddElement
    <3> QED
      BY <2>2, <3>3, WaitersFinite DEF NoLostWakeup, TypeOK
  <2> QED
    BY <2>1, <2>2
<1> QED
  BY <1>2, <1>3, <1>4, <1>5

\* The scheduler moves tasks between cores and touches nothing else.
LEMMA SchedulerPreserves ==
  ASSUME SemaphoreAssumption, IInv,
         UNCHANGED <<count, waiters, state, in_list>>,
         NEW p \in [Task -> {"out", "check", "schedule"}],
         pc' = p, \A t \in Task : p[t] = "out" <=> pc[t] = "out",
         running' \subseteq Task, Cardinality(running') <= NumCores
  PROVE  IInv'
<1> USE DEF IInv
<1>1. TypeOK'
  BY DEF TypeOK
<1>2. NoDanglingNode'
  BY DEF NoDanglingNode
<1>3. SleeperIsLinked'
  BY DEF SleeperIsLinked
<1>4. NoLostWakeup'
  BY DEF NoLostWakeup, Waiters
<1> QED
  BY <1>1, <1>2, <1>3, <1>4

LEMMA RunningFinite ==
  ASSUME SemaphoreAssumption, TypeOK
  PROVE  IsFiniteSet(running) /\ Cardinality(running) \in Nat
  BY FS_Subset, FS_CardinalityType DEF SemaphoreAssumption, TypeOK

LEMMA StepInvariant ==
  ASSUME SemaphoreAssumption, IInv, [Next]_vars
  PROVE  IInv'
<1>0. TypeOK
  BY DEF IInv
<1>1. CASE \E t \in Task : sem_wait_acquire(t)
  BY <1>1, AcquirePreserves
<1>2. CASE \E t \in Task : sem_wait_block(t)
  BY <1>2, BlockPreserves
<1>3. CASE \E t \in Task : schedule_returns(t)
  BY <1>0, <1>3, SchedulerPreserves DEF schedule_returns, TypeOK
<1>4. CASE sem_signal
  BY <1>4, SignalPreserves
<1>5. ASSUME NEW t \in Task, dispatch(t)
      PROVE  IInv'
  <2>1. Cardinality(running') = Cardinality(running) + 1
    BY <1>0, <1>5, RunningFinite, FS_AddElement DEF dispatch, Eligible
  <2>2. Cardinality(running') <= NumCores
    BY <1>0, <1>5, <2>1, RunningFinite DEF dispatch, SemaphoreAssumption
  <2> QED
    BY <1>0, <1>5, <2>2, SchedulerPreserves DEF dispatch, TypeOK
<1>6. ASSUME NEW t \in Task, NEW u \in Task, switch(t, u)
      PROVE  IInv'
  <2>1. /\ IsFiniteSet(running \ {t})
        /\ Cardinality(running \ {t}) = Cardinality(running) - 1
    BY <1>0, <1>6, RunningFinite, FS_RemoveElement DEF switch
  <2>2. Cardinality(running') = Cardinality(running \ {t}) + 1
    BY <1>6, <2>1, FS_AddElement DEF switch, Eligible
  <2>3. Cardinality(running') <= NumCores
    BY <1>0, <2>1, <2>2, RunningFinite DEF TypeOK
  <2> QED
    BY <1>0, <1>6, <2>3, SchedulerPreserves DEF switch, TypeOK
<1>7. CASE UNCHANGED vars
  BY <1>0, <1>7, SchedulerPreserves DEF vars, TypeOK
<1> QED
  BY <1>1, <1>2, <1>3, <1>4, <1>5, <1>6, <1>7 DEF Next

-----------------------------------------------------------------------------
THEOREM Invariance == SemaphoreAssumption => (Spec => []IInv)
<1> SUFFICES ASSUME SemaphoreAssumption PROVE Spec => []IInv
  OBVIOUS
<1>1. Init => IInv
  BY InitInvariant
<1>2. IInv /\ [Next]_vars => IInv'
  BY StepInvariant
<1> QED
  BY <1>1, <1>2, PTL DEF Spec

\* "Rapid back-to-back signals each wake a distinct waiter": as long as a waiter
\* sleeps there is no token left that is not promised to a waiter awake.
THEOREM WakeupsKept == SemaphoreAssumption => (Spec => []NoLostWakeup)
<1>1. IInv => NoLostWakeup
  BY DEF IInv
<1> QED
  BY <1>1, Invariance, PTL

\* sem_signal() never follows a node of a call of sem_wait() that has returned,
\* and finds every task that sleeps in one.
THEOREM NodesAreWaiters ==
  SemaphoreAssumption => (Spec => [](NoDanglingNode /\ SleeperIsLinked))
<1>1. IInv => NoDanglingNode /\ SleeperIsLinked
  BY DEF IInv
<1> QED
  BY <1>1, Invariance, PTL

\* A waiter's node leaves the list only with a token.
THEOREM NoLeaveWithoutToken == SemaphoreAssumption => (Spec => LeavesWithToken)
<1> SUFFICES ASSUME SemaphoreAssumption PROVE Spec => LeavesWithToken
  OBVIOUS
<1>1. IInv /\ [Next]_vars =>
        [\A t \in Task : t \in ToSet(waiters) /\ t \notin ToSet(waiters)' =>
           count' = count - 1]_vars
  <2> SUFFICES ASSUME IInv, Next, NEW u \in Task,
                      u \in ToSet(waiters), u \notin ToSet(waiters)'
               PROVE  count' = count - 1
    BY DEF vars
  <2>1. CASE \E t \in Task : sem_wait_acquire(t)
    BY <2>1 DEF sem_wait_acquire
  <2>2. CASE \E t \in Task : sem_wait_block(t)
    BY <2>2, Appended DEF sem_wait_block, IInv, TypeOK
  <2>3. CASE waiters' = waiters
    BY <2>3
  <2> QED
    BY <2>1, <2>2, <2>3 DEF Next, schedule_returns, sem_signal, dispatch, switch
<1> QED
  BY <1>1, Invariance, PTL DEF Spec, LeavesWithToken

=============================================================================
