----------------------------- MODULE Semaphore -----------------------------
(***************************************************************************)
(* The counting semaphore of src/lib/semaphore.c, used by any number of    *)
(* tasks and by interrupt handlers.  The sections under sem->lock are one  *)
(* step each: SemaphoreSmp, which takes the lock, implements this module.  *)
(*                                                                         *)
(* The scheduler is the one of Sched, reduced to what sem_wait() relies    *)
(* on: a task leaves a core only when _schedule() puts another task there, *)
(* _schedule() picks only TASK_RUNNING tasks that are on no core, and      *)
(* schedule() returns to a task that is still TASK_WAITING when it found   *)
(* nobody to switch to.                                                    *)
(***************************************************************************)
EXTENDS Integers, FiniteSets, SequencesExt

CONSTANTS Task,        \* the tasks that use the semaphore
          NumCores,
          InitCount,   \* sem_init()'s argument
          MaxCount     \* bound: no signal beyond this count

SemaphoreAssumption ==
  /\ IsFiniteSet(Task)
  /\ NumCores \in Nat
  /\ InitCount \in Nat

VARIABLES
  count,     \* sem->count
  waiters,   \* sem->waiters: the tasks whose node is linked, in order
  state,     \* TASK_STRUCT.state
  in_list,   \* local of sem_wait(): the node on its stack is linked
  pc,        \* "out" of sem_wait(), about to "check" the count, in "schedule"
  running    \* the tasks that are on a core

vars == <<count, waiters, state, in_list, pc, running>>

Init ==
  /\ count = InitCount
  /\ waiters = <<>>
  /\ state = [t \in Task |-> "RUNNING"]
  /\ in_list = [t \in Task |-> FALSE]
  /\ pc = [t \in Task |-> "out"]
  /\ running = {}

-----------------------------------------------------------------------------
\* list_del() of the task's own node.
Unlink(t) == RemoveAt(waiters, CHOOSE i \in DOMAIN waiters : waiters[i] = t)

\* The loop of sem_wait() finds a token and returns.
sem_wait_acquire(t) ==
  /\ t \in running
  /\ pc[t] \in {"out", "check"}
  /\ count > 0
  /\ count' = count - 1
  /\ waiters' = IF in_list[t] THEN Unlink(t) ELSE waiters
  /\ in_list' = [in_list EXCEPT ![t] = FALSE]
  /\ pc' = [pc EXCEPT ![t] = "out"]
  /\ UNCHANGED <<state, running>>

\* It finds none: the node is linked once, and the task marks itself.
sem_wait_block(t) ==
  /\ t \in running
  /\ pc[t] \in {"out", "check"}
  /\ count = 0
  /\ waiters' = IF in_list[t] THEN waiters ELSE Append(waiters, t)
  /\ in_list' = [in_list EXCEPT ![t] = TRUE]
  /\ state' = [state EXCEPT ![t] = "WAITING"]
  /\ pc' = [pc EXCEPT ![t] = "schedule"]
  /\ UNCHANGED <<count, running>>

\* schedule() returns; the task may have been off the core meanwhile or not.
schedule_returns(t) ==
  /\ t \in running
  /\ pc[t] = "schedule"
  /\ pc' = [pc EXCEPT ![t] = "check"]
  /\ UNCHANGED <<count, waiters, state, in_list, running>>

\* The waiter a signal wakes: the first that is still TASK_WAITING.
Wakeable ==
  LET asleep == {i \in DOMAIN waiters : state[waiters[i]] = "WAITING"}
  IN  {waiters[i] : i \in {j \in asleep : \A k \in asleep : j <= k}}

\* Called by a task or by an interrupt handler, at any moment.
sem_signal ==
  /\ count < MaxCount
  /\ count' = count + 1
  /\ state' = [t \in Task |-> IF t \in Wakeable THEN "RUNNING" ELSE state[t]]
  /\ UNCHANGED <<waiters, in_list, pc, running>>

-----------------------------------------------------------------------------
Eligible(t) == t \notin running /\ state[t] = "RUNNING"

\* A core that ran its idle task takes t.
dispatch(t) ==
  /\ Cardinality(running) < NumCores
  /\ Eligible(t)
  /\ running' = running \cup {t}
  /\ UNCHANGED <<count, waiters, state, in_list, pc>>

\* A core switches from t to u: t called schedule(), or the timer struck.
switch(t, u) ==
  /\ t \in running
  /\ Eligible(u)
  /\ running' = (running \ {t}) \cup {u}
  /\ UNCHANGED <<count, waiters, state, in_list, pc>>

Next ==
  \/ \E t \in Task : sem_wait_acquire(t)
  \/ \E t \in Task : sem_wait_block(t)
  \/ \E t \in Task : schedule_returns(t)
  \/ sem_signal
  \/ \E t \in Task : dispatch(t)
  \/ \E t, u \in Task : switch(t, u)

Spec == Init /\ [][Next]_vars

-----------------------------------------------------------------------------
(* Properties.                                                             *)

\* The shape of semaphore_t and of sem_wait()'s locals.
TypeOK ==
  /\ count \in Nat
  /\ waiters \in Seq(Task)
  /\ state \in [Task -> {"RUNNING", "WAITING"}]
  /\ in_list \in [Task -> BOOLEAN]
  /\ pc \in [Task -> {"out", "check", "schedule"}]
  /\ running \subseteq Task /\ Cardinality(running) <= NumCores

Waiters(s) == {t \in Task : t \in ToSet(waiters) /\ state[t] = s}

\* sem_signal()'s comment, "rapid back-to-back signals each wake a distinct
\* waiter": as long as somebody sleeps, there are at least as many waiters
\* awake as there are tokens, whoever else takes tokens in between.
NoLostWakeup ==
  Waiters("WAITING") # {} => count <= Cardinality(Waiters("RUNNING"))

\* A node on the list is on the stack of a task that is inside sem_wait(), and
\* is there once: sem_signal() never follows a node of a returned call.
NoDanglingNode ==
  /\ IsInjective(waiters)
  /\ ToSet(waiters) = {t \in Task : in_list[t]}
  /\ \A t \in Task : in_list[t] => pc[t] # "out"

\* Inside sem_wait(), a task that sleeps is linked, so that a signal can reach
\* it; the node is linked before TASK_WAITING is set, under the same lock.
SleeperIsLinked ==
  \A t \in Task : pc[t] # "out" /\ state[t] = "WAITING" => t \in ToSet(waiters)

\* A task stays in the queue until a token is its own: its node leaves the list
\* only in a step that takes exactly one token.
LeavesWithToken ==
  [][\A t \in Task : t \in ToSet(waiters) /\ t \notin ToSet(waiters)' =>
       count' = count - 1]_vars

\* tests/test_semaphore.c:82: "All 3 consumers must eventually complete."
\* Refuted: a waiter to which schedule() returned because nobody else could
\* run takes a token while it is still TASK_WAITING and leaves the list; once
\* it loses its core, no signal reaches it and no core picks it again.
NobodyStranded ==
  \A t \in Task : t \notin running /\ state[t] = "WAITING" => t \in ToSet(waiters)

=============================================================================
