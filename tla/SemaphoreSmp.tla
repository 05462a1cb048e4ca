---------------------------- MODULE SemaphoreSmp ----------------------------
(***************************************************************************)
(* src/lib/semaphore.c on several cores, store by store: the sections that *)
(* Semaphore takes in one step are here taken under sem->lock (Spinlock),  *)
(* by tasks in sem_wait() and sem_signal() and by handlers in              *)
(* sem_signal(), while other cores switch tasks.  That it implements       *)
(* Semaphore says that the lock makes the sections atomic.                 *)
(***************************************************************************)
EXTENDS Spinlock, Integers, FiniteSets, SequencesExt

CONSTANTS Task, InitCount, MaxCount, None,
          IrqCore      \* the cores whose handlers signal: core 0, for the UART

ASSUME SmpAssumption ==
  /\ IsFiniteSet(Core) /\ IsFiniteSet(Task) /\ None \notin Task
  /\ InitCount \in Nat /\ MaxCount \in Nat

VARIABLES
  count, waiters, state, in_list, pc,   \* as in Semaphore
  on,        \* the task each core runs; None: its idle task
  sect       \* what the level of the core does in its section:
             \*   sem_wait():   "test" the count; "del" its node; "mark" its
             \*                 task TASK_WAITING, "remark" if linked before
             \*   sem_signal(): "count" the token; "scan" the waiters
             \*   "done": what is left is to release the lock

sem_vars == <<count, waiters, state, in_list, pc>>
vars == <<lock_vars, sem_vars, on, sect>>

Init ==
  /\ LockInit
  /\ count = InitCount
  /\ waiters = <<>>
  /\ state = [t \in Task |-> "RUNNING"]
  /\ in_list = [t \in Task |-> FALSE]
  /\ pc = [t \in Task |-> "out"]
  /\ on = [c \in Core |-> None]
  /\ sect = [c \in Core |-> [l \in Level |-> "done"]]

-----------------------------------------------------------------------------
InSection(c, s) == At(c, "held") /\ sect[c][level[c]] = s
Continue(c, s) == sect' = [sect EXCEPT ![c][level[c]] = s]

RunsTask(c) == level[c] = "task" /\ on[c] # None

Within(s) == {x \in Core \X Level : sect[x[1]][x[2]] = s}

call_sem_wait(c) ==
  /\ RunsTask(c)
  /\ pc[on[c]] \in {"out", "check"}
  /\ irqsave(c)
  /\ Continue(c, "test")
  /\ UNCHANGED <<sem_vars, on>>

call_sem_signal(c) ==
  /\ RunsTask(c) => pc[on[c]] = "out"
  /\ level[c] = "handler" \/ on[c] # None
  /\ count + Cardinality(Within("count")) < MaxCount
  /\ irqsave(c)
  /\ Continue(c, "count")
  /\ UNCHANGED <<sem_vars, on>>

\* sem->count is tested and decremented by two instructions of one section;
\* nobody else reads it without the lock.
wait_take(c) ==
  /\ InSection(c, "test")
  /\ count > 0
  /\ count' = count - 1
  /\ IF in_list[on[c]]
     THEN Continue(c, "del") /\ UNCHANGED pc
     ELSE Continue(c, "done") /\ pc' = [pc EXCEPT ![on[c]] = "out"]
  /\ UNCHANGED <<lock_vars, waiters, state, in_list, on>>

wait_del(c) ==
  /\ InSection(c, "del")
  /\ waiters' = RemoveAt(waiters, CHOOSE i \in DOMAIN waiters : waiters[i] = on[c])
  /\ in_list' = [in_list EXCEPT ![on[c]] = FALSE]
  /\ pc' = [pc EXCEPT ![on[c]] = "out"]
  /\ Continue(c, "done")
  /\ UNCHANGED <<lock_vars, count, state, on>>

\* The node is linked once per call, however often the loop comes round.
NeverLinked(c) == FALSE
Linked(c) == in_list[on[c]]

wait_link(c) ==
  /\ InSection(c, "test")
  /\ count = 0
  /\ IF Linked(c)
     THEN Continue(c, "remark") /\ UNCHANGED <<waiters, in_list>>
     ELSE /\ waiters' = Append(waiters, on[c])
          /\ in_list' = [in_list EXCEPT ![on[c]] = TRUE]
          /\ Continue(c, "mark")
  /\ UNCHANGED <<lock_vars, count, state, pc, on>>

wait_mark(c) ==
  /\ InSection(c, "mark") \/ InSection(c, "remark")
  /\ state' = [state EXCEPT ![on[c]] = "WAITING"]
  /\ pc' = [pc EXCEPT ![on[c]] = "schedule"]
  /\ Continue(c, "done")
  /\ UNCHANGED <<lock_vars, count, waiters, in_list, on>>

signal_count(c) ==
  /\ InSection(c, "count")
  /\ count' = count + 1
  /\ Continue(c, "scan")
  /\ UNCHANGED <<lock_vars, waiters, state, in_list, pc, on>>

\* The first linked waiter that is still TASK_WAITING, if any.
AsleepOrNot == DOMAIN waiters
Asleep == {i \in DOMAIN waiters : state[waiters[i]] = "WAITING"}

signal_wake(c) ==
  /\ InSection(c, "scan")
  /\ state' = [t \in Task |->
       IF \E i \in Asleep : t = waiters[i] /\ \A j \in Asleep : i <= j
       THEN "RUNNING" ELSE state[t]]
  /\ Continue(c, "done")
  /\ UNCHANGED <<lock_vars, count, waiters, in_list, pc, on>>

\* The instructions of the lock itself.
lock_step(c) ==
  /\ \/ ldaxr(c) \/ stxr(c) \/ stxr_fails(c) \/ irqrestore(c)
     \/ c \in IrqCore /\ interrupt(c)
     \/ eret(c)
     \/ sect[c][level[c]] = "done" /\ spin_unlock(c)
  /\ UNCHANGED <<sem_vars, on, sect>>

-----------------------------------------------------------------------------
(* The scheduler.  No task is switched while its core is in a section, or  *)
(* between mrs daif and the end of irqrestore; the mask that a task finds  *)
(* when it resumes is the core's (Sched).                                  *)
schedule_returns(c) ==
  /\ RunsTask(c)
  /\ At(c, "out")
  /\ pc[on[c]] = "schedule"
  /\ pc' = [pc EXCEPT ![on[c]] = "check"]
  /\ UNCHANGED <<lock_vars, count, waiters, state, in_list, on, sect>>

switch(c, u) ==
  /\ mask_changes(c)
  /\ u \notin {on[d] : d \in Core}
  /\ state[u] = "RUNNING"
  /\ on' = [on EXCEPT ![c] = u]
  /\ UNCHANGED <<sem_vars, sect>>

CoreStep(c) ==
  \/ call_sem_wait(c)
  \/ call_sem_signal(c)
  \/ wait_take(c)
  \/ wait_del(c)
  \/ wait_link(c)
  \/ wait_mark(c)
  \/ signal_count(c)
  \/ signal_wake(c)
  \/ lock_step(c)
  \/ schedule_returns(c)
  \/ \E u \in Task : switch(c, u)

Next == \E c \in Core : CoreStep(c)

Spec == Init /\ [][Next]_vars

-----------------------------------------------------------------------------
(* Refinement.  A section takes effect with its last store but for the     *)
(* lock's: the stores before it are not yet seen.                          *)
Pending(s) == IF Within(s) = {} THEN 0 ELSE 1
Linking == {on[x[1]] : x \in Within("mark")}

countBar == count - Pending("scan") + Pending("del")
waitersBar == IF Linking = {} THEN waiters ELSE Front(waiters)
in_listBar == [t \in Task |-> in_list[t] /\ t \notin Linking]
runningBar == {on[c] : c \in Core} \ {None}

Atomic == INSTANCE Semaphore WITH
  NumCores <- Cardinality(Core), count <- countBar, waiters <- waitersBar,
  in_list <- in_listBar, running <- runningBar

\* Every section of semaphore.c, interrupted and interleaved in any way, is one
\* step of Semaphore: what a task or a handler does under sem->lock is atomic,
\* although its last store of TASK_RUNNING or TASK_WAITING is seen by the
\* scheduler before the lock is released.
RefinesSemaphore == Atomic!Spec

\* sem_signal()'s comment, "rapid back-to-back signals each wake a distinct
\* waiter", with handlers and tasks that signal between any two stores: while
\* somebody sleeps there are no more tokens than waiters that are awake.
NoLostWakeup == Atomic!NoLostWakeup

\* Whenever a signal can look at the list, it holds exactly the nodes that are
\* on the stack of a task inside sem_wait(), each once, and all the sleepers'.
NodesLinked == Atomic!NoDanglingNode /\ Atomic!SleeperIsLinked

=============================================================================
