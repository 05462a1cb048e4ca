------------------------------- MODULE Sched -------------------------------
(***************************************************************************)
(* The SMP scheduler of bonsai-os: src/kernel/sched.c, the part of         *)
(* src/kernel/fork.c that makes a task visible, and the context switch in  *)
(* src/arch/aarch64.  A core is a process that executes on the stack of    *)
(* one task; the timer interrupt can strike between any two of its steps   *)
(* while its IRQs are unmasked.  A critical section under sched_lock is    *)
(* one step: the lock is taken with IRQs masked and never nested.          *)
(*                                                                         *)
(* Per-CPU data (get_cpu_info()->current_task) is read in one step.        *)
(***************************************************************************)
EXTENDS Integers, Sequences

CONSTANTS Core,        \* the processors
          Task,        \* the TASK_STRUCTs copy_process() may create
          BootCore,    \* the core that runs kernel_main()
          None,        \* on_cpu = -1, and the null TASK_STRUCT pointer
          MinCounter   \* bound: ticks stop decrementing a counter here

ASSUME SchedAssumption ==
  /\ BootCore \in Core
  /\ Core \cap Task = {}
  /\ None \notin Core \cup Task
  /\ MinCounter \in Int /\ MinCounter < 0

\* idle_tasks[c] is represented by c itself; it never enters the run queue.
Thread == Task \cup Core

\* Every task inherits the priority of the task that created it, and
\* sched_init() gives the idle tasks priority 1.
priority == 1

VARIABLES
  list,           \* global_all_threads_list, in creation order
  state,          \* TASK_STRUCT.state of the tasks that may be on the list
  counter,        \* TASK_STRUCT.counter: remaining time slice
  preempt_count,  \* TASK_STRUCT.preempt_count
  on_cpu,         \* TASK_STRUCT.on_cpu
  ctx,            \* TASK_STRUCT.cpu_context: where a switched-out task resumes
  current_task,   \* CPU_INFO.current_task of each core
  masked,         \* DAIF.I of each core
  sp,             \* the task on whose stack the core is executing
  cont,           \* where the core is in the code
  next,           \* local `next' of the _schedule() in progress on the core
  prev            \* local `prev' of the switch_to() in progress on the core

vars == <<list, state, counter, preempt_count, on_cpu, ctx,
          current_task, masked, sp, cont, next, prev>>

(***************************************************************************)
(* A continuation.  at = "thread": the core executes the task's own code,  *)
(* at position pos.  Any other at: the core is inside _schedule(), called  *)
(* by the task (irq = FALSE) or by the timer interrupt that struck at pos  *)
(* (irq = TRUE), and comes back to pos.                                    *)
(*   "boot"    kernel_main() before its idle loop                          *)
(*   "run"     the body of the task, or the idle loop                      *)
(*   "wait"    sem_wait() has set TASK_WAITING and is about to schedule()  *)
(*   "exit"    exit_process() has set TASK_ZOMBIE, is about to schedule()  *)
(*   "exited"  that schedule() returned: switch_to_idle() is next          *)
(***************************************************************************)
Phase == {"thread", "pick", "switch", "release", "cpu_switch", "enable", "tail"}
Pos   == {"boot", "run", "wait", "exit", "exited"}
Cont  == [at : Phase, irq : BOOLEAN, pos : Pos]

ThreadAt(p) == [at |-> "thread", irq |-> FALSE, pos |-> p]

InThread(c, P) == cont[c].at = "thread" /\ cont[c].pos \in P

\* The range of the task list.
Listed == {list[i] : i \in 1..Len(list)}

-----------------------------------------------------------------------------
(* Boot has brought every core to its first call of the scheduler:         *)
(* sched_init() and sched_init_secondary() ran, interrupts are enabled.    *)
Init ==
  /\ list = <<>>
  /\ state = [t \in Task |-> "RUNNING"]
  /\ counter = [t \in Thread |-> IF t \in Core THEN 1 ELSE 0]
  /\ preempt_count = [t \in Thread |-> 0]
  /\ on_cpu = [t \in Thread |-> IF t \in Core THEN t ELSE None]
  /\ ctx = [t \in Thread |-> ThreadAt("run")]
  /\ current_task = [c \in Core |-> c]
  /\ masked = [c \in Core |-> FALSE]
  /\ sp = [c \in Core |-> c]
  /\ cont = [c \in Core |-> ThreadAt(IF c = BootCore THEN "boot" ELSE "run")]
  /\ next = [c \in Core |-> None]
  /\ prev = [c \in Core |-> None]

\* kernel_main() has created the first tasks and enters its idle loop.
EnterIdleLoop(c) ==
  /\ InThread(c, {"boot"})
  /\ cont' = [cont EXCEPT ![c] = ThreadAt("run")]
  /\ UNCHANGED <<list, state, counter, preempt_count, on_cpu, ctx,
                 current_task, masked, sp, next, prev>>

-----------------------------------------------------------------------------
(* copy_process(): the new task is private to its creator until add_task() *)
(* links it, so the whole of it takes effect there.  It inherits           *)
(* preempt_count 1 so that the timer leaves it alone until schedule_tail() *)
(* and starts at ret_from_fork.                                            *)
ForkPreemptCountZero == 0
ForkPreemptCount == 1

copy_process(c, t) ==
  /\ t \notin Listed
  /\ \/ InThread(c, {"boot"})
     \/ InThread(c, {"run"}) /\ current_task[c] \in Task
  /\ list' = Append(list, t)
  /\ state' = [state EXCEPT ![t] = "RUNNING"]
  /\ counter' = [counter EXCEPT ![t] = priority]
  /\ preempt_count' = [preempt_count EXCEPT ![t] = ForkPreemptCount]
  /\ on_cpu' = [on_cpu EXCEPT ![t] = None]
  /\ ctx' = [ctx EXCEPT ![t] = [at |-> "tail", irq |-> FALSE, pos |-> "run"]]
  /\ UNCHANGED <<current_task, masked, sp, cont, next, prev>>

(* sem_wait() found no token: under the semaphore's lock it marks its own  *)
(* task TASK_WAITING; the call of schedule() follows after the unlock.     *)
BlockSelf(c) ==
  /\ InThread(c, {"run"})
  /\ current_task[c] \in Task
  /\ state' = [state EXCEPT ![current_task[c]] = "WAITING"]
  /\ cont' = [cont EXCEPT ![c] = ThreadAt("wait")]
  /\ UNCHANGED <<list, counter, preempt_count, on_cpu, ctx,
                 current_task, masked, sp, next, prev>>

(* sem_signal(), on any core or from the UART interrupt: a TASK_WAITING    *)
(* waiter becomes TASK_RUNNING, wherever it is at that moment.             *)
Wake(t) ==
  /\ t \in Listed
  /\ state[t] = "WAITING"
  /\ state' = [state EXCEPT ![t] = "RUNNING"]
  /\ UNCHANGED <<list, counter, preempt_count, on_cpu, ctx,
                 current_task, masked, sp, cont, next, prev>>

(* exit_process() up to its call of schedule(): preemption is disabled     *)
(* around the section under sched_lock that marks the task.                *)
exit_process(c) ==
  /\ InThread(c, {"run"})
  /\ current_task[c] \in Task
  /\ state' = [state EXCEPT ![current_task[c]] = "ZOMBIE"]
  /\ cont' = [cont EXCEPT ![c] = ThreadAt("exit")]
  /\ UNCHANGED <<list, counter, preempt_count, on_cpu, ctx,
                 current_task, masked, sp, next, prev>>

-----------------------------------------------------------------------------
(* preempt_disable() and the call of _schedule(), common to its callers.   *)
PreemptDisable(c) ==
  preempt_count' = [preempt_count EXCEPT ![current_task[c]] = @ + 1]

\* Where a task continues once the schedule() it called returns.
AfterScheduleRetries(p) == IF p = "wait" THEN "run" ELSE p
AfterSchedule(p) ==
  CASE p = "exit" -> "exited"
    [] p = "wait" -> "run"
    [] OTHER      -> p

(* schedule(): give up the time slice and enter _schedule().               *)
schedule(c) ==
  /\ InThread(c, {"run", "wait", "exit"})
  /\ counter' = [counter EXCEPT ![current_task[c]] = 0]
  /\ PreemptDisable(c)
  /\ cont' = [cont EXCEPT ![c] = [at  |-> "pick",
                                  irq |-> FALSE,
                                  pos |-> AfterSchedule(cont[c].pos)]]
  /\ UNCHANGED <<list, state, on_cpu, ctx, current_task, masked, sp, next, prev>>

(* timer_tick(), from handle_timer_irq().  The tick charges the current    *)
(* task; it enters _schedule(), with IRQs masked by the exception entry,   *)
(* only when the slice is used up and preemption is not disabled.          *)
NeverKeepsCpu(c) == counter[current_task[c]] - 1 > 0
KeepsCpu(c) ==
  \/ counter[current_task[c]] - 1 > 0
  \/ preempt_count[current_task[c]] > 0

TickReturns(c) ==
  /\ ~masked[c]
  /\ KeepsCpu(c)
  /\ counter[current_task[c]] > MinCounter
  /\ counter' = [counter EXCEPT ![current_task[c]] = @ - 1]
  /\ UNCHANGED <<list, state, preempt_count, on_cpu, ctx,
                 current_task, masked, sp, cont, next, prev>>

TickPreempts(c) ==
  /\ ~masked[c]
  /\ ~KeepsCpu(c)
  /\ counter' = [counter EXCEPT ![current_task[c]] = 0]
  /\ PreemptDisable(c)
  /\ masked' = [masked EXCEPT ![c] = TRUE]
  /\ cont' = [cont EXCEPT ![c] = [at |-> "pick", irq |-> TRUE, pos |-> @.pos]]
  /\ UNCHANGED <<list, state, on_cpu, ctx, current_task, sp, next, prev>>

-----------------------------------------------------------------------------
(* The section of _schedule() under sched_lock.  A pass over the list      *)
(* takes the first task with the largest counter above -1 among those that *)
(* are TASK_RUNNING and on no core; when that counter is 0 every task on   *)
(* the list is recharged and the pass repeated.                            *)
RunnableClaimed(t) == state[t] = "RUNNING"
RunnableZombie(t)  == state[t] \in {"RUNNING", "ZOMBIE"} /\ on_cpu[t] = None
Runnable(t)        == state[t] = "RUNNING" /\ on_cpu[t] = None

RechargeUnhalved(n) == n + priority
Recharge(n) == (n \div 2) + priority    \* \div rounds down, as >> does

RunnableIndices == {i \in 1..Len(list) : Runnable(list[i])}

Exhausted ==
  /\ \E i \in RunnableIndices : counter[list[i]] = 0
  /\ \A i \in RunnableIndices : counter[list[i]] <= 0

Recharged ==
  IF Exhausted
  THEN [t \in Thread |-> IF t \in Listed THEN Recharge(counter[t]) ELSE counter[t]]
  ELSE counter

\* The pass over the list selects list[i], with the counters n.
Selects(i, n) ==
  /\ n[list[i]] > -1
  /\ \A j \in RunnableIndices :
       n[list[j]] < n[list[i]] \/ (n[list[j]] = n[list[i]] /\ i <= j)

\* The claim: on_cpu is set before sched_lock is released.
PickNext(c) ==
  /\ cont[c].at = "pick"
  /\ counter' = Recharged
  /\ \E i \in RunnableIndices :
       /\ Selects(i, Recharged)
       /\ list[i] # current_task[c]
       /\ on_cpu' = [on_cpu EXCEPT ![list[i]] = c]
       /\ next' = [next EXCEPT ![c] = list[i]]
  /\ cont' = [cont EXCEPT ![c].at = "switch"]
  /\ UNCHANGED <<list, state, preempt_count, ctx, current_task, masked, sp, prev>>

PickNothing(c) ==
  /\ cont[c].at = "pick"
  /\ counter' = Recharged
  /\ \A i \in RunnableIndices :
       Selects(i, Recharged) => list[i] = current_task[c]
  /\ cont' = [cont EXCEPT ![c].at = "enable"]
  /\ UNCHANGED <<list, state, preempt_count, on_cpu, ctx,
                 current_task, masked, sp, next, prev>>

-----------------------------------------------------------------------------
(* switch_to(): the new task becomes current, the old one is released, and *)
(* only then does cpu_switch_to() save the old task's registers.           *)
switch_to(c) ==
  /\ cont[c].at = "switch"
  /\ prev' = [prev EXCEPT ![c] = current_task[c]]
  /\ current_task' = [current_task EXCEPT ![c] = next[c]]
  /\ cont' = [cont EXCEPT ![c].at = "release"]
  /\ UNCHANGED <<list, state, counter, preempt_count, on_cpu, ctx,
                 masked, sp, next>>

release_prev(c) ==
  /\ cont[c].at = "release"
  /\ on_cpu' = [on_cpu EXCEPT ![prev[c]] = None]
  /\ cont' = [cont EXCEPT ![c].at = "cpu_switch"]
  /\ UNCHANGED <<list, state, counter, preempt_count, ctx,
                 current_task, masked, sp, next, prev>>

\* DAIF is not part of the context: the interrupt mask stays with the core.
cpu_switch_to(c) ==
  /\ cont[c].at = "cpu_switch"
  /\ ctx' = [ctx EXCEPT ![prev[c]] = [cont[c] EXCEPT !.at = "enable"]]
  /\ cont' = [cont EXCEPT ![c] = ctx[next[c]]]
  /\ sp' = [sp EXCEPT ![c] = next[c]]
  /\ next' = [next EXCEPT ![c] = None]
  /\ prev' = [prev EXCEPT ![c] = None]
  /\ UNCHANGED <<list, state, counter, preempt_count, on_cpu,
                 current_task, masked>>

(* switch_to_idle(), reached only from exit_process(): nobody else can run *)
(* here, and a zombie must not.                                            *)
switch_to_idle(c) ==
  /\ InThread(c, {"exited"})
  /\ on_cpu' = [on_cpu EXCEPT ![c] = c]
  /\ next' = [next EXCEPT ![c] = c]
  /\ prev' = [prev EXCEPT ![c] = current_task[c]]
  /\ current_task' = [current_task EXCEPT ![c] = c]
  /\ cont' = [cont EXCEPT ![c].at = "release"]
  /\ UNCHANGED <<list, state, counter, preempt_count, ctx, masked, sp>>

PreemptNotEnabled(c) == UNCHANGED preempt_count
PreemptEnable(c) ==
  preempt_count' = [preempt_count EXCEPT ![current_task[c]] = @ - 1]

(* The end of _schedule() in the task that is now current; when the timer  *)
(* interrupt called it, the exception return also unmasks IRQs.            *)
schedule_return(c) ==
  /\ cont[c].at = "enable"
  /\ PreemptEnable(c)
  /\ masked' = [masked EXCEPT ![c] = @ /\ ~cont[c].irq]
  /\ cont' = [cont EXCEPT ![c] = ThreadAt(cont[c].pos)]
  /\ UNCHANGED <<list, state, counter, on_cpu, ctx, current_task, sp, next, prev>>

(* ret_from_fork: schedule_tail(), then the body of the kernel thread.     *)
schedule_tail(c) ==
  /\ cont[c].at = "tail"
  /\ PreemptEnable(c)
  /\ cont' = [cont EXCEPT ![c] = ThreadAt("run")]
  /\ UNCHANGED <<list, state, counter, on_cpu, ctx, current_task, masked,
                 sp, next, prev>>

-----------------------------------------------------------------------------
\* The steps a core takes inside the scheduler.
SchedulerStep(c) ==
  \/ PickNext(c)
  \/ PickNothing(c)
  \/ switch_to(c)
  \/ release_prev(c)
  \/ cpu_switch_to(c)
  \/ schedule_return(c)
  \/ schedule_tail(c)

ThreadStep(c) ==
  \/ EnterIdleLoop(c)
  \/ \E t \in Task : copy_process(c, t)
  \/ BlockSelf(c)
  \/ exit_process(c)
  \/ schedule(c)
  \/ switch_to_idle(c)

Next ==
  \/ \E c \in Core : SchedulerStep(c)
  \/ \E c \in Core : ThreadStep(c)
  \/ \E c \in Core : TickReturns(c)
  \/ \E c \in Core : TickPreempts(c)
  \/ \E t \in Task : Wake(t)

Spec == Init /\ [][Next]_vars

(***************************************************************************)
(* Fairness.  A core does not stop inside the scheduler.  A task in        *)
(* exit_process() keeps executing; the timer may strike on its way any     *)
(* number of times, but between two ticks (10 ms apart) the interrupted    *)
(* code advances, hence strong fairness for its two calls.                 *)
(***************************************************************************)
ExitFairness(c) ==
  /\ SF_vars(cont[c].pos = "exit" /\ schedule(c))
  /\ SF_vars(switch_to_idle(c))

LiveSpec ==
  /\ Spec
  /\ \A c \in Core : WF_vars(SchedulerStep(c)) /\ ExitFairness(c)

\* In addition every thread that can call schedule() keeps doing so.
YieldingSpec ==
  /\ LiveSpec
  /\ \A c \in Core : SF_vars(schedule(c)) /\ WF_vars(EnterIdleLoop(c))

-----------------------------------------------------------------------------
(* Properties.                                                             *)

\* The variables have the shape of their declarations in kernel/sched.h; in
\* particular no interleaving of preempt_disable() and preempt_enable() takes
\* a preempt_count below zero.
TypeOK ==
  /\ list \in Seq(Task)
  /\ state \in [Task -> {"RUNNING", "WAITING", "ZOMBIE"}]
  /\ counter \in [Thread -> Int]
  /\ preempt_count \in [Thread -> Nat]
  /\ on_cpu \in [Thread -> Core \cup {None}]
  /\ ctx \in [Thread -> Cont]
  /\ current_task \in [Core -> Thread]
  /\ masked \in [Core -> BOOLEAN]
  /\ sp \in [Core -> Thread]
  /\ cont \in [Core -> Cont]
  /\ next \in [Core -> Thread \cup {None}]
  /\ prev \in [Core -> Thread \cup {None}]

\* Two cores never have the same current task: the claim of on_cpu under
\* sched_lock in _schedule() holds until switch_to() gives the task up.
OwnedOnce ==
  \A c, d \in Core : current_task[c] = current_task[d] => c = d

\* A claim is never leaked: a task marked as being on a core is current there,
\* is about to be switched to, or is about to be released by switch_to().  A
\* leaked claim would hide the task from every later pass of _schedule().
NoLostClaim ==
  \A t \in Task, c \in Core : on_cpu[t] = c =>
    \/ current_task[c] = t
    \/ cont[c].at = "switch" /\ next[c] = t
    \/ cont[c].at = "release" /\ prev[c] = t

\* No core has t as its current task.
OffCore(t) == \A c \in Core : current_task[c] # t

\* preempt_disable() and preempt_enable() balance although a switch lies
\* between them: the current task has preemption disabled exactly while the
\* core is in the scheduler, and every switched-out or new task carries the
\* one count that schedule_return or schedule_tail() will take back.
PreemptExact ==
  /\ \A c \in Core : preempt_count[current_task[c]] =
                       IF cont[c].at = "thread" THEN 0 ELSE 1
  /\ \A t \in Listed :
       OffCore(t) /\ state[t] # "ZOMBIE" => preempt_count[t] = 1
  /\ \A c \in Core : current_task[c] # c => preempt_count[c] = 1

\* Outside the few instructions of switch_to(), a core executes on the stack
\* of the task that its CPU_INFO calls current.
RunsCurrent ==
  \A c \in Core :
    cont[c].at \notin {"release", "cpu_switch"} => sp[c] = current_task[c]

\* The halving in _schedule() keeps a task that sleeps through any number of
\* recharges from saving up more than twice its priority.
CounterBounded ==
  \A t \in Thread : counter[t] < 2 * priority

\* Once a task has called exit_process() and lost its core, it never becomes
\* current again on any core, although it stays on the list for ever.
ZombieStaysOff ==
  [][\A t \in Task : state[t] = "ZOMBIE" /\ OffCore(t) => OffCore(t)']_vars

\* A task that called exit_process() does leave its core, even when no other
\* task is runnable, when ticks interleave with its way out, or both.
ZombieLeaves ==
  \A t \in Task : state[t] = "ZOMBIE" ~> OffCore(t)

\* A task claimed by _schedule() comes to execute on the claiming core.
ClaimedRuns ==
  \A c \in Core, t \in Task :
    (cont[c].at = "switch" /\ next[c] = t) ~> (current_task[c] = t /\ sp[c] = t)

\* include/kernel/sched.h:56, on on_cpu: "-1 = not currently running, 0-3 =
\* running on that core".  Refuted: prev is released before cpu_switch_to() has
\* saved it, so another core can claim and resume it while this core still
\* executes on its stack.
RunningOnThatCore ==
  \A t \in Task, c, d \in Core : on_cpu[t] = d /\ sp[c] = t => c = d

\* src/lib/semaphore.c:37, on schedule(): "yields; returns when state is
\* TASK_RUNNING again".  Refuted: a tick that strikes between counter = 0 and
\* the pass over the list leaves counter = -1, and a task whose counter is
\* negative is not recharged unless another runnable task is at exactly 0.
WokenTaskRuns ==
  \A t \in Task :
    (t \in Listed /\ state[t] = "RUNNING" /\ OffCore(t))
      ~> (state[t] # "RUNNING" \/ ~OffCore(t))

-----------------------------------------------------------------------------
(* The inductive invariant behind OwnedOnce, NoLostClaim, PreemptExact and *)
(* ZombieStaysOff.                                                         *)

\* A core runs a listed task that it owns, or its own idle task.
Occupancy ==
  \A c \in Core :
    \/ current_task[c] = c
    \/ current_task[c] \in Listed /\ on_cpu[current_task[c]] = c

\* What the locals of _schedule() and switch_to() hold in each phase.
SwitchPhases ==
  \A c \in Core :
    /\ cont[c].at = "switch" =>
         /\ next[c] \in Listed
         /\ next[c] # current_task[c]
         /\ on_cpu[next[c]] = c
         /\ state[next[c]] # "ZOMBIE"
    /\ cont[c].at \in {"release", "cpu_switch"} =>
         /\ next[c] = current_task[c]
         /\ prev[c] = sp[c]
         /\ prev[c] # next[c]
         /\ prev[c] \in Listed \cup {c}
    /\ cont[c].at = "release" /\ prev[c] # c => on_cpu[prev[c]] = c

\* A saved context resumes inside the scheduler.
ContextSaved ==
  /\ \A t \in Listed : ctx[t].at \in {"enable", "tail"}
  /\ \A c \in Core : sp[c] # c => ctx[c].at = "enable"
  /\ \A t \in Thread : ctx[t].at = "tail" => ctx[t].pos = "run"
  /\ \A c \in Core : cont[c].at = "tail" => cont[c].pos = "run"

\* The code after exit_process() is executed by zombies and by nobody else.
Exiting == {"exit", "exited"}

ZombieConfined ==
  /\ \A t \in Task : state[t] = "ZOMBIE" => t \in Listed
  /\ \A c \in Core : cont[c].pos \in Exiting =>
       sp[c] \in Task /\ state[sp[c]] = "ZOMBIE"
  /\ \A t \in Thread : ctx[t].pos \in Exiting =>
       t \in Task /\ state[t] = "ZOMBIE"
  /\ \A c \in Core :
       current_task[c] \in Task /\ state[current_task[c]] = "ZOMBIE" =>
         /\ cont[c].at \notin {"release", "cpu_switch"}
         /\ cont[c].pos \in Exiting

IInv ==
  /\ TypeOK
  /\ Occupancy
  /\ SwitchPhases
  /\ NoLostClaim
  /\ RunsCurrent
  /\ PreemptExact
  /\ ContextSaved
  /\ ZombieConfined

=============================================================================
