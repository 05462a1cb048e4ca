---------------------------- MODULE SchedProofs ----------------------------
(***************************************************************************)
(* Proofs about Sched, for every number of cores and tasks.  IInv is       *)
(* inductive; one lemma per action shows that the action preserves it, and *)
(* each has one step per conjunct of IInv.                                 *)
(***************************************************************************)
EXTENDS Sched, TLAPS

(* Listed only ever holds tasks, and grows only in copy_process().         *)
LEMMA ListedIsTask ==
  ASSUME TypeOK
  PROVE  Listed \subseteq Task
BY DEF TypeOK, Listed

\* No change of the list, no change of its range.
LEMMA ListedUnchanged ==
  ASSUME UNCHANGED list
  PROVE  Listed' = Listed
BY DEF Listed

\* add_task(): list_add_tail() adds one task to the range of the list.
LEMMA ListedAppend ==
  ASSUME TypeOK, NEW t \in Task, list' = Append(list, t)
  PROVE  Listed' = Listed \cup {t}
<1>1. Len(list') = Len(list) + 1 /\ Len(list) \in Nat
  BY DEF TypeOK
<1>2. \A i \in 1..Len(list) : list'[i] = list[i]
  BY DEF TypeOK
<1>3. list'[Len(list) + 1] = t
  BY DEF TypeOK
<1>4. 1..Len(list') = (1..Len(list)) \cup {Len(list) + 1}
  BY <1>1
<1> QED
  BY <1>2, <1>3, <1>4 DEF Listed

(* A core never runs another core's idle task, and a task has one owner.   *)
LEMMA CurrentDistinct ==
  ASSUME TypeOK, Occupancy
  PROVE  OwnedOnce
<1>1. Listed \subseteq Task
  BY ListedIsTask
<1> QED
  BY <1>1, SchedAssumption DEF OwnedOnce, Occupancy

(* Moving a core to another phase of the scheduler leaves cont well typed. *)
LEMMA ContStep ==
  ASSUME TypeOK, NEW c \in Core, NEW p \in Phase,
         cont' = [cont EXCEPT ![c].at = p]
  PROVE  cont' \in [Core -> Cont]
<1>1. [cont[c] EXCEPT !.at = p] \in Cont
  BY DEF TypeOK, Cont
<1> QED
  BY <1>1 DEF TypeOK

-----------------------------------------------------------------------------
\* At the end of the boot every core runs its own idle task.
LEMMA InitInvariant == Init => IInv
<1> SUFFICES ASSUME Init PROVE IInv
  OBVIOUS
<1> USE SchedAssumption DEF Init
<1>1. TypeOK
  BY DEF TypeOK, Thread, Cont, Phase, Pos, ThreadAt
<1>0. Listed = {}
  BY DEF Listed
<1>2. Occupancy
  BY DEF Occupancy
<1>3. SwitchPhases
  BY DEF SwitchPhases, ThreadAt
<1>4. NoLostClaim
  BY DEF NoLostClaim, Thread
<1>5. RunsCurrent
  BY DEF RunsCurrent
<1>6. PreemptExact
  BY <1>0 DEF PreemptExact, ThreadAt, Thread
<1>7. ContextSaved
  BY <1>0 DEF ContextSaved, ThreadAt, Thread
<1>8. ZombieConfined
  BY DEF ZombieConfined, Exiting, ThreadAt, Thread
<1> QED
  BY <1>1, <1>2, <1>3, <1>4, <1>5, <1>6, <1>7, <1>8 DEF IInv

\* switch_to(): next, claimed for this core, becomes its current task.
LEMMA SwitchToPreserves ==
  ASSUME IInv, NEW c \in Core, switch_to(c)
  PROVE  IInv'
<1> USE SchedAssumption DEF IInv
<1>a. Listed \subseteq Task /\ Listed' = Listed /\ OwnedOnce
  BY ListedIsTask, ListedUnchanged, CurrentDistinct DEF switch_to
<1>b. /\ cont[c].at = "switch"
      /\ prev'[c] = current_task[c]
      /\ current_task'[c] = next[c]
      /\ cont'[c].at = "release" /\ cont'[c].pos = cont[c].pos
  BY DEF switch_to, TypeOK, Cont
<1>c. \A d \in Core : d # c =>
        /\ cont'[d] = cont[d]
        /\ current_task'[d] = current_task[d]
        /\ prev'[d] = prev[d]
  BY DEF switch_to, TypeOK
<1>d. UNCHANGED <<list, state, counter, preempt_count, on_cpu, ctx, masked, sp, next>>
  BY DEF switch_to
<1>e. next[c] \in Listed /\ next[c] # current_task[c] /\ on_cpu[next[c]] = c
      /\ state[next[c]] # "ZOMBIE"
  BY <1>b DEF SwitchPhases
<1>1. TypeOK'
  <2>1. cont' \in [Core -> Cont]
    BY ContStep DEF switch_to, Phase
  <2> QED
    BY <1>a, <1>e, <2>1 DEF switch_to, TypeOK, Thread
<1> USE <1>a, <1>b, <1>c, <1>d, <1>e
<1>2. Occupancy'
  BY DEF Occupancy
<1>3. SwitchPhases'
  BY DEF SwitchPhases, Occupancy, RunsCurrent
<1>4. NoLostClaim'
  BY DEF NoLostClaim
<1>5. RunsCurrent'
  BY DEF RunsCurrent
<1>6. PreemptExact'
  BY DEF PreemptExact, OffCore, Occupancy, OwnedOnce
<1>7. ContextSaved'
  BY DEF ContextSaved
<1>8. ZombieConfined'
  BY DEF ZombieConfined
<1> QED
  BY <1>1, <1>2, <1>3, <1>4, <1>5, <1>6, <1>7, <1>8

\* switch_to(): prev's claim is given up; prev is current nowhere.
LEMMA ReleasePrevPreserves ==
  ASSUME IInv, NEW c \in Core, release_prev(c)
  PROVE  IInv'
<1> USE SchedAssumption DEF IInv
<1>a. Listed \subseteq Task /\ Listed' = Listed
  BY ListedIsTask, ListedUnchanged DEF release_prev
<1>b. /\ cont[c].at = "release"
      /\ cont'[c].at = "cpu_switch" /\ cont'[c].pos = cont[c].pos
      /\ \A d \in Core : d # c => cont'[d] = cont[d]
  BY DEF release_prev, TypeOK, Cont
<1>c. /\ next[c] = current_task[c] /\ prev[c] = sp[c] /\ prev[c] # next[c]
      /\ prev[c] \in Listed \cup {c}
      /\ prev[c] # c => on_cpu[prev[c]] = c
  BY <1>b DEF SwitchPhases
<1>d. /\ on_cpu'[prev[c]] = None
      /\ \A t \in Thread : t # prev[c] => on_cpu'[t] = on_cpu[t]
  BY <1>a, <1>c DEF release_prev, TypeOK, Thread
<1>e. UNCHANGED <<list, state, counter, preempt_count, ctx,
                  current_task, masked, sp, next, prev>>
  BY DEF release_prev
<1>1. TypeOK'
  <2>1. cont' \in [Core -> Cont]
    BY ContStep DEF release_prev, Phase
  <2> QED
    BY <2>1 DEF release_prev, TypeOK
<1> USE <1>a, <1>b, <1>c, <1>d, <1>e
<1>2. Occupancy'
  BY DEF Occupancy, Thread
<1>3. SwitchPhases'
  BY DEF SwitchPhases, Thread
<1>4. NoLostClaim'
  BY DEF NoLostClaim, Thread
<1>5. RunsCurrent'
  BY DEF RunsCurrent
<1>6. PreemptExact'
  BY DEF PreemptExact, OffCore
<1>7. ContextSaved'
  BY DEF ContextSaved
<1>8. ZombieConfined'
  BY DEF ZombieConfined
<1> QED
  BY <1>1, <1>2, <1>3, <1>4, <1>5, <1>6, <1>7, <1>8

\* cpu_switch_to(): prev is saved where it will enable preemption
\* again, and the core resumes next from such a place.
LEMMA CpuSwitchToPreserves ==
  ASSUME IInv, NEW c \in Core, cpu_switch_to(c)
  PROVE  IInv'
<1> USE SchedAssumption DEF IInv
<1>a. Listed \subseteq Task /\ Listed' = Listed
  BY ListedIsTask, ListedUnchanged DEF cpu_switch_to
<1>b. cont[c].at = "cpu_switch"
  BY DEF cpu_switch_to
<1>c. /\ next[c] = current_task[c] /\ prev[c] = sp[c] /\ prev[c] # next[c]
      /\ prev[c] \in Listed \cup {c}
      /\ next[c] \in Listed \cup {c}
  BY <1>b DEF SwitchPhases, Occupancy
<1>d. /\ ctx'[prev[c]] \in Cont
      /\ ctx'[prev[c]].at = "enable" /\ ctx'[prev[c]].pos = cont[c].pos
      /\ \A t \in Thread : t # prev[c] => ctx'[t] = ctx[t]
  <2> DEFINE saved == [cont[c] EXCEPT !.at = "enable"]
  <2>1. saved \in Cont /\ saved.at = "enable" /\ saved.pos = cont[c].pos
    BY DEF TypeOK, Cont, Phase
  <2>2. ctx' = [ctx EXCEPT ![prev[c]] = saved]
    BY DEF cpu_switch_to
  <2>3. prev[c] \in Thread
    BY <1>a, <1>c DEF Thread
  <2> HIDE DEF saved
  <2> QED
    BY <2>1, <2>2, <2>3 DEF TypeOK
<1>e. /\ cont'[c] = ctx[next[c]] /\ sp'[c] = next[c]
      /\ \A d \in Core : d # c =>
           /\ cont'[d] = cont[d]
           /\ sp'[d] = sp[d]
           /\ next'[d] = next[d]
           /\ prev'[d] = prev[d]
  BY DEF cpu_switch_to, TypeOK
<1>f. UNCHANGED <<list, state, counter, preempt_count, on_cpu, current_task, masked>>
  BY DEF cpu_switch_to
<1>g. ctx[next[c]].at \in {"enable", "tail"}
  BY <1>c DEF ContextSaved
<1>1. TypeOK'
  <2>1. ctx' \in [Thread -> Cont]
    BY <1>d DEF cpu_switch_to, TypeOK
  <2>2. cont' \in [Core -> Cont] /\ sp' \in [Core -> Thread]
    BY <1>a, <1>c DEF cpu_switch_to, TypeOK, Thread
  <2> QED
    BY <2>1, <2>2 DEF cpu_switch_to, TypeOK
<1> USE <1>a, <1>b, <1>c, <1>d, <1>e, <1>f, <1>g
<1>2. Occupancy'
  BY DEF Occupancy
<1>3. SwitchPhases'
  BY DEF SwitchPhases
<1>4. NoLostClaim'
  BY DEF NoLostClaim
<1>5. RunsCurrent'
  BY DEF RunsCurrent
<1>6. PreemptExact'
  BY DEF PreemptExact, OffCore
<1>7. ContextSaved'
  BY DEF ContextSaved, Thread
<1>8. ZombieConfined'
  <2>1. \A t \in Thread : ctx'[t].pos \in Exiting =>
          t \in Task /\ state[t] = "ZOMBIE"
    BY DEF ZombieConfined
  <2>2. \A d \in Core : cont'[d].pos \in Exiting =>
          sp'[d] \in Task /\ state[sp'[d]] = "ZOMBIE"
    BY DEF ZombieConfined, Thread
  <2>3. \A d \in Core :
          current_task[d] \in Task /\ state[current_task[d]] = "ZOMBIE" =>
            /\ cont'[d].at \notin {"release", "cpu_switch"}
            /\ cont'[d].pos \in Exiting
    BY DEF ZombieConfined
  <2> QED
    BY <2>1, <2>2, <2>3 DEF ZombieConfined
<1> QED
  BY <1>1, <1>2, <1>3, <1>4, <1>5, <1>6, <1>7, <1>8

\* switch_to_idle(): the core returns to its own idle task.
LEMMA SwitchToIdlePreserves ==
  ASSUME IInv, NEW c \in Core, switch_to_idle(c)
  PROVE  IInv'
<1> USE SchedAssumption DEF IInv
<1>a. Listed \subseteq Task /\ Listed' = Listed /\ OwnedOnce
  BY ListedIsTask, ListedUnchanged, CurrentDistinct DEF switch_to_idle
<1>b. /\ cont[c].at = "thread" /\ cont[c].pos = "exited"
      /\ cont'[c].at = "release" /\ cont'[c].pos = cont[c].pos
      /\ \A d \in Core : d # c => cont'[d] = cont[d]
  BY DEF switch_to_idle, InThread, TypeOK, Cont
<1>c. /\ sp[c] = current_task[c] /\ current_task[c] \in Listed
      /\ state[current_task[c]] = "ZOMBIE" /\ on_cpu[current_task[c]] = c
  BY <1>a, <1>b DEF RunsCurrent, ZombieConfined, Exiting, Occupancy
<1>d. /\ next'[c] = c /\ prev'[c] = current_task[c] /\ current_task'[c] = c
      /\ \A d \in Core : d # c =>
           /\ next'[d] = next[d]
           /\ prev'[d] = prev[d]
           /\ current_task'[d] = current_task[d]
      /\ \A t \in Task : on_cpu'[t] = on_cpu[t]
  BY DEF switch_to_idle, TypeOK, Thread
<1>e. UNCHANGED <<list, state, counter, preempt_count, ctx, masked, sp>>
  BY DEF switch_to_idle
<1>1. TypeOK'
  <2>1. cont' \in [Core -> Cont]
    BY ContStep DEF switch_to_idle, Phase
  <2> QED
    BY <2>1 DEF switch_to_idle, TypeOK, Thread
<1> USE <1>a, <1>b, <1>c, <1>d, <1>e
<1>2. Occupancy'
  BY DEF Occupancy
<1>3. SwitchPhases'
  BY DEF SwitchPhases
<1>4. NoLostClaim'
  BY DEF NoLostClaim
<1>5. RunsCurrent'
  BY DEF RunsCurrent
<1>6. PreemptExact'
  BY DEF PreemptExact, OffCore, Occupancy
<1>7. ContextSaved'
  BY DEF ContextSaved
<1>8. ZombieConfined'
  BY DEF ZombieConfined
<1> QED
  BY <1>1, <1>2, <1>3, <1>4, <1>5, <1>6, <1>7, <1>8

(* A step that changes only the count of the core's current task, to what  *)
(* its new phase asks for, keeps all the counts exact.                     *)
LEMMA PreemptMoved ==
  ASSUME TypeOK, Occupancy, OwnedOnce, PreemptExact, NEW c \in Core,
         Listed \subseteq Task, Listed' = Listed,
         UNCHANGED <<state, current_task>>,
         \A d \in Core : d # c => cont'[d] = cont[d],
         preempt_count'[current_task[c]] = IF cont'[c].at = "thread" THEN 0 ELSE 1,
         \A t \in Thread : t # current_task[c] => preempt_count'[t] = preempt_count[t]
  PROVE  PreemptExact'
<1>0. \A d \in Core : current_task[d] \in Thread
  BY DEF TypeOK
<1>1. ASSUME NEW d \in Core
      PROVE  preempt_count'[current_task[d]] = IF cont'[d].at = "thread" THEN 0 ELSE 1
  <2>1. CASE d = c
    BY <2>1
  <2>2. CASE d # c
    <3>1. current_task[d] # current_task[c]
      BY <2>2 DEF OwnedOnce
    <3> QED
      BY <1>0, <2>2, <3>1 DEF PreemptExact
  <2> QED
    BY <2>1, <2>2
<1>2. ASSUME NEW t \in Listed, OffCore(t), state[t] # "ZOMBIE"
      PROVE  preempt_count'[t] = 1
  BY <1>2 DEF PreemptExact, OffCore, Thread
<1>3. ASSUME NEW d \in Core, current_task[d] # d
      PROVE  preempt_count'[d] = 1
  <2>1. preempt_count[d] = 1
    BY <1>3 DEF PreemptExact
  <2>2. d # current_task[c]
    BY <1>3, SchedAssumption DEF Occupancy
  <2> QED
    BY <2>1, <2>2 DEF Thread
<1> QED
  BY <1>1, <1>2, <1>3 DEF PreemptExact, OffCore

\* schedule(): preemption of the current task goes from 0 to 1.
LEMMA SchedulePreserves ==
  ASSUME IInv, NEW c \in Core, schedule(c)
  PROVE  IInv'
<1> USE SchedAssumption DEF IInv
<1>a. Listed \subseteq Task /\ Listed' = Listed /\ OwnedOnce
  BY ListedIsTask, ListedUnchanged, CurrentDistinct DEF schedule
<1>b. /\ cont[c].at = "thread"
      /\ cont'[c] \in Cont /\ cont'[c].at = "pick"
      /\ cont'[c].pos \in Exiting <=> cont[c].pos \in Exiting
      /\ \A d \in Core : d # c => cont'[d] = cont[d]
  BY DEF schedule, InThread, AfterSchedule, Exiting, TypeOK, Cont, Phase, Pos
<1>c. /\ current_task[c] \in Thread /\ preempt_count[current_task[c]] = 0
      /\ preempt_count'[current_task[c]] = 1
      /\ \A t \in Thread : t # current_task[c] => preempt_count'[t] = preempt_count[t]
      /\ preempt_count' \in [Thread -> Nat]
  BY <1>b DEF schedule, PreemptDisable, PreemptExact, TypeOK
<1>d. UNCHANGED <<list, state, on_cpu, ctx, current_task, masked, sp, next, prev>>
  BY DEF schedule
<1>1. TypeOK'
  <2>1. cont' \in [Core -> Cont]
    BY <1>b DEF schedule, TypeOK
  <2>2. counter' \in [Thread -> Int]
    BY DEF schedule, TypeOK
  <2> QED
    BY <1>c, <1>d, <2>1, <2>2 DEF TypeOK
<1> USE <1>a, <1>b, <1>c, <1>d
<1>2. Occupancy'
  BY DEF Occupancy
<1>3. SwitchPhases'
  BY DEF SwitchPhases
<1>4. NoLostClaim'
  BY DEF NoLostClaim
<1>5. RunsCurrent'
  BY DEF RunsCurrent
<1>6. PreemptExact'
  BY PreemptMoved
<1>7. ContextSaved'
  BY DEF ContextSaved
<1>8. ZombieConfined'
  BY DEF ZombieConfined
<1> QED
  BY <1>1, <1>2, <1>3, <1>4, <1>5, <1>6, <1>7, <1>8

\* timer_tick() that returns early changes a counter and no more.
LEMMA TickReturnsPreserves ==
  ASSUME IInv, NEW c \in Core, TickReturns(c)
  PROVE  IInv'
<1> USE SchedAssumption DEF IInv
<1>a. Listed \subseteq Task /\ Listed' = Listed
  BY ListedIsTask, ListedUnchanged DEF TickReturns
<1>b. UNCHANGED <<list, state, preempt_count, on_cpu, ctx,
                  current_task, masked, sp, cont, next, prev>>
  BY DEF TickReturns
<1>1. TypeOK'
  BY DEF TickReturns, TypeOK
<1> USE <1>a, <1>b
<1>2. Occupancy'
  BY DEF Occupancy
<1>3. SwitchPhases'
  BY DEF SwitchPhases
<1>4. NoLostClaim'
  BY DEF NoLostClaim
<1>5. RunsCurrent'
  BY DEF RunsCurrent
<1>6. PreemptExact'
  BY DEF PreemptExact, OffCore
<1>7. ContextSaved'
  BY DEF ContextSaved
<1>8. ZombieConfined'
  BY DEF ZombieConfined
<1> QED
  BY <1>1, <1>2, <1>3, <1>4, <1>5, <1>6, <1>7, <1>8

\* timer_tick() that calls _schedule() found preempt_count at 0.
LEMMA TickPreemptsPreserves ==
  ASSUME IInv, NEW c \in Core, TickPreempts(c)
  PROVE  IInv'
<1> USE SchedAssumption DEF IInv
<1>a. Listed \subseteq Task /\ Listed' = Listed /\ OwnedOnce
  BY ListedIsTask, ListedUnchanged, CurrentDistinct DEF TickPreempts
<1>b. current_task[c] \in Thread /\ preempt_count[current_task[c]] = 0
  BY DEF TickPreempts, KeepsCpu, TypeOK
<1>c. /\ cont[c].at = "thread"
      /\ cont'[c] \in Cont /\ cont'[c].at = "pick" /\ cont'[c].pos = cont[c].pos
      /\ \A d \in Core : d # c => cont'[d] = cont[d]
  BY <1>b DEF TickPreempts, PreemptExact, TypeOK, Cont, Phase
<1>d. /\ preempt_count'[current_task[c]] = 1
      /\ \A t \in Thread : t # current_task[c] => preempt_count'[t] = preempt_count[t]
      /\ preempt_count' \in [Thread -> Nat]
  BY <1>b DEF TickPreempts, PreemptDisable, TypeOK
<1>e. UNCHANGED <<list, state, on_cpu, ctx, current_task, sp, next, prev>>
  BY DEF TickPreempts
<1>1. TypeOK'
  <2>1. cont' \in [Core -> Cont]
    BY <1>c DEF TickPreempts, TypeOK
  <2>2. counter' \in [Thread -> Int] /\ masked' \in [Core -> BOOLEAN]
    BY DEF TickPreempts, TypeOK
  <2> QED
    BY <1>d, <1>e, <2>1, <2>2 DEF TypeOK
<1> USE <1>a, <1>b, <1>c, <1>d, <1>e
<1>2. Occupancy'
  BY DEF Occupancy
<1>3. SwitchPhases'
  BY DEF SwitchPhases
<1>4. NoLostClaim'
  BY DEF NoLostClaim
<1>5. RunsCurrent'
  BY DEF RunsCurrent
<1>6. PreemptExact'
  BY PreemptMoved
<1>7. ContextSaved'
  BY DEF ContextSaved
<1>8. ZombieConfined'
  BY DEF ZombieConfined
<1> QED
  BY <1>1, <1>2, <1>3, <1>4, <1>5, <1>6, <1>7, <1>8

(* A recharge keeps every counter an integer.                              *)
LEMMA RechargedType ==
  ASSUME TypeOK
  PROVE  Recharged \in [Thread -> Int]
<1>1. \A t \in Thread : Recharge(counter[t]) \in Int
  BY DEF TypeOK, Recharge, priority
<1> QED
  BY <1>1 DEF Recharged, TypeOK

\* _schedule() claims a task that is runnable and on no core.
LEMMA PickNextPreserves ==
  ASSUME IInv, NEW c \in Core, PickNext(c)
  PROVE  IInv'
<1> USE SchedAssumption DEF IInv
<1>a. Listed \subseteq Task /\ Listed' = Listed /\ OwnedOnce
  BY ListedIsTask, ListedUnchanged, CurrentDistinct DEF PickNext
<1>b. PICK t \in Listed :
        /\ state[t] = "RUNNING" /\ on_cpu[t] = None /\ t # current_task[c]
        /\ on_cpu' = [on_cpu EXCEPT ![t] = c]
        /\ next' = [next EXCEPT ![c] = t]
  BY DEF PickNext, RunnableIndices, Runnable, Listed
<1>c. t \in Task /\ t \in Thread
  BY <1>a DEF Thread
<1>d. /\ cont[c].at = "pick"
      /\ cont'[c].at = "switch" /\ cont'[c].pos = cont[c].pos
      /\ \A d \in Core : d # c => cont'[d] = cont[d]
  BY DEF PickNext, TypeOK, Cont
<1>e. /\ on_cpu'[t] = c /\ next'[c] = t
      /\ \A u \in Thread : u # t => on_cpu'[u] = on_cpu[u]
      /\ \A d \in Core : d # c => next'[d] = next[d]
  BY <1>b, <1>c DEF TypeOK
<1>f. UNCHANGED <<list, state, preempt_count, ctx, current_task, masked, sp, prev>>
  BY DEF PickNext
<1>1. TypeOK'
  <2>1. cont' \in [Core -> Cont]
    BY ContStep DEF PickNext, Phase
  <2>2. counter' \in [Thread -> Int]
    BY RechargedType DEF PickNext
  <2> QED
    BY <1>b, <1>c, <1>f, <2>1, <2>2 DEF TypeOK
<1> USE <1>a, <1>b, <1>c, <1>d, <1>e, <1>f
<1>2. Occupancy'
  BY DEF Occupancy, Thread
<1>3. SwitchPhases'
  BY DEF SwitchPhases, Thread
<1>4. NoLostClaim'
  BY DEF NoLostClaim, Thread
<1>5. RunsCurrent'
  BY DEF RunsCurrent
<1>6. PreemptExact'
  BY DEF PreemptExact, OffCore
<1>7. ContextSaved'
  BY DEF ContextSaved
<1>8. ZombieConfined'
  BY DEF ZombieConfined
<1> QED
  BY <1>1, <1>2, <1>3, <1>4, <1>5, <1>6, <1>7, <1>8

\* _schedule() that finds nobody else changes counters only.
LEMMA PickNothingPreserves ==
  ASSUME IInv, NEW c \in Core, PickNothing(c)
  PROVE  IInv'
<1> USE SchedAssumption DEF IInv
<1>a. Listed \subseteq Task /\ Listed' = Listed
  BY ListedIsTask, ListedUnchanged DEF PickNothing
<1>b. /\ cont[c].at = "pick"
      /\ cont'[c].at = "enable" /\ cont'[c].pos = cont[c].pos
      /\ \A d \in Core : d # c => cont'[d] = cont[d]
  BY DEF PickNothing, TypeOK, Cont
<1>c. UNCHANGED <<list, state, preempt_count, on_cpu, ctx,
                  current_task, masked, sp, next, prev>>
  BY DEF PickNothing
<1>1. TypeOK'
  <2>1. cont' \in [Core -> Cont]
    BY ContStep DEF PickNothing, Phase
  <2>2. counter' \in [Thread -> Int]
    BY RechargedType DEF PickNothing
  <2> QED
    BY <1>c, <2>1, <2>2 DEF TypeOK
<1> USE <1>a, <1>b, <1>c
<1>2. Occupancy'
  BY DEF Occupancy
<1>3. SwitchPhases'
  BY DEF SwitchPhases
<1>4. NoLostClaim'
  BY DEF NoLostClaim
<1>5. RunsCurrent'
  BY DEF RunsCurrent
<1>6. PreemptExact'
  BY DEF PreemptExact, OffCore
<1>7. ContextSaved'
  BY DEF ContextSaved
<1>8. ZombieConfined'
  BY DEF ZombieConfined
<1> QED
  BY <1>1, <1>2, <1>3, <1>4, <1>5, <1>6, <1>7, <1>8

\* The end of _schedule() takes back one count of preemption.
LEMMA ScheduleReturnPreserves ==
  ASSUME IInv, NEW c \in Core, schedule_return(c)
  PROVE  IInv'
<1> USE SchedAssumption DEF IInv
<1>a. Listed \subseteq Task /\ Listed' = Listed /\ OwnedOnce
  BY ListedIsTask, ListedUnchanged, CurrentDistinct DEF schedule_return
<1>b. /\ cont[c].at = "enable"
      /\ cont'[c] \in Cont /\ cont'[c].at = "thread" /\ cont'[c].pos = cont[c].pos
      /\ \A d \in Core : d # c => cont'[d] = cont[d]
  BY DEF schedule_return, ThreadAt, TypeOK, Cont, Phase, Pos
<1>c. current_task[c] \in Thread /\ preempt_count[current_task[c]] = 1
  BY <1>b DEF PreemptExact, TypeOK
<1>d. /\ preempt_count'[current_task[c]] = 0
      /\ \A t \in Thread : t # current_task[c] => preempt_count'[t] = preempt_count[t]
      /\ preempt_count' \in [Thread -> Nat]
  BY <1>c DEF schedule_return, PreemptEnable, TypeOK
<1>e. UNCHANGED <<list, state, on_cpu, ctx, current_task, sp, next, prev>>
  BY DEF schedule_return
<1>1. TypeOK'
  <2>1. cont' \in [Core -> Cont]
    BY <1>b DEF schedule_return, TypeOK
  <2>2. counter' \in [Thread -> Int] /\ masked' \in [Core -> BOOLEAN]
    BY DEF schedule_return, TypeOK
  <2> QED
    BY <1>d, <1>e, <2>1, <2>2 DEF TypeOK
<1> USE <1>a, <1>b, <1>c, <1>d, <1>e
<1>2. Occupancy'
  BY DEF Occupancy
<1>3. SwitchPhases'
  BY DEF SwitchPhases
<1>4. NoLostClaim'
  BY DEF NoLostClaim
<1>5. RunsCurrent'
  BY DEF RunsCurrent
<1>6. PreemptExact'
  BY PreemptMoved
<1>7. ContextSaved'
  BY DEF ContextSaved
<1>8. ZombieConfined'
  BY DEF ZombieConfined
<1> QED
  BY <1>1, <1>2, <1>3, <1>4, <1>5, <1>6, <1>7, <1>8

\* schedule_tail() takes back the count copy_process() gave.
LEMMA ScheduleTailPreserves ==
  ASSUME IInv, NEW c \in Core, schedule_tail(c)
  PROVE  IInv'
<1> USE SchedAssumption DEF IInv
<1>a. Listed \subseteq Task /\ Listed' = Listed /\ OwnedOnce
  BY ListedIsTask, ListedUnchanged, CurrentDistinct DEF schedule_tail
<1>b. /\ cont[c].at = "tail"
      /\ cont'[c] \in Cont /\ cont'[c].at = "thread" /\ cont'[c].pos = cont[c].pos
      /\ \A d \in Core : d # c => cont'[d] = cont[d]
  BY DEF schedule_tail, ThreadAt, TypeOK, Cont, Phase, Pos, ContextSaved
<1>c. current_task[c] \in Thread /\ preempt_count[current_task[c]] = 1
  BY <1>b DEF PreemptExact, TypeOK
<1>d. /\ preempt_count'[current_task[c]] = 0
      /\ \A t \in Thread : t # current_task[c] => preempt_count'[t] = preempt_count[t]
      /\ preempt_count' \in [Thread -> Nat]
  BY <1>c DEF schedule_tail, PreemptEnable, TypeOK
<1>e. UNCHANGED <<list, state, on_cpu, ctx, current_task, sp, next, prev>>
  BY DEF schedule_tail
<1>1. TypeOK'
  <2>1. cont' \in [Core -> Cont]
    BY <1>b DEF schedule_tail, TypeOK
  <2>2. counter' \in [Thread -> Int] /\ masked' \in [Core -> BOOLEAN]
    BY DEF schedule_tail, TypeOK
  <2> QED
    BY <1>d, <1>e, <2>1, <2>2 DEF TypeOK
<1> USE <1>a, <1>b, <1>c, <1>d, <1>e
<1>2. Occupancy'
  BY DEF Occupancy
<1>3. SwitchPhases'
  BY DEF SwitchPhases
<1>4. NoLostClaim'
  BY DEF NoLostClaim
<1>5. RunsCurrent'
  BY DEF RunsCurrent
<1>6. PreemptExact'
  BY PreemptMoved
<1>7. ContextSaved'
  BY DEF ContextSaved
<1>8. ZombieConfined'
  BY DEF ZombieConfined
<1> QED
  BY <1>1, <1>2, <1>3, <1>4, <1>5, <1>6, <1>7, <1>8

-----------------------------------------------------------------------------
\* kernel_main() going on to its idle loop.
LEMMA EnterIdleLoopPreserves ==
  ASSUME IInv, NEW c \in Core, EnterIdleLoop(c)
  PROVE  IInv'
<1> USE SchedAssumption DEF IInv
<1>a. Listed \subseteq Task /\ Listed' = Listed
  BY ListedIsTask, ListedUnchanged DEF EnterIdleLoop
<1>b. /\ cont[c].at = "thread" /\ cont[c].pos = "boot"
      /\ cont'[c] \in Cont /\ cont'[c].at = "thread" /\ cont'[c].pos = "run"
      /\ \A d \in Core : d # c => cont'[d] = cont[d]
  BY DEF EnterIdleLoop, InThread, ThreadAt, TypeOK, Cont, Phase, Pos
<1>c. UNCHANGED <<list, state, counter, preempt_count, on_cpu, ctx,
                  current_task, masked, sp, next, prev>>
  BY DEF EnterIdleLoop
<1>1. TypeOK'
  BY <1>b, <1>c DEF EnterIdleLoop, TypeOK
<1> USE <1>a, <1>b, <1>c
<1>2. Occupancy'
  BY DEF Occupancy
<1>3. SwitchPhases'
  BY DEF SwitchPhases
<1>4. NoLostClaim'
  BY DEF NoLostClaim
<1>5. RunsCurrent'
  BY DEF RunsCurrent
<1>6. PreemptExact'
  BY DEF PreemptExact, OffCore
<1>7. ContextSaved'
  BY DEF ContextSaved
<1>8. ZombieConfined'
  BY DEF ZombieConfined, Exiting
<1> QED
  BY <1>1, <1>2, <1>3, <1>4, <1>5, <1>6, <1>7, <1>8

\* sem_signal() wakes a task, which is no zombie.
LEMMA WakePreserves ==
  ASSUME IInv, NEW t \in Task, Wake(t)
  PROVE  IInv'
<1> USE SchedAssumption DEF IInv
<1>a. Listed \subseteq Task /\ Listed' = Listed
  BY ListedIsTask, ListedUnchanged DEF Wake
<1>b. /\ state[t] = "WAITING" /\ state'[t] = "RUNNING"
      /\ \A u \in Task : u # t => state'[u] = state[u]
  BY DEF Wake, TypeOK
<1>c. UNCHANGED <<list, counter, preempt_count, on_cpu, ctx,
                  current_task, masked, sp, cont, next, prev>>
  BY DEF Wake
<1>1. TypeOK'
  BY DEF Wake, TypeOK
<1> USE <1>a, <1>b, <1>c
<1>2. Occupancy'
  BY DEF Occupancy
<1>3. SwitchPhases'
  BY DEF SwitchPhases
<1>4. NoLostClaim'
  BY DEF NoLostClaim
<1>5. RunsCurrent'
  BY DEF RunsCurrent
<1>6. PreemptExact'
  BY DEF PreemptExact, OffCore
<1>7. ContextSaved'
  BY DEF ContextSaved
<1>8. ZombieConfined'
  BY DEF ZombieConfined
<1> QED
  BY <1>1, <1>2, <1>3, <1>4, <1>5, <1>6, <1>7, <1>8

\* sem_wait() marks the current task, which is no zombie.
LEMMA BlockSelfPreserves ==
  ASSUME IInv, NEW c \in Core, BlockSelf(c)
  PROVE  IInv'
<1> USE SchedAssumption DEF IInv
<1>a. Listed \subseteq Task /\ Listed' = Listed /\ OwnedOnce
  BY ListedIsTask, ListedUnchanged, CurrentDistinct DEF BlockSelf
<1>b. /\ cont[c].at = "thread" /\ cont[c].pos = "run"
      /\ cont'[c] \in Cont /\ cont'[c].at = "thread" /\ cont'[c].pos = "wait"
      /\ \A d \in Core : d # c => cont'[d] = cont[d]
  BY DEF BlockSelf, InThread, ThreadAt, TypeOK, Cont, Phase, Pos
<1>c. /\ current_task[c] \in Listed /\ sp[c] = current_task[c]
      /\ on_cpu[current_task[c]] = c /\ state[current_task[c]] # "ZOMBIE"
  BY <1>a, <1>b DEF BlockSelf, Occupancy, RunsCurrent, ZombieConfined, Exiting
<1>d. /\ state'[current_task[c]] = "WAITING"
      /\ \A u \in Task : u # current_task[c] => state'[u] = state[u]
  BY <1>a, <1>c DEF BlockSelf, TypeOK
<1>e. UNCHANGED <<list, counter, preempt_count, on_cpu, ctx,
                  current_task, masked, sp, next, prev>>
  BY DEF BlockSelf
<1>1. TypeOK'
  BY <1>a, <1>b, <1>c, <1>e DEF BlockSelf, TypeOK
<1> USE <1>a, <1>b, <1>c, <1>d, <1>e
<1>2. Occupancy'
  BY DEF Occupancy
<1>3. SwitchPhases'
  BY DEF SwitchPhases
<1>4. NoLostClaim'
  BY DEF NoLostClaim
<1>5. RunsCurrent'
  BY DEF RunsCurrent
<1>6. PreemptExact'
  BY DEF PreemptExact, OffCore
<1>7. ContextSaved'
  BY DEF ContextSaved
<1>8. ZombieConfined'
  BY DEF ZombieConfined, Exiting, OwnedOnce
<1> QED
  BY <1>1, <1>2, <1>3, <1>4, <1>5, <1>6, <1>7, <1>8

\* exit_process() marks the current task and goes on to schedule().
LEMMA ExitProcessPreserves ==
  ASSUME IInv, NEW c \in Core, exit_process(c)
  PROVE  IInv'
<1> USE SchedAssumption DEF IInv
<1>a. Listed \subseteq Task /\ Listed' = Listed /\ OwnedOnce
  BY ListedIsTask, ListedUnchanged, CurrentDistinct DEF exit_process
<1>b. /\ cont[c].at = "thread" /\ cont[c].pos = "run"
      /\ cont'[c] \in Cont /\ cont'[c].at = "thread" /\ cont'[c].pos = "exit"
      /\ \A d \in Core : d # c => cont'[d] = cont[d]
  BY DEF exit_process, InThread, ThreadAt, TypeOK, Cont, Phase, Pos
<1>c. /\ current_task[c] \in Listed /\ sp[c] = current_task[c]
      /\ on_cpu[current_task[c]] = c /\ state[current_task[c]] # "ZOMBIE"
  BY <1>a, <1>b DEF exit_process, Occupancy, RunsCurrent, ZombieConfined, Exiting
<1>d. /\ state'[current_task[c]] = "ZOMBIE"
      /\ \A u \in Task : u # current_task[c] => state'[u] = state[u]
  BY <1>a, <1>c DEF exit_process, TypeOK
<1>e. UNCHANGED <<list, counter, preempt_count, on_cpu, ctx,
                  current_task, masked, sp, next, prev>>
  BY DEF exit_process
<1>1. TypeOK'
  BY <1>a, <1>b, <1>c, <1>e DEF exit_process, TypeOK
<1> USE <1>a, <1>b, <1>c, <1>d, <1>e
<1>2. Occupancy'
  BY DEF Occupancy
<1>3. SwitchPhases'
  BY DEF SwitchPhases
<1>4. NoLostClaim'
  BY DEF NoLostClaim
<1>5. RunsCurrent'
  BY DEF RunsCurrent
<1>6. PreemptExact'
  BY DEF PreemptExact, OffCore
<1>7. ContextSaved'
  BY DEF ContextSaved
<1>8. ZombieConfined'
  BY DEF ZombieConfined, Exiting, OwnedOnce
<1> QED
  BY <1>1, <1>2, <1>3, <1>4, <1>5, <1>6, <1>7, <1>8

\* copy_process() lists a task that was on no core and in no context.
LEMMA CopyProcessPreserves ==
  ASSUME IInv, NEW c \in Core, NEW t \in Task, copy_process(c, t)
  PROVE  IInv'
<1> USE SchedAssumption DEF IInv
<1>a. Listed \subseteq Task /\ Listed' = Listed \cup {t} /\ t \notin Listed
  BY ListedIsTask, ListedAppend DEF copy_process
<1>b. /\ state'[t] = "RUNNING" /\ on_cpu'[t] = None /\ preempt_count'[t] = 1
      /\ ctx'[t] \in Cont /\ ctx'[t].at = "tail" /\ ctx'[t].pos = "run"
  BY DEF copy_process, ForkPreemptCount, TypeOK, Thread, Cont, Phase, Pos
<1>c. /\ \A u \in Task : u # t => state'[u] = state[u]
      /\ \A u \in Thread : u # t =>
           /\ on_cpu'[u] = on_cpu[u]
           /\ preempt_count'[u] = preempt_count[u]
           /\ ctx'[u] = ctx[u]
  BY DEF copy_process, TypeOK
<1>d. UNCHANGED <<current_task, masked, sp, cont, next, prev>>
  BY DEF copy_process
<1>e. \A d \in Core : /\ current_task[d] # t
                      /\ sp[d] = t => cont[d].pos \notin Exiting
  BY <1>a DEF Occupancy, ZombieConfined
<1>1. TypeOK'
  <2>1. list' \in Seq(Task)
    BY DEF copy_process, TypeOK
  <2>2. ctx' \in [Thread -> Cont]
    BY <1>b DEF copy_process, TypeOK
  <2>3. counter' \in [Thread -> Int]
    <3>1. counter' = [counter EXCEPT ![t] = priority] /\ priority \in Int
      BY DEF copy_process, priority
    <3> QED
      BY <3>1 DEF TypeOK
  <2>4. preempt_count' \in [Thread -> Nat]
    BY DEF copy_process, TypeOK, ForkPreemptCount
  <2>5. state' \in [Task -> {"RUNNING", "WAITING", "ZOMBIE"}]
    BY DEF copy_process, TypeOK
  <2>6. on_cpu' \in [Thread -> Core \cup {None}]
    BY DEF copy_process, TypeOK
  <2> QED
    BY <1>d, <2>1, <2>2, <2>3, <2>4, <2>5, <2>6 DEF TypeOK
<1> USE <1>a, <1>b, <1>c, <1>d, <1>e
<1>2. Occupancy'
  BY DEF Occupancy, Thread
<1>3. SwitchPhases'
  BY DEF SwitchPhases, Thread
<1>4. NoLostClaim'
  BY DEF NoLostClaim, Thread
<1>5. RunsCurrent'
  BY DEF RunsCurrent
<1>6. PreemptExact'
  <2>1. \A d \in Core : current_task[d] \in Thread
    BY DEF TypeOK
  <2>2. \A d \in Core : preempt_count'[current_task[d]] =
                            IF cont[d].at = "thread" THEN 0 ELSE 1
    BY <2>1 DEF PreemptExact
  <2>3. \A d \in Core : current_task[d] # d => preempt_count'[d] = 1
    BY DEF PreemptExact, Thread
  <2>4. ASSUME NEW u \in Listed', OffCore(u), state'[u] # "ZOMBIE"
        PROVE  preempt_count'[u] = 1
    <3>1. CASE u = t
      BY <3>1
    <3>2. CASE u # t
      BY <2>4, <3>2 DEF PreemptExact, Thread
    <3> QED
      BY <3>1, <3>2
  <2> QED
    BY <2>2, <2>3, <2>4 DEF PreemptExact, OffCore
<1>7. ContextSaved'
  BY DEF ContextSaved, Thread
<1>8. ZombieConfined'
  <2>1. \A u \in Task : state'[u] = "ZOMBIE" => u \in Listed'
    BY DEF ZombieConfined
  <2>2. \A d \in Core : cont[d].pos \in Exiting =>
          sp[d] \in Task /\ state'[sp[d]] = "ZOMBIE"
    BY DEF ZombieConfined
  <2>3. \A u \in Thread : ctx'[u].pos \in Exiting =>
          u \in Task /\ state'[u] = "ZOMBIE"
    BY DEF ZombieConfined, Exiting
  <2>4. \A d \in Core :
          current_task[d] \in Task /\ state'[current_task[d]] = "ZOMBIE" =>
            /\ cont[d].at \notin {"release", "cpu_switch"}
            /\ cont[d].pos \in Exiting
    BY DEF ZombieConfined
  <2> QED
    BY <2>1, <2>2, <2>3, <2>4 DEF ZombieConfined
<1> QED
  BY <1>1, <1>2, <1>3, <1>4, <1>5, <1>6, <1>7, <1>8

-----------------------------------------------------------------------------
(* Every step of Next preserves the invariant.                             *)
LEMMA StepPreserves == IInv /\ [Next]_vars => IInv'
<1> SUFFICES ASSUME IInv, [Next]_vars PROVE IInv'
  OBVIOUS
<1>1. ASSUME NEW c \in Core, SchedulerStep(c) PROVE IInv'
  BY <1>1, PickNextPreserves, PickNothingPreserves, SwitchToPreserves,
     ReleasePrevPreserves, CpuSwitchToPreserves, ScheduleReturnPreserves,
     ScheduleTailPreserves DEF SchedulerStep
<1>2. ASSUME NEW c \in Core, ThreadStep(c) PROVE IInv'
  BY <1>2, EnterIdleLoopPreserves, CopyProcessPreserves, BlockSelfPreserves,
     ExitProcessPreserves, SchedulePreserves, SwitchToIdlePreserves DEF ThreadStep
<1>3. ASSUME NEW c \in Core, TickReturns(c) \/ TickPreempts(c) PROVE IInv'
  BY <1>3, TickReturnsPreserves, TickPreemptsPreserves
<1>4. ASSUME NEW t \in Task, Wake(t) PROVE IInv'
  BY <1>4, WakePreserves
<1>5. CASE UNCHANGED vars
  <2>1. Listed' = Listed
    BY <1>5, ListedUnchanged DEF vars
  <2> USE <1>5, <2>1 DEF vars, IInv
  <2>2. TypeOK'
    BY DEF TypeOK
  <2>3. Occupancy' /\ SwitchPhases' /\ NoLostClaim' /\ RunsCurrent'
    BY DEF Occupancy, SwitchPhases, NoLostClaim, RunsCurrent
  <2>4. PreemptExact' /\ ContextSaved' /\ ZombieConfined'
    BY DEF PreemptExact, OffCore, ContextSaved, ZombieConfined
  <2> QED
    BY <2>2, <2>3, <2>4
<1> QED
  BY <1>1, <1>2, <1>3, <1>4, <1>5 DEF Next

(* IInv holds in every reachable state of the scheduler.                   *)
THEOREM Invariance == Spec => []IInv
BY InitInvariant, StepPreserves, PTL DEF Spec

(* Type correctness: the balance of preempt_disable() and preempt_enable() *)
(* never goes below zero, whatever interrupts strike.                      *)
THEOREM TypeCorrect == Spec => []TypeOK
<1>1. IInv => TypeOK
  BY DEF IInv
<1> QED
  BY <1>1, Invariance, PTL

(* No two cores ever have the same current task (the claim of on_cpu in    *)
(* _schedule() up to its release in switch_to()).                          *)
THEOREM OneOwner == Spec => []OwnedOnce
<1>1. IInv => OwnedOnce
  BY CurrentDistinct DEF IInv
<1> QED
  BY <1>1, Invariance, PTL

(* on_cpu never keeps a claim that no core stands behind: _schedule() and  *)
(* switch_to() hide no task from the pass over the list.                   *)
THEOREM ClaimsKept == Spec => []NoLostClaim
<1>1. IInv => NoLostClaim
  BY DEF IInv
<1> QED
  BY <1>1, Invariance, PTL

(* preempt_count is exactly 1 inside the scheduler and exactly 0 outside,  *)
(* although the disable and the enable run on different stacks.            *)
THEOREM PreemptBalance == Spec => []PreemptExact
<1>1. IInv => PreemptExact
  BY DEF IInv
<1> QED
  BY <1>1, Invariance, PTL

(* A core outside switch_to() executes on the stack of its current task:    *)
(* preempt_enable() and exit_process() act on the task that called them.   *)
THEOREM StackIsCurrents == Spec => []RunsCurrent
<1>1. IInv => RunsCurrent
  BY DEF IInv
<1> QED
  BY <1>1, Invariance, PTL

(* Halving keeps every counter below twice the priority, through any number *)
(* of recharges, ticks and forks.                                          *)
THEOREM SlicesBounded == Spec => []CounterBounded
<1>1. Init => CounterBounded
  BY DEF Init, CounterBounded, priority
<1>2. ASSUME IInv, CounterBounded, [Next]_vars
      PROVE  CounterBounded'
  <2>1. counter \in [Thread -> Int]
    BY <1>2 DEF IInv, TypeOK
  <2>2. ASSUME NEW c \in Core PROVE current_task[c] \in Thread
    BY <1>2 DEF IInv, TypeOK
  <2>3. ASSUME counter' = Recharged PROVE CounterBounded'
    BY <1>2, <2>1, <2>3 DEF CounterBounded, Recharged, Recharge, priority
  <2>4. ASSUME NEW c \in Core, schedule(c) \/ TickPreempts(c)
        PROVE  CounterBounded'
    BY <1>2, <2>1, <2>2, <2>4 DEF CounterBounded, schedule, TickPreempts, priority
  <2>5. ASSUME NEW c \in Core, TickReturns(c) PROVE CounterBounded'
    BY <1>2, <2>1, <2>2, <2>5 DEF CounterBounded, TickReturns, priority
  <2>6. ASSUME NEW c \in Core, NEW t \in Task, copy_process(c, t)
        PROVE  CounterBounded'
    BY <1>2, <2>1, <2>6 DEF CounterBounded, copy_process, priority, Thread
  <2>7. CASE UNCHANGED counter
    BY <1>2, <2>7 DEF CounterBounded
  <2> QED
    BY <1>2, <2>3, <2>4, <2>5, <2>6, <2>7
       DEF Next, vars, SchedulerStep, ThreadStep, PickNext, PickNothing,
       switch_to, release_prev, cpu_switch_to, schedule_return, schedule_tail,
       EnterIdleLoop, BlockSelf, exit_process, switch_to_idle, Wake
<1> QED
  BY <1>1, <1>2, Invariance, PTL DEF Spec

(* After exit_process() has given up the core, no _schedule() or           *)
(* switch_to() makes the zombie current again.                             *)
THEOREM ZombieNeverBack == Spec => ZombieStaysOff
<1>1. ASSUME IInv, [Next]_vars, NEW t \in Task, state[t] = "ZOMBIE", OffCore(t)
      PROVE  OffCore(t)'
  <2>1. CASE UNCHANGED current_task
    BY <1>1, <2>1 DEF OffCore
  <2>2. ASSUME NEW c \in Core, switch_to(c) PROVE OffCore(t)'
    <3>1. next[c] # t
      BY <1>1, <2>2 DEF switch_to, IInv, SwitchPhases
    <3> QED
      BY <1>1, <2>2, <3>1 DEF OffCore, switch_to, IInv, TypeOK
  <2>3. ASSUME NEW c \in Core, switch_to_idle(c) PROVE OffCore(t)'
    BY <1>1, <2>3, SchedAssumption DEF OffCore, switch_to_idle, IInv, TypeOK
  <2> QED
    BY <1>1, <2>1, <2>2, <2>3 DEF Next, vars, SchedulerStep, ThreadStep, PickNext,
       PickNothing, release_prev, cpu_switch_to, schedule_return, schedule_tail,
       EnterIdleLoop, copy_process, BlockSelf, exit_process, schedule,
       TickReturns, TickPreempts, Wake
<1>2. IInv /\ [Next]_vars =>
        [\A t \in Task : state[t] = "ZOMBIE" /\ OffCore(t) => OffCore(t)']_vars
  BY <1>1
<1> QED
  BY <1>2, Invariance, PTL DEF Spec, ZombieStaysOff

=============================================================================
