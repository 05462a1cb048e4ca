-------------------------------- MODULE Boot --------------------------------
(***************************************************************************)
(* From reset to the idle loops: src/arch/aarch64/boot.S, kernel_main()    *)
(* and secondary_start() of src/kernel/kernel.c, with the registration and *)
(* the dispatch of interrupts (src/kernel/irq.c, src/drivers/timer.c) and, *)
(* as the handler of the one GPU interrupt, that of UartRx.                *)
(*                                                                         *)
(* A core's start-up code is straight, so that how far a core has come     *)
(* says what it has done.  Stores are seen in program order.               *)
(*                                                                         *)
(* handle_irq() is on the stack of the thread it interrupted.  When a tick *)
(* switches threads inside it, it waits there until that thread is         *)
(* dispatched again, on any core; the interrupt mask stays with the core.  *)
(* Sched has the steps of a switch: here it is one, to any thread that no  *)
(* core executes.                                                          *)
(***************************************************************************)
EXTENDS UartRx, Functions

CONSTANTS Core, BootCore,
          Task, Console,  \* the two that kernel_main() creates, and the later one
          MaxNest,        \* bound: handle_irq()s of one thread within each other
          TableMax        \* IRQ_TABLE_MAX

\* A core stands for its idle task.
Thread == Core \cup Task

ASSUME BootAssumption ==
  /\ BootCore \in Core /\ None \notin Thread \cup {"timer", "aux"}
  /\ Cardinality(Task) = 2 /\ Console \in Task /\ Core \cap Task = {}
  /\ MaxNest \in Nat \ {0} /\ Handler = Thread \X (1..MaxNest)
  /\ TableMax \in Nat \ {0}

\* The steps of the code that another core, an interrupt or the UART can see.
MainEnablesEarly == <<
  "memzero", "create_page_tables", "boot_flag", "sev", "mmu",
  "uart_init_gpio", "sem_init", "register_gpu", "uart_ready",
  "irq_vector_init", "enable_aux", "enable_core_timer", "enable_irq",
  "timer_on", "register_local", "sched_init", "sched_ready" >>
MainSendsFirst == <<
  "memzero", "create_page_tables", "sev", "boot_flag", "mmu",
  "uart_init_gpio", "sem_init", "register_gpu", "uart_ready",
  "irq_vector_init", "timer_on", "register_local", "sched_init", "sched_ready",
  "enable_aux", "enable_core_timer", "enable_irq" >>
kernel_main == <<
  "memzero", "create_page_tables", "boot_flag", "sev", "mmu",
  "uart_init_gpio", "sem_init", "register_gpu", "uart_ready",
  "irq_vector_init", "timer_on", "register_local", "sched_init", "sched_ready",
  "enable_aux", "enable_core_timer", "enable_irq" >>

SecondaryHurries == <<
  "wfe", "load_flag", "mmu", "irq_vector_init", "await_uart_ready",
  "sched_init", "timer_on", "register_local", "enable_core_timer", "enable_irq" >>
secondary_start == <<
  "wfe", "load_flag", "mmu", "irq_vector_init", "await_uart_ready",
  "await_sched_ready", "sched_init", "timer_on", "register_local",
  "enable_core_timer", "enable_irq" >>

Code(c) == IF c = BootCore THEN kernel_main ELSE secondary_start

VARIABLES
  pc,          \* how many steps of its code each core has taken
  event,       \* the event register of each core, which sev sets and wfe clears
  reg_lock,    \* the core that holds irq_reg_lock, or None
  todo,        \* the stores its registration has still to make
  count,       \* local_count and gpu_count
  table,       \* local_table and gpu_table
  fired,       \* the generic timer of each core asks for an interrupt
  masked,      \* DAIF.I of each core
  thread,      \* the thread that each core executes
  life,        \* of each task: "new", "live" or "gone"
  depth,       \* how many handle_irq()s each thread is in
  dispatch     \* where each of them is, or None

startup_vars == <<pc, event, reg_lock, todo, count, table>>
thread_vars == <<masked, thread, life, depth, dispatch>>
boot_vars == <<startup_vars, fired, thread_vars>>
vars == <<uart_vars, boot_vars>>

NoEntry == [bit |-> None, handler |-> None]

Init ==
  /\ UartInit
  /\ pc = [c \in Core |-> 0]
  /\ event \in [Core -> BOOLEAN]
  /\ reg_lock = None
  /\ todo = {}
  /\ count = [t \in {"local", "gpu"} |-> 0]
  /\ table = [t \in {"local", "gpu"} |-> [i \in 0..TableMax-1 |-> NoEntry]]
  /\ fired = [c \in Core |-> FALSE]
  /\ masked = [c \in Core |-> TRUE]
  /\ thread = [c \in Core |-> c]
  /\ life = [t \in Task |-> "new"]
  /\ depth = [t \in Thread |-> 0]
  /\ dispatch = [h \in Handler |-> None]

Place(code) == [s \in Range(code) |-> CHOOSE i \in DOMAIN code : code[i] = s]
MainPlace == Place(kernel_main)
SecondaryPlace == Place(secondary_start)

Done(c, s) == pc[c] >= IF c = BootCore THEN MainPlace[s] ELSE SecondaryPlace[s]
Up(c) == pc[c] = Len(Code(c))

-----------------------------------------------------------------------------
(* The interrupt lines: the core's source register QA7 and PENDING_1.      *)
Pending1 == IF hw # <<>> THEN {"aux"} ELSE {}

Source(c) ==
  {b \in {"timer"} : fired[c] /\ Done(c, "enable_core_timer")} \cup
  {b \in {"gpu"} : c = BootCore /\ Done(c, "enable_aux") /\ hw # <<>>}

TimerFires(c) ==
  /\ Done(c, "timer_on")
  /\ fired' = [fired EXCEPT ![c] = TRUE]
  /\ UNCHANGED <<uart_vars, startup_vars, thread_vars>>

\* The handle_irq() that a core executes, the innermost of its thread.
InIrq(c) == depth[thread[c]] > 0
Innermost(c) == <<thread[c], depth[thread[c]]>>

Interrupted(c) == ~masked[c] /\ Source(c) # {} /\ depth[thread[c]] < MaxNest

-----------------------------------------------------------------------------
(* The start-up code, executed between interrupts.                         *)
InThread(c) == ~InIrq(c) /\ ~Interrupted(c)

AtOneOf(c, S) ==
  /\ ~Up(c) /\ Code(c)[pc[c] + 1] \in S
  /\ thread[c] = c /\ InThread(c)
At(c, s) == AtOneOf(c, {s})
Advance(c) == pc' = [pc EXCEPT ![c] = @ + 1]

plain_step(c) ==
  /\ AtOneOf(c, {"memzero", "create_page_tables", "boot_flag", "mmu", "uart_ready",
                 "irq_vector_init", "timer_on", "sched_init", "sched_ready",
                 "enable_aux", "enable_core_timer"})
  /\ Advance(c)
  /\ UNCHANGED <<uart_vars, event, reg_lock, todo, count, table, fired, thread_vars>>

enable_irq(c) ==
  /\ At(c, "enable_irq")
  /\ Advance(c)
  /\ masked' = [masked EXCEPT ![c] = FALSE]
  /\ UNCHANGED <<uart_vars, event, reg_lock, todo, count, table, fired,
                 thread, life, depth, dispatch>>

sev(c) ==
  /\ At(c, "sev")
  /\ Advance(c)
  /\ event' = [d \in Core |-> TRUE]
  /\ UNCHANGED <<uart_vars, reg_lock, todo, count, table, fired, thread_vars>>

\* secondary_spin: wait for an event, then look at secondary_boot_flag.
wfe(c) ==
  /\ At(c, "wfe")
  /\ event[c]
  /\ event' = [event EXCEPT ![c] = FALSE]
  /\ Advance(c)
  /\ UNCHANGED <<uart_vars, reg_lock, todo, count, table, fired, thread_vars>>

load_flag(c) ==
  /\ At(c, "load_flag")
  /\ pc' = [pc EXCEPT ![c] = IF Done(BootCore, "boot_flag") THEN @ + 1 ELSE @ - 1]
  /\ UNCHANGED <<uart_vars, event, reg_lock, todo, count, table, fired, thread_vars>>

await(c) ==
  /\ \/ At(c, "await_uart_ready") /\ Done(BootCore, "uart_ready")
     \/ At(c, "await_sched_ready") /\ Done(BootCore, "sched_ready")
  /\ Advance(c)
  /\ UNCHANGED <<uart_vars, event, reg_lock, todo, count, table, fired, thread_vars>>

\* mini_uart_init() clears the receive FIFO and then sets the count to 0.
uart_init(c) ==
  /\ \/ At(c, "uart_init_gpio") /\ hw' = <<>> /\ UNCHANGED sem
     \/ At(c, "sem_init") /\ sem' = 0 /\ UNCHANGED hw
  /\ Advance(c)
  /\ UNCHANGED <<arrived, irq, in, q, console_vars, ret,
                 event, reg_lock, todo, count, table, fired, thread_vars>>

-----------------------------------------------------------------------------
(* irq_register_local(0x2, handle_timer_irq) and                           *)
(* irq_register_gpu(AUX_INT_IRQ, mini_uart_handle_irq).                    *)
Registers(c, t) ==
  At(c, IF t = "local" THEN "register_local" ELSE "register_gpu")
Bit == [local |-> "timer", gpu |-> "aux"]

register_lock(c, t) ==
  /\ Registers(c, t)
  /\ reg_lock = None
  /\ reg_lock' = c
  /\ todo' = IF \E i \in 0..count[t]-1 : table[t][i].bit = Bit[t] THEN {}
             ELSE {"count", "bit", "handler"}
  /\ UNCHANGED <<uart_vars, pc, event, count, table, fired, thread_vars>>

\* table[count++] = entry: nothing orders its stores.  A full table panics.
register_store(c, t, f) ==
  /\ Registers(c, t)
  /\ reg_lock = c /\ f \in todo
  /\ LET slot == IF "count" \in todo THEN count[t] ELSE count[t] - 1
     IN  /\ slot < TableMax
         /\ IF f = "count"
            THEN count' = [count EXCEPT ![t] = @ + 1] /\ UNCHANGED table
            ELSE table' = [table EXCEPT ![t][slot][f] = Bit[t]] /\ UNCHANGED count
  /\ todo' = todo \ {f}
  /\ UNCHANGED <<uart_vars, pc, event, reg_lock, fired, thread_vars>>

register_unlock(c, t) ==
  /\ Registers(c, t)
  /\ reg_lock = c /\ todo = {}
  /\ reg_lock' = None
  /\ Advance(c)
  /\ UNCHANGED <<uart_vars, event, todo, count, table, fired, thread_vars>>

-----------------------------------------------------------------------------
(* Threads.  A switch leaves what handle_irq() does on the thread that is  *)
(* left; the one that arrives goes on where it was, with the core's mask.  *)
SwitchTo(c, t) == thread' = [thread EXCEPT ![c] = t]
Ready(t) == life[t] = "live" /\ \A c \in Core : thread[c] # t

\* _schedule() when it finds a task; the caller goes on when it finds nobody.
_schedule(c) == \E t \in Task : Ready(t) /\ SwitchTo(c, t)

\* A task that has used its slice up calls _schedule().
timer_tick(c) == UNCHANGED thread \/ _schedule(c)

TickMasked(c) == UNCHANGED masked

copy_process(c, t) ==
  /\ Up(c) /\ InThread(c) /\ thread[c] = BootCore
  /\ life[t] = "new" /\ (t = Console => \A u \in Task \ {t} : life[u] # "new")
  /\ life' = [life EXCEPT ![t] = "live"]
  /\ UNCHANGED <<uart_vars, startup_vars, fired, masked, thread, depth, dispatch>>

\* schedule() is called by the idle loops, that of kernel_main() once the tasks
\* are there, and by sem_wait().
schedule(c) ==
  /\ Up(c) /\ InThread(c)
  /\ \/ thread[c] \in Core /\ (thread[c] = BootCore => \A t \in Task : life[t] # "new")
     \/ thread[c] = Console /\ con \in {"wait", "wait1", "wait2"}
  /\ _schedule(c)
  /\ UNCHANGED <<uart_vars, startup_vars, fired, masked, life, depth, dispatch>>

\* The console never ends.  Without a task to go to, the core's idle task is it.
exit_process(c) ==
  /\ InThread(c)
  /\ thread[c] \in Task \ {Console}
  /\ life' = [life EXCEPT ![thread[c]] = "gone"]
  /\ SwitchTo(c, c) \/ _schedule(c)
  /\ UNCHANGED <<uart_vars, startup_vars, fired, masked, depth, dispatch>>

console(c) ==
  /\ InThread(c) /\ thread[c] = Console
  /\ ConsoleStep
  /\ UNCHANGED boot_vars

-----------------------------------------------------------------------------
(* handle_irq().  No lock is taken; the count is read for every entry.     *)
irq_entry(c) ==
  /\ Interrupted(c)
  /\ masked' = [masked EXCEPT ![c] = TRUE]
  /\ depth' = [depth EXCEPT ![thread[c]] = @ + 1]
  /\ dispatch' = [dispatch EXCEPT ![<<thread[c], depth[thread[c]] + 1>>] =
                    [table |-> "local", src |-> Source(c), i |-> 0]]
  /\ UNCHANGED <<uart_vars, startup_vars, fired, thread, life>>

\* No handler is running.
Looping(c) == InIrq(c) /\ ~Interrupted(c) /\ irq[Innermost(c)] = "idle"

Loop(c)  == dispatch[Innermost(c)]
Entry(c) == table[Loop(c).table][Loop(c).i]
More(c)  == Loop(c).i < count[Loop(c).table]
Match(c) == More(c) /\ Entry(c).bit \in Loop(c).src

\* handle_irq() goes on to d.
Continue(c, d) ==
  /\ dispatch' = [dispatch EXCEPT ![Innermost(c)] = d]
  /\ UNCHANGED <<startup_vars, life, depth>>

Consider(c) == Looping(c) /\ More(c) /\ Continue(c, [Loop(c) EXCEPT !.i = @ + 1])

irq_skip(c) ==
  /\ Consider(c)
  /\ ~Match(c)
  /\ UNCHANGED <<uart_vars, fired, masked, thread>>

\* handle_timer_irq(): the timer is set again, then the tick.
call_timer(c) ==
  /\ Consider(c)
  /\ Match(c) /\ Entry(c).handler = "timer"
  /\ fired' = [fired EXCEPT ![c] = FALSE]
  /\ timer_tick(c) /\ TickMasked(c)
  /\ UNCHANGED uart_vars

call_uart(c) ==
  /\ Consider(c)
  /\ Match(c) /\ Entry(c).handler = "aux"
  /\ irq' = [irq EXCEPT ![Innermost(c)] = "test"]
  /\ UNCHANGED <<hw, arrived, in, q, sem, console_vars, ret, fired, masked, thread>>

mini_uart_handle_irq(c) ==
  /\ InIrq(c) /\ ~Interrupted(c)
  /\ HandlerStep(Innermost(c))
  /\ UNCHANGED boot_vars

ToGpu(c) == Loop(c).table = "local" /\ "gpu" \in Loop(c).src

irq_gpu(c) ==
  /\ Looping(c) /\ ~More(c) /\ ToGpu(c)
  /\ Continue(c, [table |-> "gpu", src |-> Pending1, i |-> 0])
  /\ UNCHANGED <<uart_vars, fired, masked, thread>>

\* The mask that is restored is that of code that could be interrupted.
eret(c) ==
  /\ Looping(c) /\ ~More(c) /\ ~ToGpu(c)
  /\ masked' = [masked EXCEPT ![c] = FALSE]
  /\ depth' = [depth EXCEPT ![thread[c]] = @ - 1]
  /\ dispatch' = [dispatch EXCEPT ![Innermost(c)] = None]
  /\ UNCHANGED <<uart_vars, startup_vars, fired, thread, life>>

-----------------------------------------------------------------------------
RegisterStep(c) ==
  \E t \in {"local", "gpu"} :
    \/ register_lock(c, t)
    \/ \E f \in {"count", "bit", "handler"} : register_store(c, t, f)
    \/ register_unlock(c, t)

StartStep(c) ==
  \/ plain_step(c) \/ enable_irq(c) \/ sev(c) \/ wfe(c) \/ load_flag(c) \/ await(c)
  \/ uart_init(c)
  \/ RegisterStep(c)

ThreadStep(c) ==
  \/ \E t \in Task : copy_process(c, t)
  \/ schedule(c) \/ exit_process(c) \/ console(c)

IrqStep(c) ==
  \/ irq_entry(c) \/ irq_skip(c) \/ irq_gpu(c) \/ eret(c)
  \/ call_timer(c) \/ call_uart(c) \/ mini_uart_handle_irq(c)

CoreStep(c) == StartStep(c) \/ ThreadStep(c) \/ IrqStep(c)

Environment ==
  \/ \E c \in Core : TimerFires(c)
  \/ \E b \in Byte : Arrive(b) /\ UNCHANGED boot_vars

Next == (\E c \in Core : CoreStep(c)) \/ Environment

\* A core does not stop by itself, and nothing interrupts its start-up code.
Spec == Init /\ [][Next]_vars /\ \A c \in Core : WF_vars(StartStep(c))

-----------------------------------------------------------------------------
(* Properties.                                                             *)

\* What the start-up code relies on others for: page tables and a zeroed .bss
\* when a core turns its MMU on; the UART and printf before a secondary's first
\* LOG_CORE(); the run queue before any schedule(); and before the core's first
\* interrupt, or the first thread that arrives inside one, the core's own vectors
\* and current task, which a tick charges.
PrerequisitesMet ==
  \A c \in Core :
    /\ Done(c, "mmu") =>
         Done(BootCore, "memzero") /\ Done(BootCore, "create_page_tables")
    /\ Done(c, "timer_on") => Done(BootCore, "uart_init_gpio")
    /\ Up(c) => Done(BootCore, "sched_init")
    /\ InIrq(c) \/ thread[c] # c => Done(c, "irq_vector_init") /\ Done(c, "sched_init")


\* handle_irq() reads the tables without irq_reg_lock: from the moment the first
\* core takes interrupts no registration on any core changes them, each bit is
\* there once, and the counts cover whole entries.
TablesStable ==
  [][(\E c \in Core : Done(c, "enable_irq")) =>
       /\ UNCHANGED <<count, table>>
       /\ count = [t \in {"local", "gpu"} |-> 1]
       /\ \A t \in {"local", "gpu"} :
            table[t][0] = [bit |-> Bit[t], handler |-> Bit[t]]]_vars

\* Every core leaves secondary_spin and the two spins of secondary_start(),
\* whenever it starts and whatever its event register holds at reset.
AllCoresUp == <>(\A c \in Core : Up(c))

=============================================================================
