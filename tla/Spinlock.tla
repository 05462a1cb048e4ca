------------------------------ MODULE Spinlock ------------------------------
(***************************************************************************)
(* One spinlock of bonsai-os, taken by task code and by interrupt          *)
(* handlers: spin_lock() and spin_unlock() of                              *)
(* src/arch/aarch64/spinlock.S, instruction by instruction, inside         *)
(* spin_lock_irqsave() and spin_unlock_irqrestore() of                     *)
(* include/lib/spinlock.h.  A core executes at one of two levels; an       *)
(* interrupt that strikes between two instructions runs a handler that may *)
(* take the same lock.                                                     *)
(***************************************************************************)
CONSTANT Core

Level == {"task", "handler"}

VARIABLES
  lock,      \* spinlock_t.lock
  monitor,   \* the exclusive monitor that ldaxr sets on each core
  masked,    \* DAIF.I of each core
  level,     \* what each core executes
  at,        \* the next instruction of the level: "out" of the lock, "ldaxr",
             \* "stxr", "held" (the critical section) or "restore"
  flags      \* local of the caller: the DAIF that irqsave has read

lock_vars == <<lock, monitor, masked, level, at, flags>>

LockInit ==
  /\ lock = 0
  /\ monitor = [c \in Core |-> FALSE]
  /\ masked = [c \in Core |-> FALSE]
  /\ level = [c \in Core |-> "task"]
  /\ at = [c \in Core |-> [l \in Level |-> "out"]]
  /\ flags = [c \in Core |-> [l \in Level |-> FALSE]]

\* The core executes the instruction i, and goes on to j.
At(c, i) == at[c][level[c]] = i
Goes(c, j) == at' = [at EXCEPT ![c][level[c]] = j]

-----------------------------------------------------------------------------
MaskLeftAlone(c) == masked[c]
MaskIrqs(c) == TRUE

\* mrs daif and msr daifset, #2 are one step: an interrupt between them finds
\* the lock not yet asked for and returns with the mask it found.
irqsave(c) ==
  /\ At(c, "out")
  /\ flags' = [flags EXCEPT ![c][level[c]] = masked[c]]
  /\ masked' = [masked EXCEPT ![c] = MaskIrqs(c)]
  /\ Goes(c, "ldaxr")
  /\ UNCHANGED <<lock, monitor, level>>

\* The load sees 0; while it sees 1 the loop at label 1 changes nothing.
ldaxr(c) ==
  /\ At(c, "ldaxr")
  /\ lock = 0
  /\ monitor' = [monitor EXCEPT ![c] = TRUE]
  /\ Goes(c, "stxr")
  /\ UNCHANGED <<lock, masked, level, flags>>

\* A store to the lock, by whichever core, clears every monitor on it; the
\* conditional store writes only when its own is still set.
StoreBlindly(c) == TRUE
StoreAllowed(c) == monitor[c]

stxr(c) ==
  /\ At(c, "stxr")
  /\ StoreAllowed(c)
  /\ lock' = 1
  /\ monitor' = [d \in Core |-> FALSE]
  /\ Goes(c, "held")
  /\ UNCHANGED <<masked, level, flags>>

stxr_fails(c) ==
  /\ At(c, "stxr")
  /\ ~StoreAllowed(c)
  /\ Goes(c, "ldaxr")
  /\ UNCHANGED <<lock, monitor, masked, level, flags>>

spin_unlock(c) ==
  /\ At(c, "held")
  /\ lock' = 0
  /\ monitor' = [d \in Core |-> FALSE]
  /\ Goes(c, "restore")
  /\ UNCHANGED <<masked, level, flags>>

irqrestore(c) ==
  /\ At(c, "restore")
  /\ masked' = [masked EXCEPT ![c] = flags[c][level[c]]]
  /\ Goes(c, "out")
  /\ UNCHANGED <<lock, monitor, level, flags>>

\* Exception entry masks IRQs; eret brings back the mask of the interrupted
\* code, which was clear, and clears the core's monitor.
interrupt(c) ==
  /\ level[c] = "task"
  /\ ~masked[c]
  /\ level' = [level EXCEPT ![c] = "handler"]
  /\ masked' = [masked EXCEPT ![c] = TRUE]
  /\ UNCHANGED <<lock, monitor, at, flags>>

eret(c) ==
  /\ level[c] = "handler"
  /\ At(c, "out")
  /\ level' = [level EXCEPT ![c] = "task"]
  /\ masked' = [masked EXCEPT ![c] = FALSE]
  /\ monitor' = [monitor EXCEPT ![c] = FALSE]
  /\ UNCHANGED <<lock, at, flags>>

\* Outside the lock the kernel changes DAIF itself: enable_irq(), disable_irq(),
\* or a switch of tasks, after which the core's mask is the newcomer's.
mask_changes(c) ==
  /\ level[c] = "task"
  /\ At(c, "out")
  /\ \E m \in BOOLEAN : masked' = [masked EXCEPT ![c] = m]
  /\ UNCHANGED <<lock, monitor, level, at, flags>>

LockStep(c) ==
  \/ irqsave(c)
  \/ ldaxr(c)
  \/ stxr(c)
  \/ stxr_fails(c)
  \/ spin_unlock(c)
  \/ irqrestore(c)
  \/ interrupt(c)
  \/ eret(c)
  \/ mask_changes(c)

LockSpec == LockInit /\ [][\E c \in Core : LockStep(c)]_lock_vars

-----------------------------------------------------------------------------
(* Properties.                                                             *)

LockTypeOK ==
  /\ lock \in {0, 1}
  /\ monitor \in [Core -> BOOLEAN]
  /\ masked \in [Core -> BOOLEAN]
  /\ level \in [Core -> Level]
  /\ at \in [Core -> [Level -> {"out", "ldaxr", "stxr", "held", "restore"}]]
  /\ flags \in [Core -> [Level -> BOOLEAN]]

\* Two contexts, on two cores or on one, are never in the section together.
Exclusive ==
  \A c, d \in Core : \A l, m \in Level :
    at[c][l] = "held" /\ at[d][m] = "held" => c = d /\ l = m

\* include/lib/spinlock.h:12, on the variants "for locks that may be acquired
\* from both task and IRQ context": a handler never spins on a lock whose
\* holder is the very code it has interrupted, which could not go on to free it.
HandlerCanGetIt ==
  \A c \in Core :
    level[c] = "handler" => at[c]["task"] = "out"

\* The strengthening: the lock word tells whether somebody is in the section, a
\* monitor that is still set has seen the lock free, IRQs are masked from
\* irqsave to irqrestore and in handlers, and a handler leaves the lock alone
\* before it returns.
WordTells == lock = 0 <=> \A c \in Core, l \in Level : at[c][l] # "held"
MonitorSawFree == \A c \in Core : monitor[c] => lock = 0
MaskedInside == \A c \in Core : at[c][level[c]] # "out" => masked[c]
HandlerDone == \A c \in Core : level[c] = "task" => at[c]["handler"] = "out"
HandlerMasked ==
  \A c \in Core : level[c] = "handler" =>
    masked[c] /\ (at[c]["handler"] # "out" => flags[c]["handler"])

LockInv ==
  /\ LockTypeOK /\ Exclusive /\ HandlerCanGetIt
  /\ WordTells /\ MonitorSawFree /\ MaskedInside /\ HandlerDone /\ HandlerMasked

=============================================================================
