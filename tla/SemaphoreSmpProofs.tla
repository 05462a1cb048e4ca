------------------------- MODULE SemaphoreSmpProofs -------------------------
(***************************************************************************)
(* The lock of Spinlock excludes, and SemaphoreSmp on it implements        *)
(* Semaphore, for any number of cores and tasks.                           *)
(***************************************************************************)
EXTENDS SemaphoreSmp, FiniteSetTheorems, SequenceTheorems, TLAPS

-----------------------------------------------------------------------------
(* The lock: it excludes, and it cannot deadlock a core with its own       *)
(* handler, for any set of cores.                                          *)

\* Nothing but the level that executes moves, and it goes where the instruction
\* says.
LEMMA MovesOne ==
  ASSUME LockTypeOK, NEW c \in Core, NEW j, Goes(c, j)
  PROVE  \A d \in Core, l \in Level :
           at'[d][l] = IF d = c /\ l = level[c] THEN j ELSE at[d][l]
  BY DEF LockTypeOK, Goes, Level

LEMMA TypeStep ==
  ASSUME LockTypeOK, NEW c \in Core, LockStep(c)
  PROVE  LockTypeOK'
<1> USE DEF LockTypeOK, Level, At, Goes
<1>1. CASE irqsave(c)
  BY <1>1 DEF irqsave, MaskIrqs
<1>2. CASE ldaxr(c)
  BY <1>2 DEF ldaxr
<1>3. CASE stxr(c)
  BY <1>3 DEF stxr
<1>4. CASE stxr_fails(c)
  BY <1>4 DEF stxr_fails
<1>5. CASE spin_unlock(c)
  BY <1>5 DEF spin_unlock
<1>6. CASE irqrestore(c)
  BY <1>6 DEF irqrestore
<1>7. CASE interrupt(c)
  BY <1>7 DEF interrupt
<1>8. CASE eret(c)
  BY <1>8 DEF eret
<1>9. CASE mask_changes(c)
  BY <1>9 DEF mask_changes
<1> QED
  BY <1>1, <1>2, <1>3, <1>4, <1>5, <1>6, <1>7, <1>8, <1>9 DEF LockStep

LEMMA InvStep ==
  ASSUME LockInv, NEW c \in Core, LockStep(c)
  PROVE  LockInv'
<1>0. /\ LockTypeOK /\ Exclusive /\ HandlerCanGetIt /\ WordTells
      /\ MonitorSawFree /\ MaskedInside /\ HandlerDone /\ HandlerMasked
  BY DEF LockInv
<1>t. LockTypeOK'
  BY <1>0, TypeStep
<1> USE DEF LockTypeOK, Level, At
<1>1. CASE irqsave(c)
  <2>1. \A d \in Core, l \in Level :
          at'[d][l] = IF d = c /\ l = level[c] THEN "ldaxr" ELSE at[d][l]
    BY <1>0, <1>1, MovesOne DEF irqsave
  <2>2. \A d \in Core, l \in Level : at'[d][l] = "held" <=> at[d][l] = "held"
    BY <1>0, <1>1, <2>1 DEF irqsave
  <2>3. Exclusive'
    BY <1>0, <1>1, <2>2 DEF irqsave, MaskIrqs, Exclusive
  <2>4. HandlerCanGetIt'
    BY <1>0, <1>1, <2>1 DEF irqsave, MaskIrqs, HandlerCanGetIt
  <2>5. WordTells'
    BY <1>0, <1>1, <2>2 DEF irqsave, MaskIrqs, WordTells
  <2>6. MonitorSawFree'
    BY <1>0, <1>1, <2>1 DEF irqsave, MaskIrqs, MonitorSawFree
  <2>7. MaskedInside'
    BY <1>0, <1>1, <2>1 DEF irqsave, MaskIrqs, MaskedInside
  <2>8. HandlerDone'
    BY <1>0, <1>1, <2>1 DEF irqsave, MaskIrqs, HandlerDone
  <2>9. HandlerMasked'
    BY <1>0, <1>1, <2>1 DEF irqsave, MaskIrqs, HandlerMasked
  <2> QED
    BY <1>t, <2>3, <2>4, <2>5, <2>6, <2>7, <2>8, <2>9 DEF LockInv
<1>2. CASE ldaxr(c)
  <2>1. \A d \in Core, l \in Level :
          at'[d][l] = IF d = c /\ l = level[c] THEN "stxr" ELSE at[d][l]
    BY <1>0, <1>2, MovesOne DEF ldaxr
  <2>2. \A d \in Core, l \in Level : at'[d][l] = "held" <=> at[d][l] = "held"
    BY <1>0, <1>2, <2>1 DEF ldaxr
  <2>3. Exclusive'
    BY <1>0, <1>2, <2>2 DEF ldaxr, Exclusive
  <2>4. HandlerCanGetIt'
    BY <1>0, <1>2, <2>1 DEF ldaxr, HandlerCanGetIt
  <2>5. WordTells'
    BY <1>0, <1>2, <2>2 DEF ldaxr, WordTells
  <2>6. MonitorSawFree'
    BY <1>0, <1>2, <2>1 DEF ldaxr, MonitorSawFree
  <2>7. MaskedInside'
    BY <1>0, <1>2, <2>1 DEF ldaxr, MaskedInside
  <2>8. HandlerDone'
    BY <1>0, <1>2, <2>1 DEF ldaxr, HandlerDone
  <2>9. HandlerMasked'
    BY <1>0, <1>2, <2>1 DEF ldaxr, HandlerMasked
  <2> QED
    BY <1>t, <2>3, <2>4, <2>5, <2>6, <2>7, <2>8, <2>9 DEF LockInv
<1>3. CASE stxr(c)
  <2>1. \A d \in Core, l \in Level :
          at'[d][l] = IF d = c /\ l = level[c] THEN "held" ELSE at[d][l]
    BY <1>0, <1>3, MovesOne DEF stxr
  <2>2. Exclusive'
    BY <1>0, <1>3, <2>1 DEF stxr, StoreAllowed, Exclusive, WordTells, MonitorSawFree
  <2>3. HandlerCanGetIt'
    BY <1>0, <1>3, <2>1 DEF stxr, HandlerCanGetIt
  <2>4. WordTells'
    BY <1>0, <1>3, <2>1 DEF stxr, WordTells
  <2>5. MonitorSawFree'
    BY <1>0, <1>3, <2>1 DEF stxr, MonitorSawFree
  <2>6. MaskedInside'
    BY <1>0, <1>3, <2>1 DEF stxr, MaskedInside
  <2>7. HandlerDone'
    BY <1>0, <1>3, <2>1 DEF stxr, HandlerDone
  <2>8. HandlerMasked'
    BY <1>0, <1>3, <2>1 DEF stxr, HandlerMasked
  <2> QED
    BY <1>t, <2>2, <2>3, <2>4, <2>5, <2>6, <2>7, <2>8 DEF LockInv
<1>4. CASE stxr_fails(c)
  <2>1. \A d \in Core, l \in Level :
          at'[d][l] = IF d = c /\ l = level[c] THEN "ldaxr" ELSE at[d][l]
    BY <1>0, <1>4, MovesOne DEF stxr_fails
  <2>2. \A d \in Core, l \in Level : at'[d][l] = "held" <=> at[d][l] = "held"
    BY <1>0, <1>4, <2>1 DEF stxr_fails
  <2>3. Exclusive'
    BY <1>0, <1>4, <2>2 DEF stxr_fails, Exclusive
  <2>4. HandlerCanGetIt'
    BY <1>0, <1>4, <2>1 DEF stxr_fails, HandlerCanGetIt
  <2>5. WordTells'
    BY <1>0, <1>4, <2>2 DEF stxr_fails, WordTells
  <2>6. MonitorSawFree'
    BY <1>0, <1>4, <2>1 DEF stxr_fails, MonitorSawFree
  <2>7. MaskedInside'
    BY <1>0, <1>4, <2>1 DEF stxr_fails, MaskedInside
  <2>8. HandlerDone'
    BY <1>0, <1>4, <2>1 DEF stxr_fails, HandlerDone
  <2>9. HandlerMasked'
    BY <1>0, <1>4, <2>1 DEF stxr_fails, HandlerMasked
  <2> QED
    BY <1>t, <2>3, <2>4, <2>5, <2>6, <2>7, <2>8, <2>9 DEF LockInv
<1>5. CASE spin_unlock(c)
  <2>1. \A d \in Core, l \in Level :
          at'[d][l] = IF d = c /\ l = level[c] THEN "restore" ELSE at[d][l]
    BY <1>0, <1>5, MovesOne DEF spin_unlock
  <2>2. \A d \in Core, l \in Level : at'[d][l] # "held"
    BY <1>0, <1>5, <2>1 DEF spin_unlock, Exclusive
  <2>3. Exclusive'
    BY <1>0, <1>5, <2>2 DEF spin_unlock, Exclusive
  <2>4. HandlerCanGetIt'
    BY <1>0, <1>5, <2>1 DEF spin_unlock, HandlerCanGetIt
  <2>5. WordTells'
    BY <1>0, <1>5, <2>2 DEF spin_unlock, WordTells, Exclusive
  <2>6. MonitorSawFree'
    BY <1>0, <1>5, <2>1 DEF spin_unlock, MonitorSawFree
  <2>7. MaskedInside'
    BY <1>0, <1>5, <2>1 DEF spin_unlock, MaskedInside
  <2>8. HandlerDone'
    BY <1>0, <1>5, <2>1 DEF spin_unlock, HandlerDone
  <2>9. HandlerMasked'
    BY <1>0, <1>5, <2>1 DEF spin_unlock, HandlerMasked
  <2> QED
    BY <1>t, <2>3, <2>4, <2>5, <2>6, <2>7, <2>8, <2>9 DEF LockInv
<1>6. CASE irqrestore(c)
  <2>1. \A d \in Core, l \in Level :
          at'[d][l] = IF d = c /\ l = level[c] THEN "out" ELSE at[d][l]
    BY <1>0, <1>6, MovesOne DEF irqrestore
  <2>2. \A d \in Core, l \in Level : at'[d][l] = "held" <=> at[d][l] = "held"
    BY <1>0, <1>6, <2>1 DEF irqrestore
  <2>3. Exclusive'
    BY <1>0, <1>6, <2>2 DEF irqrestore, Exclusive
  <2>4. HandlerCanGetIt'
    BY <1>0, <1>6, <2>1 DEF irqrestore, HandlerCanGetIt
  <2>5. WordTells'
    BY <1>0, <1>6, <2>2 DEF irqrestore, WordTells
  <2>6. MonitorSawFree'
    BY <1>0, <1>6, <2>1 DEF irqrestore, MonitorSawFree
  <2>7. MaskedInside'
    BY <1>0, <1>6, <2>1 DEF irqrestore, MaskedInside
  <2>8. HandlerDone'
    BY <1>0, <1>6, <2>1 DEF irqrestore, HandlerDone
  <2>9. HandlerMasked'
    BY <1>0, <1>6, <2>1 DEF irqrestore, HandlerMasked
  <2> QED
    BY <1>t, <2>3, <2>4, <2>5, <2>6, <2>7, <2>8, <2>9 DEF LockInv
<1>7. CASE interrupt(c)
  <2>1. Exclusive'
    BY <1>0, <1>7 DEF interrupt, Exclusive
  <2>2. HandlerCanGetIt'
    BY <1>0, <1>7 DEF interrupt, HandlerCanGetIt, MaskedInside
  <2>3. WordTells'
    BY <1>0, <1>7, <2>2 DEF interrupt, WordTells
  <2>4. MonitorSawFree'
    BY <1>0, <1>7 DEF interrupt, MonitorSawFree
  <2>5. MaskedInside'
    BY <1>0, <1>7 DEF interrupt, MaskedInside, HandlerDone
  <2>6. HandlerDone'
    BY <1>0, <1>7 DEF interrupt, HandlerDone
  <2>7. HandlerMasked'
    BY <1>0, <1>7 DEF interrupt, HandlerMasked, HandlerDone
  <2> QED
    BY <1>t, <2>1, <2>2, <2>3, <2>4, <2>5, <2>6, <2>7 DEF LockInv
<1>8. CASE eret(c)
  <2>1. Exclusive'
    BY <1>0, <1>8 DEF eret, Exclusive
  <2>2. HandlerCanGetIt'
    BY <1>0, <1>8 DEF eret, HandlerCanGetIt
  <2>3. WordTells'
    BY <1>0, <1>8, <2>2 DEF eret, WordTells
  <2>4. MonitorSawFree'
    BY <1>0, <1>8 DEF eret, MonitorSawFree
  <2>5. MaskedInside'
    BY <1>0, <1>8 DEF eret, MaskedInside, HandlerCanGetIt
  <2>6. HandlerDone'
    BY <1>0, <1>8 DEF eret, HandlerDone
  <2>7. HandlerMasked'
    BY <1>0, <1>8 DEF eret, HandlerMasked
  <2> QED
    BY <1>t, <2>1, <2>2, <2>3, <2>4, <2>5, <2>6, <2>7 DEF LockInv
<1>9. CASE mask_changes(c)
  <2>1. Exclusive'
    BY <1>0, <1>9 DEF mask_changes, Exclusive
  <2>2. HandlerCanGetIt'
    BY <1>0, <1>9 DEF mask_changes, HandlerCanGetIt
  <2>3. WordTells'
    BY <1>0, <1>9, <2>2 DEF mask_changes, WordTells
  <2>4. MonitorSawFree'
    BY <1>0, <1>9 DEF mask_changes, MonitorSawFree
  <2>5. MaskedInside'
    BY <1>0, <1>9 DEF mask_changes, MaskedInside
  <2>6. HandlerDone'
    BY <1>0, <1>9 DEF mask_changes, HandlerDone
  <2>7. HandlerMasked'
    BY <1>0, <1>9 DEF mask_changes, HandlerMasked
  <2> QED
    BY <1>t, <2>1, <2>2, <2>3, <2>4, <2>5, <2>6, <2>7 DEF LockInv
<1> QED
  BY <1>1, <1>2, <1>3, <1>4, <1>5, <1>6, <1>7, <1>8, <1>9 DEF LockStep

LEMMA InvInit == LockInit => LockInv
  BY DEF LockInit, LockInv, LockTypeOK, Level, Exclusive, HandlerCanGetIt,
     WordTells, MonitorSawFree, MaskedInside, HandlerDone, HandlerMasked

\* The lock word, the monitors and the masks tell the truth, at every
\* instruction of spin_lock_irqsave() and spin_unlock_irqrestore().
THEOREM LockInvariance == LockSpec => []LockInv
<1>1. LockInv /\ [\E c \in Core : LockStep(c)]_lock_vars => LockInv'
  <2> SUFFICES ASSUME LockInv, [\E c \in Core : LockStep(c)]_lock_vars
               PROVE  LockInv'
    OBVIOUS
  <2>1. CASE \E c \in Core : LockStep(c)
    BY <2>1, InvStep
  <2>2. CASE UNCHANGED lock_vars
    BY <2>2 DEF lock_vars, LockInv, LockTypeOK, Exclusive, HandlerCanGetIt,
       WordTells, MonitorSawFree, MaskedInside, HandlerDone, HandlerMasked
  <2> QED
    BY <2>1, <2>2
<1> QED
  BY InvInit, <1>1, PTL DEF LockSpec

\* ldaxr/stxr let one context at a time into the critical section, on any
\* number of cores and with handlers that take the same lock.
THEOREM MutualExclusion == LockSpec => []Exclusive
<1>1. LockInv => Exclusive
  BY DEF LockInv
<1> QED
  BY <1>1, LockInvariance, PTL

\* With IRQs masked around the section no handler interrupts the code that
\* holds the lock, or waits for it, on its own core.
THEOREM NoSelfDeadlock == LockSpec => []HandlerCanGetIt
<1>1. LockInv => HandlerCanGetIt
  BY DEF LockInv
<1> QED
  BY <1>1, LockInvariance, PTL

-----------------------------------------------------------------------------
(* The semaphore on it.                                                    *)

SemTypeOK ==
  /\ count \in Nat
  /\ waiters \in Seq(Task)
  /\ state \in [Task -> {"RUNNING", "WAITING"}]
  /\ in_list \in [Task -> BOOLEAN]
  /\ pc \in [Task -> {"out", "check", "schedule"}]
  /\ on \in [Core -> Task \cup {None}]
  /\ sect \in [Core -> [Level ->
       {"test", "del", "mark", "remark", "count", "scan", "done"}]]

\* Two cores never run the same task.
OneCore == \A c, d \in Core : on[c] = on[d] /\ on[c] \in Task => c = d

\* A section is begun before the lock is asked for and finished before it is
\* released; what it writes, it writes with the lock held.
SectionPlace ==
  \A c \in Core, l \in Level :
    /\ sect[c][l] # "done" => at[c][l] \in {"ldaxr", "stxr", "held"}
    /\ sect[c][l] \in {"del", "mark", "remark", "scan"} => at[c][l] = "held"
    /\ l = "handler" => sect[c][l] \in {"count", "scan", "done"}

\* What a task has seen in its section stays so until the section ends.
Saw(c) ==
  /\ sect[c]["task"] \in {"test", "del", "mark", "remark"} =>
       on[c] \in Task /\ pc[on[c]] \in {"out", "check"}
  /\ sect[c]["task"] \in {"del", "mark", "remark"} => in_list[on[c]]
  /\ sect[c]["task"] \in {"mark", "remark"} => count = 0
  /\ sect[c]["task"] = "mark" => waiters # <<>> /\ Last(waiters) = on[c]
WaitKeepsWhatItSaw == \A c \in Core : Saw(c)

\* Every signal that has begun fits under the bound.
SignalsFit ==
  Within("count") # {} \/ Within("scan") # {} =>
    count + Cardinality(Within("count")) <= MaxCount

\* What is proved of Semaphore, of the state that it sees here.
AtomicProofs == INSTANCE SemaphoreProofs WITH
  NumCores <- Cardinality(Core), count <- countBar, waiters <- waitersBar,
  in_list <- in_listBar, running <- runningBar

SmpInv ==
  /\ LockInv /\ SemTypeOK /\ OneCore /\ SectionPlace /\ WaitKeepsWhatItSaw
  /\ SignalsFit /\ AtomicProofs!IInv

-----------------------------------------------------------------------------
(* The lock underneath.                                                    *)

\* Whatever a core does to the semaphore, to the lock it is one of the steps of
\* Spinlock or none.
LEMMA LockStepped ==
  ASSUME NEW c \in Core, CoreStep(c)
  PROVE  LockStep(c) \/ UNCHANGED lock_vars
  BY DEF CoreStep, LockStep, call_sem_wait, call_sem_signal, wait_take, wait_del,
         wait_link, wait_mark, signal_count, signal_wake, lock_step,
         schedule_returns, switch

LEMMA LockKept ==
  ASSUME LockInv, NEW c \in Core, CoreStep(c)
  PROVE  LockInv'
<1>1. CASE LockStep(c)
  BY <1>1, InvStep
<1>2. CASE UNCHANGED lock_vars
  BY <1>2 DEF lock_vars, LockInv, LockTypeOK, Exclusive, HandlerCanGetIt,
     WordTells, MonitorSawFree, MaskedInside, HandlerDone, HandlerMasked
<1> QED
  BY <1>1, <1>2, LockStepped

\* semaphore.c takes the lock as Spinlock says: what is proved of the lock holds
\* here.
THEOREM ImplementsSpinlock == Spec => LockSpec
<1>1. Init => LockInit
  BY DEF Init
<1>2. [Next]_vars => [\E c \in Core : LockStep(c)]_lock_vars
  BY LockStepped DEF Next, vars, lock_vars
<1> QED
  BY <1>1, <1>2, PTL DEF Spec, LockSpec

-----------------------------------------------------------------------------
(* Who is in which section.                                                *)

Me(c) == <<c, level[c]>>

LEMMA WithinStep ==
  ASSUME LockTypeOK, SemTypeOK, NEW c \in Core, NEW s, Continue(c, s)
  PROVE  /\ \A d \in Core, l \in Level :
              sect'[d][l] = IF d = c /\ l = level[c] THEN s ELSE sect[d][l]
         /\ \A r : Within(r)' =
              IF r = s THEN Within(r) \cup {Me(c)} ELSE Within(r) \ {Me(c)}
<1>1. \A d \in Core, l \in Level :
        sect'[d][l] = IF d = c /\ l = level[c] THEN s ELSE sect[d][l]
  BY DEF LockTypeOK, SemTypeOK, Continue
<1>2. ASSUME NEW r
      PROVE  Within(r)' = IF r = s THEN Within(r) \cup {Me(c)} ELSE Within(r) \ {Me(c)}
  <2>1. \A d \in Core, l \in Level : <<d, l>> \in Within(r)' <=>
          IF d = c /\ l = level[c] THEN r = s ELSE <<d, l>> \in Within(r)
    BY <1>1 DEF Within
  <2>2. Me(c) \in Core \X Level
    BY DEF LockTypeOK, Me
  <2> QED
    BY <2>1, <2>2 DEF Within, Me
<1> QED
  BY <1>1, <1>2

\* Of the sections that write, only the holder's is under way.
LEMMA Alone ==
  ASSUME SmpInv, NEW c \in Core, NEW s, InSection(c, s),
         NEW r \in {"del", "mark", "remark", "scan"}
  PROVE  Within(r) = IF r = s THEN {Me(c)} ELSE {}
<1>1. \A d \in Core, l \in Level :
        sect[d][l] = r => d = c /\ l = level[c] /\ r = s
  BY DEF SmpInv, LockInv, LockTypeOK, Exclusive, SectionPlace, InSection, At
<1>2. Me(c) \in Core \X Level /\ sect[c][level[c]] = s
  BY DEF SmpInv, LockInv, LockTypeOK, InSection, Me
<1> QED
  BY <1>1, <1>2 DEF Within, Me

LEMMA AloneAfter ==
  ASSUME SmpInv, NEW c \in Core, NEW s, InSection(c, s), NEW n, Continue(c, n),
         NEW r \in {"del", "mark", "remark", "scan"}
  PROVE  Within(r)' = IF r = n THEN {Me(c)} ELSE {}
  BY Alone, WithinStep DEF SmpInv, LockInv

LEMMA WithinFinite ==
  ASSUME NEW s
  PROVE  IsFiniteSet(Within(s)) /\ Cardinality(Within(s)) \in Nat
<1>1. IsFiniteSet(Level)
  <2>1. IsFiniteSet({"task"}) /\ IsFiniteSet({"handler"})
    BY FS_Singleton
  <2>2. Level = {"task"} \cup {"handler"}
    BY DEF Level
  <2> QED
    BY <2>1, <2>2, FS_Union
<1>2. IsFiniteSet(Core \X Level)
  BY <1>1, FS_Product, SmpAssumption
<1> QED
  BY <1>2, FS_Subset, FS_CardinalityType DEF Within

-----------------------------------------------------------------------------
(* The invariant.                                                          *)

LEMMA AtomicAssumption == AtomicProofs!SemaphoreAssumption
  BY SmpAssumption, FS_CardinalityType
  DEF AtomicProofs!SemaphoreAssumption, AtomicProofs!IsFiniteSet, IsFiniteSet

LEMMA AtomicInit == Init => Atomic!Init
<1> SUFFICES ASSUME Init PROVE Atomic!Init
  OBVIOUS
<1> USE DEF Init
<1>1. Within("scan") = {} /\ Within("del") = {} /\ Within("mark") = {}
  BY DEF Within
<1>5. Linking = {}
  BY <1>1 DEF Linking
<1>2. runningBar = {}
  BY DEF runningBar
<1>3. countBar = InitCount /\ waitersBar = <<>>
  BY <1>1, <1>5, SmpAssumption DEF countBar, Pending, waitersBar
<1>4. in_listBar = [t \in Task |-> FALSE]
  BY DEF in_listBar
<1> QED
  BY <1>2, <1>3, <1>4 DEF Atomic!Init

LEMMA InitInv == Init => SmpInv
<1> SUFFICES ASSUME Init PROVE SmpInv
  OBVIOUS
<1> USE SmpAssumption DEF Init
<1>1. LockInv
  BY InvInit
<1>2. SemTypeOK
  BY DEF SemTypeOK
<1>3. OneCore
  BY DEF OneCore
<1>4. SectionPlace
  BY DEF SectionPlace
<1>5. WaitKeepsWhatItSaw
  BY DEF WaitKeepsWhatItSaw, Saw, Level
<1>6. SignalsFit
  BY DEF SignalsFit, Within
<1>7. Atomic!Init
  BY AtomicInit
<1>8. AtomicProofs!IInv
  BY <1>7, AtomicAssumption, AtomicProofs!InitInvariant
  DEF Atomic!Init, AtomicProofs!Init
<1> QED
  BY <1>1, <1>2, <1>3, <1>4, <1>5, <1>6, <1>8 DEF SmpInv

\* A call goes for the lock and says what for.
LEMMA CallWaitKeeps ==
  ASSUME SmpInv, NEW c \in Core, call_sem_wait(c)
  PROVE  SemTypeOK' /\ OneCore' /\ SectionPlace' /\ WaitKeepsWhatItSaw' /\ SignalsFit'
<1>0. /\ LockTypeOK /\ SemTypeOK /\ OneCore /\ SectionPlace
      /\ WaitKeepsWhatItSaw /\ SignalsFit
      /\ Continue(c, "test") /\ Goes(c, "ldaxr") /\ level[c] = "task" /\ on[c] \in Task
      /\ UNCHANGED <<sem_vars, on>>
  BY DEF SmpInv, LockInv, call_sem_wait, irqsave, RunsTask, SemTypeOK
<1> USE DEF sem_vars
<1>1. SemTypeOK'
  BY <1>0 DEF SemTypeOK, Continue
<1>2. OneCore'
  BY <1>0 DEF OneCore
<1>3. SectionPlace'
  BY <1>0, WithinStep, MovesOne DEF SectionPlace
<1>4. WaitKeepsWhatItSaw'
  BY <1>0, WithinStep DEF WaitKeepsWhatItSaw, Saw, Level, call_sem_wait
<1>5. SignalsFit'
  <2>1. Within("count")' = Within("count") \ {Me(c)} /\ Within("scan")' = Within("scan") \ {Me(c)}
    BY <1>0, WithinStep
  <2>2. Cardinality(Within("count")') <= Cardinality(Within("count"))
    BY <2>1, WithinFinite, FS_RemoveElement
  <2>3. Cardinality(Within("count")') \in Nat
    BY <2>1, WithinFinite, FS_RemoveElement, FS_CardinalityType
  <2> QED
    BY <1>0, <2>1, <2>2, <2>3, WithinFinite, SmpAssumption DEF SignalsFit, SemTypeOK
<1> QED
  BY <1>1, <1>2, <1>3, <1>4, <1>5

LEMMA CallSignalKeeps ==
  ASSUME SmpInv, NEW c \in Core, call_sem_signal(c)
  PROVE  SemTypeOK' /\ OneCore' /\ SectionPlace' /\ WaitKeepsWhatItSaw' /\ SignalsFit'
<1>0. /\ LockTypeOK /\ SemTypeOK /\ OneCore /\ SectionPlace
      /\ WaitKeepsWhatItSaw /\ SignalsFit
      /\ Continue(c, "count") /\ Goes(c, "ldaxr") /\ At(c, "out")
      /\ count + Cardinality(Within("count")) < MaxCount
      /\ UNCHANGED <<sem_vars, on>>
  BY DEF SmpInv, LockInv, call_sem_signal, irqsave
<1> USE DEF sem_vars
<1>1. SemTypeOK'
  BY <1>0 DEF SemTypeOK, Continue
<1>2. OneCore'
  BY <1>0 DEF OneCore
<1>3. SectionPlace'
  BY <1>0, WithinStep, MovesOne DEF SectionPlace
<1>4. WaitKeepsWhatItSaw'
  BY <1>0, WithinStep DEF WaitKeepsWhatItSaw, Saw, Level
<1>5. SignalsFit'
  <2>1. Within("count")' = Within("count") \cup {Me(c)}
    BY <1>0, WithinStep
  <2>4. Me(c) \notin Within("count")
    BY <1>0 DEF LockTypeOK, SectionPlace, Within, Me, At
  <2>2. Cardinality(Within("count")') = Cardinality(Within("count")) + 1
    BY <2>1, <2>4, WithinFinite, FS_AddElement
  <2>3. Cardinality(Within("count")') \in Nat
    BY <2>1, WithinFinite, FS_AddElement, FS_CardinalityType
  <2> QED
    BY <1>0, <2>2, <2>3, WithinFinite, SmpAssumption DEF SignalsFit, SemTypeOK
<1> QED
  BY <1>1, <1>2, <1>3, <1>4, <1>5

\* The steps of the lock leave sections where they are: none is under way when
\* the lock is released.
LEMMA LockStepKeeps ==
  ASSUME SmpInv, NEW c \in Core, lock_step(c)
  PROVE  SemTypeOK' /\ OneCore' /\ SectionPlace' /\ WaitKeepsWhatItSaw' /\ SignalsFit'
<1>0. /\ LockTypeOK /\ SemTypeOK /\ OneCore /\ SectionPlace
      /\ WaitKeepsWhatItSaw /\ SignalsFit
      /\ UNCHANGED <<sem_vars, on, sect>>
  BY DEF SmpInv, LockInv, lock_step
<1> USE DEF sem_vars
<1>1. SemTypeOK'
  BY <1>0 DEF SemTypeOK
<1>2. OneCore'
  BY <1>0 DEF OneCore
<1>3. SectionPlace'
  <2>1. CASE ldaxr(c)
    BY <1>0, <2>1, MovesOne DEF ldaxr, SectionPlace, At
  <2>2. CASE stxr(c)
    BY <1>0, <2>2, MovesOne DEF stxr, SectionPlace, At
  <2>3. CASE stxr_fails(c)
    BY <1>0, <2>3, MovesOne DEF stxr_fails, SectionPlace, At
  <2>4. CASE irqrestore(c)
    BY <1>0, <2>4, MovesOne DEF irqrestore, SectionPlace, At
  <2>5. CASE interrupt(c) \/ eret(c)
    BY <1>0, <2>5 DEF interrupt, eret, SectionPlace
  <2>6. CASE sect[c][level[c]] = "done" /\ spin_unlock(c)
    BY <1>0, <2>6, MovesOne DEF spin_unlock, SectionPlace, At
  <2> QED
    BY <2>1, <2>2, <2>3, <2>4, <2>5, <2>6 DEF lock_step
<1>4. WaitKeepsWhatItSaw'
  BY <1>0 DEF WaitKeepsWhatItSaw, Saw
<1>5. SignalsFit'
  BY <1>0 DEF SignalsFit, Within
<1> QED
  BY <1>1, <1>2, <1>3, <1>4, <1>5

\* A step inside a section: the core holds the lock and stays where it is.
SectionStep(c, s, n) ==
  /\ InSection(c, s)
  /\ Continue(c, n)
  /\ UNCHANGED <<lock_vars, on>>

LEMMA SectionStepKeeps ==
  ASSUME SmpInv, NEW c \in Core, NEW s,
         NEW n \in {"del", "mark", "remark", "scan", "done"}, SectionStep(c, s, n),
         level[c] = "handler" => n \in {"scan", "done"}
  PROVE  /\ sect' \in [Core -> [Level ->
              {"test", "del", "mark", "remark", "count", "scan", "done"}]]
         /\ OneCore'
         /\ SectionPlace'
         /\ \A d \in Core : sect[d]["task"] \in {"del", "mark", "remark", "scan"} =>
              d = c /\ level[c] = "task" /\ s = sect[d]["task"]
<1>0. /\ LockTypeOK /\ SemTypeOK /\ OneCore /\ SectionPlace /\ Exclusive
      /\ InSection(c, s) /\ Continue(c, n) /\ UNCHANGED <<lock_vars, on>>
  BY DEF SmpInv, LockInv, SectionStep
<1> USE DEF lock_vars
<1>1. sect' \in [Core -> [Level ->
        {"test", "del", "mark", "remark", "count", "scan", "done"}]]
  BY <1>0 DEF SemTypeOK, Continue
<1>2. OneCore'
  BY <1>0 DEF OneCore
<1>3. SectionPlace'
  BY <1>0, WithinStep DEF SectionPlace, InSection, At
<1>4. \A d \in Core : sect[d]["task"] \in {"del", "mark", "remark", "scan"} =>
        d = c /\ level[c] = "task" /\ s = sect[d]["task"]
  BY <1>0 DEF LockTypeOK, Level, Exclusive, SectionPlace, InSection, At
<1> QED
  BY <1>1, <1>2, <1>3, <1>4

\* In a section the count of signals on their way changes only when the holder
\* is one of them.
LEMMA SectionSignalsFit ==
  ASSUME SmpInv, NEW c \in Core, NEW s \in {"test", "del", "mark", "remark", "scan"},
         NEW n \in {"del", "mark", "remark", "done"}, SectionStep(c, s, n),
         count' \in Nat, count' <= count
  PROVE  SignalsFit'
<1>0. /\ LockTypeOK /\ SemTypeOK /\ SignalsFit
      /\ InSection(c, s) /\ Continue(c, n)
  BY DEF SmpInv, LockInv, SectionStep
<1>1. Within("count")' = Within("count")
  BY <1>0, WithinStep DEF Within, Me, InSection
<1>2. Within("scan")' \subseteq Within("scan")
  BY <1>0, WithinStep
<1> QED
  BY <1>0, <1>1, <1>2, WithinFinite, SmpAssumption DEF SignalsFit, SemTypeOK

LEMMA TaskSection ==
  ASSUME SmpInv, NEW c \in Core, NEW s \in {"test", "del", "mark", "remark"},
         InSection(c, s)
  PROVE  /\ level[c] = "task" /\ sect[c]["task"] = s
         /\ on[c] \in Task /\ pc[on[c]] \in {"out", "check"}
         /\ s # "test" => in_list[on[c]]
  BY DEF SmpInv, LockInv, LockTypeOK, Level, SectionPlace, WaitKeepsWhatItSaw, Saw, InSection

\* The other cores' tasks wait for the lock, and have seen only their own pc.
LEMMA OthersSaw ==
  ASSUME SmpInv, NEW c \in Core, NEW s, NEW n, SectionStep(c, s, n),
         \A t \in Task : t # on[c] => pc'[t] = pc[t],
         NEW d \in Core, d # c
  PROVE  Saw(d)'
<1>0. /\ LockTypeOK /\ SemTypeOK /\ OneCore /\ SectionPlace /\ Exclusive /\ Saw(d)
      /\ InSection(c, s) /\ Continue(c, n) /\ UNCHANGED <<lock_vars, on>>
  BY DEF SmpInv, LockInv, SectionStep, WaitKeepsWhatItSaw
<1>1. sect'[d]["task"] = sect[d]["task"]
  BY <1>0, WithinStep DEF Level
<1>2. sect[d]["task"] \notin {"del", "mark", "remark"}
  BY <1>0 DEF Level, LockTypeOK, Exclusive, SectionPlace, InSection, At
<1>3. on[d] \in Task => on[d] # on[c]
  BY <1>0 DEF OneCore
<1> QED
  BY <1>0, <1>1, <1>2, <1>3 DEF Saw, SemTypeOK

LEMMA TakeKeeps ==
  ASSUME SmpInv, NEW c \in Core, wait_take(c)
  PROVE  SemTypeOK' /\ OneCore' /\ SectionPlace' /\ WaitKeepsWhatItSaw' /\ SignalsFit'
<1>0. /\ LockTypeOK /\ SemTypeOK /\ OneCore /\ InSection(c, "test")
  BY DEF SmpInv, LockInv, wait_take
<1>1. level[c] = "task" /\ on[c] \in Task /\ pc[on[c]] \in {"out", "check"}
  BY <1>0, TaskSection
<1>2. PICK n \in {"del", "done"} :
        SectionStep(c, "test", n) /\ (n = "del" <=> in_list[on[c]])
  BY <1>0, <1>1 DEF SemTypeOK, wait_take, SectionStep
<1>3. count' \in Nat /\ count' <= count
  BY <1>0 DEF wait_take, SemTypeOK
<1>4. SemTypeOK'
  BY <1>0, <1>1, <1>2, <1>3, SectionStepKeeps DEF wait_take, SemTypeOK
<1>5. WaitKeepsWhatItSaw'
  <2>1. \A t \in Task : t # on[c] => pc'[t] = pc[t]
    BY <1>0, <1>1 DEF wait_take, SemTypeOK
  <2>2. sect'[c]["task"] = n
    BY <1>0, <1>1, <1>2, WithinStep DEF SectionStep, Level
  <2>3. Saw(c)'
    BY <1>0, <1>1, <1>2, <2>2 DEF wait_take, Saw
  <2> QED
    BY <1>2, <2>1, <2>3, OthersSaw DEF WaitKeepsWhatItSaw
<1>6. SignalsFit'
  BY <1>2, <1>3, SectionSignalsFit
<1> QED
  BY <1>1, <1>2, <1>4, <1>5, <1>6, SectionStepKeeps

LEMMA NodeIsThere ==
  ASSUME SmpInv, NEW c \in Core, NEW s \in {"del", "remark"}, InSection(c, s)
  PROVE  Linking = {} /\ \E i \in DOMAIN waiters : waiters[i] = on[c]
<1>1. on[c] \in Task /\ in_list[on[c]]
  BY TaskSection
<1>2. Linking = {}
  BY Alone DEF Linking
<1>3. on[c] \in AtomicProofs!ToSet(waitersBar)
  BY <1>1, <1>2 DEF SmpInv, AtomicProofs!IInv, AtomicProofs!NoDanglingNode, in_listBar
<1> QED
  BY <1>2, <1>3 DEF waitersBar, AtomicProofs!ToSet

LEMMA DelKeeps ==
  ASSUME SmpInv, NEW c \in Core, wait_del(c)
  PROVE  SemTypeOK' /\ OneCore' /\ SectionPlace' /\ WaitKeepsWhatItSaw' /\ SignalsFit'
<1>0. /\ LockTypeOK /\ SemTypeOK /\ OneCore /\ SectionStep(c, "del", "done")
  BY DEF SmpInv, LockInv, wait_del, SectionStep
<1>1. level[c] = "task" /\ on[c] \in Task
  BY <1>0, TaskSection DEF SectionStep
<1>2. count' \in Nat /\ count' <= count
  BY <1>0 DEF wait_del, SemTypeOK
<1>3. waiters' \in Seq(Task)
  <2>1. \E i \in DOMAIN waiters : waiters[i] = on[c]
    BY <1>0, <1>1, NodeIsThere DEF SectionStep
  <2> DEFINE i == CHOOSE i \in DOMAIN waiters : waiters[i] = on[c]
  <2>2. i \in 1..Len(waiters) /\ waiters \in Seq(Task)
    BY <1>0, <2>1 DEF SemTypeOK
  <2> HIDE DEF i
  <2>3. RemoveAt(waiters, i) \in Seq(Task)
    BY <2>2, AtomicProofs!RemovedAt DEF RemoveAt, AtomicProofs!RemoveAt
  <2> QED
    BY <2>3 DEF wait_del, i
<1>4. SemTypeOK'
  BY <1>0, <1>1, <1>3, SectionStepKeeps DEF wait_del, SemTypeOK
<1>5. WaitKeepsWhatItSaw'
  <2>1. \A t \in Task : t # on[c] => pc'[t] = pc[t]
    BY <1>0, <1>1 DEF wait_del, SemTypeOK
  <2>2. sect'[c]["task"] = "done"
    BY <1>0, <1>1, WithinStep DEF SectionStep, Level
  <2>3. Saw(c)'
    BY <2>2 DEF Saw
  <2> QED
    BY <1>0, <2>1, <2>3, OthersSaw DEF WaitKeepsWhatItSaw
<1>6. SignalsFit'
  BY <1>0, <1>2, SectionSignalsFit
<1> QED
  BY <1>0, <1>1, <1>4, <1>5, <1>6, SectionStepKeeps

LEMMA LinkKeeps ==
  ASSUME SmpInv, NEW c \in Core, wait_link(c)
  PROVE  SemTypeOK' /\ OneCore' /\ SectionPlace' /\ WaitKeepsWhatItSaw' /\ SignalsFit'
<1>0. /\ LockTypeOK /\ SemTypeOK /\ OneCore /\ InSection(c, "test")
  BY DEF SmpInv, LockInv, wait_link
<1>1. level[c] = "task" /\ on[c] \in Task /\ pc[on[c]] \in {"out", "check"}
  BY <1>0, TaskSection
<1>2. PICK n \in {"mark", "remark"} :
        SectionStep(c, "test", n) /\ (n = "mark" <=> ~in_list[on[c]])
  BY <1>0, <1>1 DEF SemTypeOK, wait_link, Linked, SectionStep
<1>3. count' \in Nat /\ count' <= count
  BY <1>0 DEF wait_link, SemTypeOK
<1>7. /\ Append(waiters, on[c]) \in Seq(Task)
      /\ Append(waiters, on[c]) # <<>> /\ Last(Append(waiters, on[c])) = on[c]
  BY <1>0, <1>1, AppendProperties DEF SemTypeOK, Last
<1>8. waiters' \in Seq(Task) /\ in_list' \in [Task -> BOOLEAN]
  BY <1>0, <1>7 DEF wait_link, SemTypeOK
<1>4. SemTypeOK'
  BY <1>0, <1>1, <1>2, <1>8, SectionStepKeeps DEF wait_link, SemTypeOK
<1>5. WaitKeepsWhatItSaw'
  <2>1. \A t \in Task : t # on[c] => pc'[t] = pc[t]
    BY DEF wait_link
  <2>2. sect'[c]["task"] = n
    BY <1>0, <1>1, <1>2, WithinStep DEF SectionStep, Level
  <2>4. Saw(c)'
    BY <1>0, <1>1, <1>2, <1>7, <2>2 DEF wait_link, Linked, Saw, SemTypeOK
  <2> QED
    BY <1>2, <2>1, <2>4, OthersSaw DEF WaitKeepsWhatItSaw
<1>6. SignalsFit'
  BY <1>2, <1>3, SectionSignalsFit
<1> QED
  BY <1>1, <1>2, <1>4, <1>5, <1>6, SectionStepKeeps

LEMMA MarkKeeps ==
  ASSUME SmpInv, NEW c \in Core, wait_mark(c)
  PROVE  SemTypeOK' /\ OneCore' /\ SectionPlace' /\ WaitKeepsWhatItSaw' /\ SignalsFit'
<1>0. LockTypeOK /\ SemTypeOK /\ OneCore
  BY DEF SmpInv, LockInv
<1>1. PICK s \in {"mark", "remark"} : SectionStep(c, s, "done")
  BY DEF wait_mark, SectionStep
<1>2. level[c] = "task" /\ on[c] \in Task
  BY <1>1, TaskSection DEF SectionStep
<1>3. count' \in Nat /\ count' <= count
  BY <1>0 DEF wait_mark, SemTypeOK
<1>4. SemTypeOK'
  BY <1>0, <1>1, <1>2, SectionStepKeeps DEF wait_mark, SemTypeOK
<1>5. WaitKeepsWhatItSaw'
  <2>1. \A t \in Task : t # on[c] => pc'[t] = pc[t]
    BY <1>0, <1>2 DEF wait_mark, SemTypeOK
  <2>2. sect'[c]["task"] = "done"
    BY <1>0, <1>1, <1>2, WithinStep DEF SectionStep, Level
  <2>3. Saw(c)'
    BY <2>2 DEF Saw
  <2> QED
    BY <1>1, <2>1, <2>3, OthersSaw DEF WaitKeepsWhatItSaw
<1>6. SignalsFit'
  BY <1>1, <1>3, SectionSignalsFit
<1> QED
  BY <1>1, <1>2, <1>4, <1>5, <1>6, SectionStepKeeps

LEMMA CountKeeps ==
  ASSUME SmpInv, NEW c \in Core, signal_count(c)
  PROVE  SemTypeOK' /\ OneCore' /\ SectionPlace' /\ WaitKeepsWhatItSaw' /\ SignalsFit'
<1>0. /\ LockTypeOK /\ SemTypeOK /\ SignalsFit /\ SectionStep(c, "count", "scan")
      /\ count' = count + 1
  BY DEF SmpInv, LockInv, signal_count, SectionStep
<1>1. SemTypeOK'
  BY <1>0, SectionStepKeeps DEF signal_count, SemTypeOK
<1>2. WaitKeepsWhatItSaw'
  <2>1. Saw(c)'
    <3>1. CASE level[c] = "task"
      BY <1>0, <3>1, WithinStep DEF SectionStep, Level, Saw
    <3>2. CASE level[c] # "task"
      <4>1. sect'[c]["task"] = sect[c]["task"]
        BY <1>0, <3>2, WithinStep DEF SectionStep, Level
      <4>2. sect[c]["task"] = "done"
        BY <3>2 DEF SmpInv, LockInv, LockTypeOK, Level, HandlerCanGetIt, SectionPlace
      <4> QED
        BY <4>1, <4>2 DEF Saw
    <3> QED
      BY <3>1, <3>2
  <2> QED
    BY <1>0, <2>1, OthersSaw DEF signal_count, WaitKeepsWhatItSaw
<1>3. SignalsFit'
  <2>1. Within("count")' = Within("count") \ {Me(c)} /\ Me(c) \in Within("count")
    BY <1>0, WithinStep DEF SectionStep, InSection, LockTypeOK, Within, Me
  <2>2. Cardinality(Within("count")') = Cardinality(Within("count")) - 1
    BY <2>1, WithinFinite, FS_RemoveElement
  <2> QED
    BY <1>0, <2>1, <2>2, WithinFinite, SmpAssumption DEF SignalsFit, SemTypeOK
<1> QED
  BY <1>0, <1>1, <1>2, <1>3, SectionStepKeeps

LEMMA WakeKeeps ==
  ASSUME SmpInv, NEW c \in Core, signal_wake(c)
  PROVE  SemTypeOK' /\ OneCore' /\ SectionPlace' /\ WaitKeepsWhatItSaw' /\ SignalsFit'
<1>0. /\ LockTypeOK /\ SemTypeOK /\ SectionStep(c, "scan", "done")
  BY DEF SmpInv, LockInv, signal_wake, SectionStep
<1>1. SemTypeOK'
  BY <1>0, SectionStepKeeps DEF signal_wake, SemTypeOK
<1>2. WaitKeepsWhatItSaw'
  <2>1. Saw(c)'
    <3>1. CASE level[c] = "task"
      BY <1>0, <3>1, WithinStep DEF SectionStep, Level, Saw
    <3>2. CASE level[c] # "task"
      <4>1. sect'[c]["task"] = sect[c]["task"]
        BY <1>0, <3>2, WithinStep DEF SectionStep, Level
      <4>2. sect[c]["task"] = "done"
        BY <3>2 DEF SmpInv, LockInv, LockTypeOK, Level, HandlerCanGetIt, SectionPlace
      <4> QED
        BY <4>1, <4>2 DEF Saw
    <3> QED
      BY <3>1, <3>2
  <2> QED
    BY <1>0, <2>1, OthersSaw DEF signal_wake, WaitKeepsWhatItSaw
<1>3. SignalsFit'
  BY <1>0, SectionSignalsFit DEF signal_wake, SemTypeOK
<1> QED
  BY <1>0, <1>1, <1>2, <1>3, SectionStepKeeps

\* The scheduler acts on cores that are outside the lock.
LEMMA ReturnKeeps ==
  ASSUME SmpInv, NEW c \in Core, schedule_returns(c)
  PROVE  SemTypeOK' /\ OneCore' /\ SectionPlace' /\ WaitKeepsWhatItSaw' /\ SignalsFit'
<1>0. /\ SemTypeOK /\ OneCore /\ SectionPlace /\ WaitKeepsWhatItSaw /\ SignalsFit
      /\ level[c] = "task" /\ at[c]["task"] = "out" /\ on[c] \in Task
      /\ pc' = [pc EXCEPT ![on[c]] = "check"]
      /\ UNCHANGED <<lock_vars, count, waiters, state, in_list, on, sect>>
  BY DEF SmpInv, SemTypeOK, schedule_returns, RunsTask, At
<1> USE DEF lock_vars
<1>1. SemTypeOK'
  BY <1>0 DEF SemTypeOK
<1>2. OneCore' /\ SectionPlace'
  BY <1>0 DEF OneCore, SectionPlace
<1>3. ASSUME NEW d \in Core
      PROVE  Saw(d)'
  <2>1. Saw(d)
    BY <1>0 DEF WaitKeepsWhatItSaw
  <2>2. CASE d = c
    <3>1. sect[c]["task"] = "done"
      BY <1>0 DEF SectionPlace, Level
    <3> QED
      BY <1>0, <2>2, <3>1 DEF Saw
  <2>3. CASE d # c
    BY <1>0, <2>1, <2>3 DEF Saw, SemTypeOK, OneCore
  <2> QED
    BY <2>2, <2>3
<1>4. SignalsFit'
  BY <1>0 DEF SignalsFit, Within
<1> QED
  BY <1>1, <1>2, <1>3, <1>4 DEF WaitKeepsWhatItSaw

LEMMA SwitchKeeps ==
  ASSUME SmpInv, NEW c \in Core, NEW u \in Task, switch(c, u)
  PROVE  SemTypeOK' /\ OneCore' /\ SectionPlace' /\ WaitKeepsWhatItSaw' /\ SignalsFit'
<1>0. /\ SemTypeOK /\ OneCore /\ SectionPlace /\ WaitKeepsWhatItSaw /\ SignalsFit
      /\ at[c]["task"] = "out" /\ u \notin {on[d] : d \in Core}
      /\ on' = [on EXCEPT ![c] = u]
      /\ UNCHANGED <<count, waiters, state, in_list, pc, sect, at>>
  BY DEF SmpInv, switch, mask_changes, At, sem_vars
<1>1. SemTypeOK'
  BY <1>0 DEF SemTypeOK
<1>2. OneCore' /\ SectionPlace'
  BY <1>0 DEF SemTypeOK, OneCore, SectionPlace
<1>3. ASSUME NEW d \in Core
      PROVE  Saw(d)'
  <2>1. Saw(d)
    BY <1>0 DEF WaitKeepsWhatItSaw
  <2>2. CASE d = c
    <3>1. sect[c]["task"] = "done"
      BY <1>0 DEF SectionPlace, Level
    <3> QED
      BY <1>0, <2>2, <3>1 DEF Saw
  <2>3. CASE d # c
    BY <1>0, <2>1, <2>3 DEF Saw, SemTypeOK
  <2> QED
    BY <2>2, <2>3
<1>4. SignalsFit'
  BY <1>0 DEF SignalsFit, Within
<1> QED
  BY <1>1, <1>2, <1>3, <1>4 DEF WaitKeepsWhatItSaw

\* Semaphore brings its own copies of what it extends.
LEMMA SameCardinality ==
  \A S : Atomic!Cardinality(S) = Cardinality(S) /\ AtomicProofs!Cardinality(S) = Cardinality(S)
  BY Zenon DEF Atomic!Cardinality, Cardinality, AtomicProofs!Cardinality

LEMMA SameInit == Atomic!Init <=> AtomicProofs!Init
  BY DEF Atomic!Init, AtomicProofs!Init

LEMMA SameNext == Atomic!Next <=> AtomicProofs!Next
<1>1. \A t \in Task : Atomic!sem_wait_acquire(t) <=> AtomicProofs!sem_wait_acquire(t)
  BY Zenon DEF Atomic!sem_wait_acquire, AtomicProofs!sem_wait_acquire, Atomic!Unlink,
         AtomicProofs!Unlink, Atomic!RemoveAt, AtomicProofs!RemoveAt
<1>2. \A t \in Task : Atomic!sem_wait_block(t) <=> AtomicProofs!sem_wait_block(t)
  BY DEF Atomic!sem_wait_block, AtomicProofs!sem_wait_block
<1>3. \A t \in Task : Atomic!schedule_returns(t) <=> AtomicProofs!schedule_returns(t)
  BY DEF Atomic!schedule_returns, AtomicProofs!schedule_returns
<1>4. Atomic!sem_signal <=> AtomicProofs!sem_signal
  BY DEF Atomic!sem_signal, AtomicProofs!sem_signal, Atomic!Wakeable, AtomicProofs!Wakeable
<1>5. \A t \in Task : Atomic!dispatch(t) <=> AtomicProofs!dispatch(t)
  BY SameCardinality
  DEF Atomic!dispatch, AtomicProofs!dispatch, Atomic!Eligible, AtomicProofs!Eligible
<1>6. \A t, u \in Task : Atomic!switch(t, u) <=> AtomicProofs!switch(t, u)
  BY DEF Atomic!switch, AtomicProofs!switch, Atomic!Eligible, AtomicProofs!Eligible
<1> QED
  BY <1>1, <1>2, <1>3, <1>4, <1>5, <1>6 DEF Atomic!Next, AtomicProofs!Next

-----------------------------------------------------------------------------
(* Each step is one of Semaphore's or changes nothing that it sees.        *)

\* What Semaphore sees of a section before and after a step of it.
LEMMA SectionSeen ==
  ASSUME SmpInv, NEW c \in Core, NEW s, NEW n, SectionStep(c, s, n)
  PROVE  /\ Pending("scan") = (IF s = "scan" THEN 1 ELSE 0)
         /\ Pending("del") = (IF s = "del" THEN 1 ELSE 0)
         /\ Linking = (IF s = "mark" THEN {on[c]} ELSE {})
         /\ Pending("scan")' = (IF n = "scan" THEN 1 ELSE 0)
         /\ Pending("del")' = (IF n = "del" THEN 1 ELSE 0)
         /\ Linking' = (IF n = "mark" THEN {on[c]} ELSE {})
         /\ runningBar' = runningBar
<1>1. InSection(c, s) /\ Continue(c, n) /\ on' = on
  BY DEF SectionStep
<1>2. Pending("scan") = (IF s = "scan" THEN 1 ELSE 0)
  BY <1>1, Alone DEF Pending
<1>3. Pending("del") = (IF s = "del" THEN 1 ELSE 0)
  BY <1>1, Alone DEF Pending
<1>t. on[<<c, level[c]>>[1]] = on[c]
  OBVIOUS
<1>4. Linking = (IF s = "mark" THEN {on[c]} ELSE {})
  <2>1. Within("mark") = IF s = "mark" THEN {<<c, level[c]>>} ELSE {}
    BY <1>1, Alone DEF Me
  <2> QED
    BY <1>t, <2>1 DEF Linking
<1>5. Pending("scan")' = (IF n = "scan" THEN 1 ELSE 0)
  BY <1>1, AloneAfter DEF Pending
<1>6. Pending("del")' = (IF n = "del" THEN 1 ELSE 0)
  BY <1>1, AloneAfter DEF Pending
<1>7. Linking' = (IF n = "mark" THEN {on[c]} ELSE {})
  <2>1. Within("mark")' = IF n = "mark" THEN {<<c, level[c]>>} ELSE {}
    BY <1>1, AloneAfter DEF Me
  <2> QED
    BY <1>1, <1>t, <2>1 DEF Linking
<1>8. runningBar' = runningBar
  BY <1>1 DEF runningBar
<1> QED
  BY <1>2, <1>3, <1>4, <1>5, <1>6, <1>7, <1>8

LEMMA SectionCount ==
  ASSUME SmpInv, NEW c \in Core, NEW s, NEW n, SectionStep(c, s, n),
         count \in Nat, count' \in Int
  PROVE  /\ s = "scan" => countBar = count - 1
         /\ s = "del" => countBar = count + 1
         /\ s \notin {"scan", "del"} => countBar = count
         /\ n = "scan" => countBar' = count' - 1
         /\ n = "del" => countBar' = count' + 1
         /\ n \notin {"scan", "del"} => countBar' = count'
  BY SectionSeen DEF countBar

\* What a section does before its last store is not seen.
LEMMA StepsUnseen ==
  ASSUME SmpInv, NEW c \in Core,
         \/ wait_take(c) /\ in_list[on[c]]
         \/ wait_link(c)
         \/ signal_count(c)
  PROVE  UNCHANGED Atomic!vars
<1>0. SemTypeOK
  BY DEF SmpInv
<1>1. CASE wait_take(c) /\ in_list[on[c]]
  <2>1. SectionStep(c, "test", "del") /\ count' = count - 1
        /\ UNCHANGED <<waiters, state, in_list, pc>>
    BY <1>1 DEF wait_take, SectionStep
  <2>2. countBar = count /\ countBar' = count' + 1
    BY <1>0, <2>1, SectionCount DEF SemTypeOK
  <2>3. waitersBar' = waitersBar /\ in_listBar' = in_listBar
    BY <2>1, SectionSeen DEF waitersBar, in_listBar
  <2> QED
    BY <1>0, <2>1, <2>2, <2>3, SectionSeen DEF SemTypeOK, Atomic!vars
<1>2. CASE wait_link(c) /\ in_list[on[c]]
  <2>1. SectionStep(c, "test", "remark") /\ UNCHANGED <<count, waiters, state, in_list, pc>>
    BY <1>2 DEF wait_link, Linked, SectionStep
  <2>2. countBar' = countBar /\ waitersBar' = waitersBar /\ in_listBar' = in_listBar
    BY <2>1, SectionSeen DEF countBar, waitersBar, in_listBar
  <2> QED
    BY <2>1, <2>2, SectionSeen DEF Atomic!vars
<1>3. CASE wait_link(c) /\ ~in_list[on[c]]
  <2>1. /\ SectionStep(c, "test", "mark") /\ UNCHANGED <<count, state, pc>>
        /\ waiters' = Append(waiters, on[c])
        /\ in_list' = [in_list EXCEPT ![on[c]] = TRUE]
    BY <1>3 DEF wait_link, Linked, SectionStep
  <2>2. on[c] \in Task
    BY <2>1, TaskSection DEF SectionStep
  <2>3. countBar' = countBar
    BY <2>1, SectionSeen DEF countBar
  <2>4. waitersBar' = waitersBar
    <3>1. Front(Append(waiters, on[c])) = waiters
      BY <1>0, <2>2 DEF SemTypeOK, Front
    <3>2. Linking = {} /\ Linking' = {on[c]}
      BY <2>1, SectionSeen
    <3>3. waitersBar = waiters /\ waitersBar' = Front(waiters')
      BY <3>2 DEF waitersBar
    <3> QED
      BY <2>1, <3>1, <3>3
  <2>5. in_listBar' = in_listBar
    <3>1. \A t \in Task : (in_list'[t] /\ t \notin {on[c]}) = (in_list[t] /\ t \notin {})
      BY <1>0, <1>3, <2>1, <2>2 DEF SemTypeOK
    <3> QED
      BY <2>1, <3>1, SectionSeen DEF in_listBar
  <2> QED
    BY <2>1, <2>3, <2>4, <2>5, SectionSeen DEF Atomic!vars
<1>4. CASE signal_count(c)
  <2>1. SectionStep(c, "count", "scan") /\ count' = count + 1
        /\ UNCHANGED <<waiters, state, in_list, pc>>
    BY <1>4 DEF signal_count, SectionStep
  <2>2. countBar = count /\ countBar' = count' - 1
    BY <1>0, <2>1, SectionCount DEF SemTypeOK
  <2>3. waitersBar' = waitersBar /\ in_listBar' = in_listBar
    BY <2>1, SectionSeen DEF waitersBar, in_listBar
  <2> QED
    BY <1>0, <2>1, <2>2, <2>3, SectionSeen DEF SemTypeOK, Atomic!vars
<1> QED
  BY <1>1, <1>2, <1>3, <1>4

LEMMA AcquireSeen ==
  ASSUME SmpInv, NEW c \in Core,
         wait_del(c) \/ (wait_take(c) /\ ~in_list[on[c]])
  PROVE  Atomic!sem_wait_acquire(on[c]) /\ on[c] \in Task
<1>0. SemTypeOK
  BY DEF SmpInv
<1>1. CASE wait_del(c)
  <2>1. /\ SectionStep(c, "del", "done") /\ UNCHANGED <<count, state>>
        /\ waiters' = RemoveAt(waiters, CHOOSE i \in DOMAIN waiters : waiters[i] = on[c])
        /\ in_list' = [in_list EXCEPT ![on[c]] = FALSE]
        /\ pc' = [pc EXCEPT ![on[c]] = "out"]
    BY <1>1 DEF wait_del, SectionStep
  <2>2. on[c] \in Task /\ pc[on[c]] \in {"out", "check"} /\ in_list[on[c]]
    BY <2>1, TaskSection DEF SectionStep
  <2>3. countBar = count + 1 /\ countBar' = count'
    BY <1>0, <2>1, SectionCount DEF SemTypeOK
  <2>4. waitersBar = waiters /\ waitersBar' = Atomic!Unlink(on[c])
    <3>1. waitersBar = waiters /\ waitersBar' = waiters'
      BY <2>1, SectionSeen DEF waitersBar
    <3> QED
      BY <2>1, <3>1 DEF Atomic!Unlink, Atomic!RemoveAt, RemoveAt
  <2>5. in_listBar[on[c]] /\ in_listBar' = [in_listBar EXCEPT ![on[c]] = FALSE]
    BY <1>0, <2>1, <2>2, SectionSeen DEF SemTypeOK, in_listBar
  <2>6. on[c] \in runningBar
    BY <2>2, SmpAssumption DEF runningBar
  <2>7. countBar > 0 /\ countBar' = countBar - 1
    BY <1>0, <2>1, <2>3 DEF SemTypeOK
  <2> QED
    BY <2>1, <2>2, <2>4, <2>5, <2>6, <2>7, SectionSeen DEF Atomic!sem_wait_acquire
<1>2. CASE wait_take(c) /\ ~in_list[on[c]]
  <2>1. /\ SectionStep(c, "test", "done") /\ count > 0 /\ count' = count - 1
        /\ pc' = [pc EXCEPT ![on[c]] = "out"] /\ UNCHANGED <<waiters, state, in_list>>
    BY <1>2 DEF wait_take, SectionStep
  <2>2. on[c] \in Task /\ pc[on[c]] \in {"out", "check"}
    BY <2>1, TaskSection DEF SectionStep
  <2>3. countBar = count /\ countBar' = count'
    BY <1>0, <2>1, SectionCount DEF SemTypeOK
  <2>4. waitersBar' = waitersBar
    BY <2>1, SectionSeen DEF waitersBar
  <2>5. ~in_listBar[on[c]] /\ in_listBar' = [in_listBar EXCEPT ![on[c]] = FALSE]
    BY <1>0, <1>2, <2>1, <2>2, SectionSeen DEF SemTypeOK, in_listBar
  <2>6. on[c] \in runningBar
    BY <2>2, SmpAssumption DEF runningBar
  <2>7. countBar > 0 /\ countBar' = countBar - 1
    BY <1>0, <2>1, <2>3 DEF SemTypeOK
  <2> QED
    BY <2>1, <2>2, <2>4, <2>5, <2>6, <2>7, SectionSeen DEF Atomic!sem_wait_acquire
<1> QED
  BY <1>1, <1>2

LEMMA FrontLast ==
  ASSUME NEW S, NEW s \in Seq(S), s # <<>>
  PROVE  Append(Front(s), Last(s)) = s
<1>1. Len(s) \in Nat /\ Len(s) > 0 /\ \A i \in 1..Len(s) : s[i] \in S
  BY EmptySeq
<1>2. /\ Front(s) \in Seq(S) /\ Len(Front(s)) = Len(s) - 1
      /\ \A i \in 1..Len(s)-1 : Front(s)[i] = s[i]
  <2>1. PICK k \in Nat : Len(s) = k + 1
    BY <1>1
  <2>2. \A i \in 1..k : s[i] \in S
    BY <1>1, <2>1
  <2>3. /\ SubSeq(s, 1, k) \in Seq(S)
        /\ Len(SubSeq(s, 1, k)) = k
        /\ \A i \in 1..k : SubSeq(s, 1, k)[i] = s[i]
    BY <2>2, SubSeqProperties
  <2>4. Front(s) = SubSeq(s, 1, k) /\ Len(s) - 1 = k
    BY <2>1 DEF Front
  <2> QED
    BY <2>3, <2>4
<1>3. Last(s) \in S /\ Last(s) = s[Len(s)]
  BY <1>1 DEF Last
<1> DEFINE a == Append(Front(s), Last(s))
<1>4. /\ a \in Seq(S) /\ Len(a) = Len(s)
      /\ \A i \in 1..Len(s) : a[i] = s[i]
  BY <1>1, <1>2, <1>3, AppendProperties
<1> HIDE DEF a
<1>5. a = s
  BY <1>4, SeqEqual
<1> QED
  BY <1>5 DEF a

\* Cores do not run more tasks than they are.
LEMMA TasksOn ==
  ASSUME NEW C, IsFiniteSet(C)
  PROVE  IsFiniteSet({on[d] : d \in C}) /\ Cardinality({on[d] : d \in C}) <= Cardinality(C)
<1> DEFINE Run == {on[d] : d \in C}
           f == [d \in C |-> on[d]]
<1>1. f \in Surjection(C, Run)
  BY DEF Surjection
<1> HIDE DEF f, Run
<1>2. IsFiniteSet(Run) /\ Cardinality(Run) <= Cardinality(C)
  BY <1>1, FS_Surjection
<1> QED
  BY <1>2 DEF Run

LEMMA BlockSeen ==
  ASSUME SmpInv, NEW c \in Core, wait_mark(c)
  PROVE  Atomic!sem_wait_block(on[c]) /\ on[c] \in Task
<1>0. SemTypeOK
  BY DEF SmpInv
<1>1. PICK s \in {"mark", "remark"} : SectionStep(c, s, "done")
  BY DEF wait_mark, SectionStep
<1>2. /\ on[c] \in Task /\ pc[on[c]] \in {"out", "check"} /\ in_list[on[c]]
      /\ sect[c]["task"] = s
  BY <1>1, TaskSection DEF SectionStep
<1>3. /\ state' = [state EXCEPT ![on[c]] = "WAITING"]
      /\ pc' = [pc EXCEPT ![on[c]] = "schedule"]
      /\ UNCHANGED <<count, waiters, in_list>>
  BY DEF wait_mark
<1>4. count = 0 /\ (s = "mark" => waiters # <<>> /\ Last(waiters) = on[c])
  BY <1>2 DEF SmpInv, WaitKeepsWhatItSaw, Saw
<1>5. countBar = 0 /\ countBar' = 0
  BY <1>0, <1>1, <1>3, <1>4, SectionCount DEF SemTypeOK
<1>6. in_listBar' = in_list
  BY <1>0, <1>1, <1>3, SectionSeen DEF SemTypeOK, in_listBar
<1>7. on[c] \in runningBar
  BY <1>2, SmpAssumption DEF runningBar
<1>8. CASE s = "mark"
  <2>1. Linking = {on[c]} /\ Linking' = {}
    BY <1>1, <1>8, SectionSeen
  <2>2. waitersBar = Front(waiters) /\ waitersBar' = waiters
    BY <1>3, <2>1 DEF waitersBar
  <2>3. Append(Front(waiters), Last(waiters)) = waiters
    BY <1>0, <1>4, <1>8, FrontLast DEF SemTypeOK
  <2>4. ~in_listBar[on[c]] /\ in_listBar' = [in_listBar EXCEPT ![on[c]] = TRUE]
    BY <1>0, <1>2, <1>6, <2>1 DEF SemTypeOK, in_listBar
  <2> QED
    BY <1>1, <1>2, <1>3, <1>4, <1>5, <1>7, <1>8, <2>2, <2>3, <2>4, SectionSeen
    DEF Atomic!sem_wait_block
<1>9. CASE s = "remark"
  <2>1. Linking = {} /\ Linking' = {}
    BY <1>1, <1>9, SectionSeen
  <2>2. waitersBar' = waitersBar
    BY <1>3, <2>1 DEF waitersBar
  <2>3. in_listBar[on[c]] /\ in_listBar' = [in_listBar EXCEPT ![on[c]] = TRUE]
    BY <1>0, <1>2, <1>6, <2>1 DEF SemTypeOK, in_listBar
  <2> QED
    BY <1>1, <1>2, <1>3, <1>5, <1>7, <2>2, <2>3, SectionSeen
    DEF Atomic!sem_wait_block
<1> QED
  BY <1>1, <1>2, <1>8, <1>9

LEMMA SignalSeen ==
  ASSUME SmpInv, NEW c \in Core, signal_wake(c)
  PROVE  Atomic!sem_signal
<1>0. SemTypeOK /\ SignalsFit
  BY DEF SmpInv
<1>1. SectionStep(c, "scan", "done") /\ UNCHANGED <<count, waiters, in_list, pc>>
  BY DEF signal_wake, SectionStep
<1>2. countBar = count - 1 /\ countBar' = count
  BY <1>0, <1>1, SectionCount DEF SemTypeOK
<1>3. Within("scan") # {}
  BY <1>1, Alone DEF SectionStep
<1>4. countBar < MaxCount
  BY <1>0, <1>2, <1>3, WithinFinite, SmpAssumption DEF SemTypeOK, SignalsFit
<1>5. waitersBar = waiters /\ waitersBar' = waiters' /\ in_listBar' = in_listBar
  BY <1>1, SectionSeen DEF waitersBar, in_listBar
<1>6. \A t : t \in Atomic!Wakeable <=>
        \E i \in Asleep : t = waiters[i] /\ \A j \in Asleep : i <= j
  BY <1>5 DEF Atomic!Wakeable, Asleep
<1>7. state' = [t \in Task |-> IF t \in Atomic!Wakeable THEN "RUNNING" ELSE state[t]]
  BY <1>6 DEF signal_wake
<1>8. countBar' = countBar + 1
  BY <1>0, <1>2 DEF SemTypeOK
<1> QED
  BY <1>1, <1>4, <1>5, <1>7, <1>8, SectionSeen DEF Atomic!sem_signal

\* Calls and the instructions of the lock are not seen at all.
LEMMA CallsUnseen ==
  ASSUME SmpInv, NEW c \in Core,
         call_sem_wait(c) \/ call_sem_signal(c) \/ lock_step(c)
  PROVE  UNCHANGED Atomic!vars
<1>0. UNCHANGED <<sem_vars, on>>
  BY DEF call_sem_wait, call_sem_signal, lock_step
<1>1. \A r \in {"scan", "del", "mark"} : Within(r)' = Within(r)
  <2>1. CASE lock_step(c)
    BY <2>1 DEF lock_step, Within
  <2>2. ASSUME NEW s \in {"test", "count"}, Continue(c, s), At(c, "out")
        PROVE  \A r \in {"scan", "del", "mark"} : Within(r)' = Within(r)
    <3>1. sect[c][level[c]] = "done"
      BY <2>2 DEF SmpInv, LockInv, LockTypeOK, SectionPlace, At
    <3>2. \A r \in {"scan", "del", "mark"} : Me(c) \notin Within(r)
      BY <3>1 DEF Within, Me
    <3> QED
      BY <2>2, <3>2, WithinStep DEF SmpInv, LockInv
  <2> QED
    BY <2>1, <2>2 DEF call_sem_wait, call_sem_signal, irqsave
<1>2. Linking' = Linking
  BY <1>0, <1>1 DEF Linking
<1>3. countBar' = countBar
  BY <1>0, <1>1 DEF countBar, Pending, sem_vars
<1>4. waitersBar' = waitersBar
  BY <1>0, <1>2 DEF waitersBar, sem_vars
<1>5. in_listBar' = in_listBar
  BY <1>0, <1>2 DEF in_listBar, sem_vars
<1>6. runningBar' = runningBar
  BY <1>0 DEF runningBar
<1> QED
  BY <1>0, <1>3, <1>4, <1>5, <1>6 DEF Atomic!vars, sem_vars

LEMMA ReturnSeen ==
  ASSUME SmpInv, NEW c \in Core, schedule_returns(c)
  PROVE  Atomic!schedule_returns(on[c]) /\ on[c] \in Task
<1>0. on[c] \in Task
  BY DEF SmpInv, SemTypeOK, schedule_returns, RunsTask
<1>1. on[c] \in runningBar
  BY <1>0, SmpAssumption DEF runningBar
<1>2. UNCHANGED <<count, waiters, state, in_list, on, sect>>
  BY DEF schedule_returns
<1>3. \A r : Within(r)' = Within(r)
  BY <1>2 DEF Within
<1>4. Linking' = Linking
  BY <1>2, <1>3 DEF Linking
<1>5. UNCHANGED <<countBar, waitersBar, in_listBar, runningBar>>
  BY <1>2, <1>3, <1>4 DEF countBar, Pending, waitersBar, in_listBar, runningBar
<1> QED
  BY <1>0, <1>1, <1>2, <1>5 DEF schedule_returns, Atomic!schedule_returns

\* A core that switches is in no section.
LEMMA SwitchSeen ==
  ASSUME SmpInv, NEW c \in Core, NEW u \in Task, switch(c, u)
  PROVE  Atomic!dispatch(u) \/ \E t \in Task : Atomic!switch(t, u)
<1>0. /\ LockTypeOK /\ SemTypeOK /\ OneCore /\ SectionPlace
      /\ at[c]["task"] = "out" /\ level[c] = "task" /\ u \notin {on[d] : d \in Core}
      /\ state[u] = "RUNNING" /\ on' = [on EXCEPT ![c] = u]
      /\ UNCHANGED <<count, waiters, state, in_list, pc, sect>>
  BY DEF SmpInv, LockInv, switch, mask_changes, At, sem_vars
<1>1. \A r : Within(r)' = Within(r)
  BY <1>0 DEF Within
<1>2. \A x \in Within("mark") : x[1] # c /\ x[1] \in Core
  BY <1>0 DEF SmpInv, LockInv, HandlerDone, SectionPlace, Within, Level
<1>3. Linking' = Linking
  <2>1. \A x \in Within("mark") : on'[x[1]] = on[x[1]]
    BY <1>0, <1>2 DEF SemTypeOK
  <2> QED
    BY <1>1, <2>1 DEF Linking
<1>4. UNCHANGED <<countBar, waitersBar, in_listBar>>
  BY <1>0, <1>1, <1>3 DEF countBar, Pending, waitersBar, in_listBar
<1>5. Atomic!Eligible(u)
  BY <1>0 DEF Atomic!Eligible, runningBar
<1>6. CASE on[c] \in Task
  <2>1. runningBar' = (runningBar \ {on[c]}) \cup {u}
    BY <1>0, <1>6, SmpAssumption DEF SemTypeOK, OneCore, runningBar
  <2>2. on[c] \in runningBar
    BY <1>6, SmpAssumption DEF runningBar
  <2> QED
    BY <1>0, <1>4, <1>5, <1>6, <2>1, <2>2 DEF Atomic!switch
<1>7. CASE on[c] = None
  <2>1. runningBar' = runningBar \cup {u}
    BY <1>0, <1>7, SmpAssumption DEF SemTypeOK, runningBar
  <2>2. Cardinality(runningBar) < Cardinality(Core)
    <3> DEFINE others == Core \ {c}
               Run == {on[d] : d \in others}
    <3>1. runningBar \subseteq Run
      BY <1>7 DEF runningBar
    <3>2. /\ IsFiniteSet(others) /\ Cardinality(others) = Cardinality(Core) - 1
          /\ Cardinality(Core) \in Nat
      BY SmpAssumption, FS_RemoveElement, FS_CardinalityType
    <3>3. IsFiniteSet(Run) /\ Cardinality(Run) <= Cardinality(others)
      BY <3>2, TasksOn
    <3>4. Cardinality(runningBar) <= Cardinality(Run)
      BY <3>1, <3>3, FS_Subset
    <3>5. Cardinality(runningBar) \in Nat /\ Cardinality(Run) \in Nat
      BY <3>1, <3>3, FS_Subset, FS_CardinalityType
    <3> QED
      BY <3>2, <3>3, <3>4, <3>5
  <2> QED
    BY <1>0, <1>4, <1>5, <2>1, <2>2, SameCardinality DEF Atomic!dispatch
<1> QED
  BY <1>0, <1>6, <1>7 DEF SemTypeOK

-----------------------------------------------------------------------------
(* The theorems.                                                           *)

LEMMA StepKeeps ==
  ASSUME SmpInv, NEW c \in Core, CoreStep(c)
  PROVE  SemTypeOK' /\ OneCore' /\ SectionPlace' /\ WaitKeepsWhatItSaw' /\ SignalsFit'
  BY CallWaitKeeps, CallSignalKeeps, TakeKeeps, DelKeeps, LinkKeeps, MarkKeeps,
     CountKeeps, WakeKeeps, LockStepKeeps, ReturnKeeps, SwitchKeeps DEF CoreStep

LEMMA StepSeen ==
  ASSUME SmpInv, NEW c \in Core, CoreStep(c)
  PROVE  Atomic!Next \/ UNCHANGED Atomic!vars
<1>1. CASE call_sem_wait(c) \/ call_sem_signal(c) \/ lock_step(c)
  BY <1>1, CallsUnseen
<1>2. CASE (wait_take(c) /\ in_list[on[c]]) \/ wait_link(c) \/ signal_count(c)
  BY <1>2, StepsUnseen
<1>3. CASE wait_del(c) \/ (wait_take(c) /\ ~in_list[on[c]])
  BY <1>3, AcquireSeen DEF Atomic!Next
<1>4. CASE wait_mark(c)
  BY <1>4, BlockSeen DEF Atomic!Next
<1>5. CASE signal_wake(c)
  BY <1>5, SignalSeen DEF Atomic!Next
<1>6. CASE schedule_returns(c)
  BY <1>6, ReturnSeen DEF Atomic!Next
<1>7. CASE \E u \in Task : switch(c, u)
  BY <1>7, SwitchSeen DEF Atomic!Next
<1> QED
  BY <1>1, <1>2, <1>3, <1>4, <1>5, <1>6, <1>7 DEF CoreStep

\* Nothing that Semaphore sees moves when nothing moves.
LEMMA StutterSeen ==
  ASSUME UNCHANGED vars
  PROVE  UNCHANGED Atomic!vars
<1>1. UNCHANGED <<count, waiters, state, in_list, pc, on, sect>>
  BY DEF vars, sem_vars
<1>2. \A r : Within(r)' = Within(r)
  BY <1>1 DEF Within
<1>3. Linking' = Linking
  BY <1>1, <1>2 DEF Linking
<1>4. UNCHANGED <<countBar, waitersBar, in_listBar, runningBar>>
  BY <1>1, <1>2, <1>3 DEF countBar, Pending, waitersBar, in_listBar, runningBar
<1> QED
  BY <1>1, <1>4 DEF Atomic!vars

LEMMA StepRefines == SmpInv /\ [Next]_vars => [Atomic!Next]_(Atomic!vars)
  BY StepSeen, StutterSeen DEF Next

LEMMA SmpInvStep == SmpInv /\ [Next]_vars => SmpInv'
<1> SUFFICES ASSUME SmpInv, [Next]_vars PROVE SmpInv'
  OBVIOUS
<1>1. AtomicProofs!IInv'
  <2>1. AtomicProofs!Next \/ UNCHANGED AtomicProofs!vars
    BY StepRefines, SameNext DEF Atomic!vars, AtomicProofs!vars
  <2> QED
    BY <2>1, AtomicAssumption, AtomicProofs!StepInvariant DEF SmpInv
<1>2. CASE Next
  <2>1. PICK c \in Core : CoreStep(c)
    BY <1>2 DEF Next
  <2>2. LockInv'
    BY <2>1, LockKept DEF SmpInv
  <2> QED
    BY <1>1, <2>1, <2>2, StepKeeps DEF SmpInv
<1>3. CASE UNCHANGED vars
  <2>1. LockInv'
    BY <1>3 DEF SmpInv, vars, lock_vars, LockInv, LockTypeOK, Exclusive, HandlerCanGetIt,
       WordTells, MonitorSawFree, MaskedInside, HandlerDone, HandlerMasked
  <2>2. SemTypeOK' /\ OneCore' /\ SectionPlace' /\ WaitKeepsWhatItSaw' /\ SignalsFit'
    BY <1>3 DEF SmpInv, vars, lock_vars, sem_vars, SemTypeOK, OneCore, SectionPlace,
       WaitKeepsWhatItSaw, Saw, SignalsFit, Within
  <2> QED
    BY <1>1, <2>1, <2>2 DEF SmpInv
<1> QED
  BY <1>2, <1>3

\* The sections of semaphore.c hold together on every number of cores: the lock
\* is held where it must be, and what a section has seen stays so to its end.
THEOREM SmpInvariance == Spec => []SmpInv
  BY InitInv, SmpInvStep, PTL DEF Spec

\* sem_wait() and sem_signal(), interrupted and interleaved store by store on
\* any number of cores, do only what the atomic calls of Semaphore do.
THEOREM Refinement == Spec => RefinesSemaphore
<1>1. Init => Atomic!Init
  BY AtomicInit
<1> QED
  BY <1>1, SmpInvariance, StepRefines, PTL DEF Spec, RefinesSemaphore, Atomic!Spec

\* On any number of cores, whatever the interleaving of its stores, a signal
\* finds its sleeper: tokens never outnumber the waiters awake.
THEOREM SmpWakeupsKept == Spec => []NoLostWakeup
<1>1. SmpInv => NoLostWakeup
  BY SameCardinality DEF SmpInv, AtomicProofs!IInv, AtomicProofs!NoLostWakeup,
     NoLostWakeup, Atomic!NoLostWakeup, Atomic!Waiters, AtomicProofs!Waiters,
     Atomic!ToSet, AtomicProofs!ToSet
<1> QED
  BY <1>1, SmpInvariance, PTL

\* Whenever the lock is free, the list links exactly the nodes of tasks inside
\* sem_wait(), each once: no signal on any core follows a dangling node.
THEOREM SmpNodesLinked == Spec => []NodesLinked
<1>1. SmpInv => NodesLinked
  BY DEF SmpInv, AtomicProofs!IInv, NodesLinked,
     AtomicProofs!NoDanglingNode, Atomic!NoDanglingNode,
     AtomicProofs!SleeperIsLinked, Atomic!SleeperIsLinked,
     Atomic!ToSet, AtomicProofs!ToSet, Atomic!IsInjective, AtomicProofs!IsInjective
<1> QED
  BY <1>1, SmpInvariance, PTL

\* Of all the tasks and handlers on all the cores, one is between lock and
\* unlock of the semaphore.
THEOREM SmpExclusive == Spec => []Exclusive
  BY ImplementsSpinlock, MutualExclusion, PTL

\* No handler that signals spins on the sem->lock of the task it interrupted.
THEOREM SmpHandlerCanGetIt == Spec => []HandlerCanGetIt
  BY ImplementsSpinlock, NoSelfDeadlock, PTL

=============================================================================
