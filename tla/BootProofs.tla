----------------------------- MODULE BootProofs -----------------------------
(***************************************************************************)
(* Any number of cores come up in order, with tables of handlers that no   *)
(* longer change when they are read.  Threads may be switched inside       *)
(* handle_irq() and go on there on another core: serial input keeps one    *)
(* token for each byte, for buffers of any size and any number of bytes.   *)
(***************************************************************************)
EXTENDS Boot, FiniteSetTheorems, SequenceTheorems, TLAPS

-----------------------------------------------------------------------------
(* Serial input.                                                           *)

HandlerStates == {"idle", "test", "read", "push", "signal"}

UartTypeOK ==
  /\ hw \in Seq(Byte) /\ q \in Seq(Byte) /\ sem \in Nat
  /\ irq \in [Handler -> HandlerStates]
  /\ in \in [Handler -> Byte \cup {None}]
  /\ \A h \in Handler : irq[h] = "push" => in[h] \in Byte
  /\ con \in {"wait", "pop", "wait1", "pop1", "wait2", "pop2", "decode"}

\* The bytes that the console has taken of an escape sequence.
SequenceSoFar ==
  /\ con \in {"wait2", "pop2", "decode"} => seq1 \in Byte
  /\ con = "decode" => seq2 \in Byte

UartInv == UartTypeOK /\ TokenPerByte /\ SequenceSoFar

LEMMA InFlightType == InFlight \in Nat /\ IsFiniteSet(Signalling)
<1>1. Signalling \in SUBSET Handler
  BY DEF Signalling
<1> QED
  BY <1>1, UartAssumption, FS_Subset, FS_CardinalityType DEF InFlight

\* How the bytes in flight change when one handler goes on to s.
LEMMA InFlightMoves ==
  ASSUME UartTypeOK, NEW h \in Handler, NEW s \in HandlerStates,
         irq' = [irq EXCEPT ![h] = s]
  PROVE  /\ irq' \in [Handler -> HandlerStates]
         /\ irq[h] # "signal" /\ s # "signal" => InFlight' = InFlight
         /\ irq[h] # "signal" /\ s = "signal" => InFlight' = InFlight + 1
         /\ irq[h] = "signal" /\ s # "signal" => InFlight' = InFlight - 1
<1>1. /\ irq' \in [Handler -> HandlerStates] /\ irq'[h] = s
      /\ \A g \in Handler : g # h => irq'[g] = irq[g]
  BY DEF UartTypeOK
<1>2. CASE irq[h] # "signal" /\ s # "signal"
  <2>1. Signalling' = Signalling
    BY <1>1, <1>2 DEF Signalling
  <2> QED
    BY <1>1, <1>2, <2>1 DEF InFlight
<1>3. CASE irq[h] # "signal" /\ s = "signal"
  <2>1. Signalling' = Signalling \cup {h} /\ h \notin Signalling
    BY <1>1, <1>3 DEF Signalling
  <2> QED
    BY <1>1, <1>3, <2>1, InFlightType, FS_AddElement DEF InFlight
<1>4. CASE irq[h] = "signal" /\ s # "signal"
  <2>1. Signalling' = Signalling \ {h} /\ h \in Signalling
    BY <1>1, <1>4 DEF Signalling
  <2> QED
    BY <1>1, <1>4, <2>1, InFlightType, FS_RemoveElement DEF InFlight
<1>5. CASE irq[h] = "signal" /\ s = "signal"
  BY <1>1, <1>5
<1> QED
  BY <1>2, <1>3, <1>4, <1>5

\* The handlers stay where they are.
LEMMA InFlightStays ==
  ASSUME UNCHANGED irq
  PROVE  InFlight' = InFlight
  BY DEF InFlight, Signalling

LEMMA ArriveKeeps ==
  ASSUME UartInv, NEW b \in Byte, Arrive(b)
  PROVE  UartInv'
<1> USE DEF UartInv, Arrive, console_vars
<1>1. UartTypeOK'
  BY DEF UartTypeOK
<1>2. TokenPerByte'
  BY InFlightStays DEF TokenPerByte, InHand
<1>3. SequenceSoFar'
  BY DEF SequenceSoFar
<1> QED
  BY <1>1, <1>2, <1>3

LEMMA HandlerKeeps ==
  ASSUME UartInv, NEW h \in Handler, HandlerStep(h)
  PROVE  UartInv'
<1> USE DEF UartInv, HandlerStates
<1>1. InFlight \in Nat
  BY InFlightType
<1>2. CASE handle_irq_test(h)
  <2>1. PICK s \in {"read", "idle"} : irq[h] = "test" /\ irq' = [irq EXCEPT ![h] = s]
    BY <1>2 DEF handle_irq_test, HandlerAt
  <2>2. irq' \in [Handler -> HandlerStates] /\ InFlight' = InFlight
    BY <2>1, InFlightMoves
  <2>3. \A g \in Handler : irq'[g] = "push" => irq[g] = "push"
    BY <2>1 DEF UartTypeOK
  <2>4. UNCHANGED <<hw, in, q, sem, con, seq1, seq2>>
    BY <1>2 DEF handle_irq_test, console_vars
  <2> QED
    BY <2>2, <2>3, <2>4 DEF UartTypeOK, SequenceSoFar, TokenPerByte, InHand
<1>3. CASE handle_irq_read(h)
  <2>1. irq[h] = "read" /\ irq' = [irq EXCEPT ![h] = "push"]
    BY <1>3 DEF handle_irq_read, HandlerAt
  <2>2. irq' \in [Handler -> HandlerStates] /\ InFlight' = InFlight
    BY <2>1, InFlightMoves
  <2>3. UNCHANGED <<q, sem, con, seq1, seq2>>
    BY <1>3 DEF handle_irq_read, console_vars
  <2>4. \E b \in Byte : in' = [in EXCEPT ![h] = b] /\ hw' \in Seq(Byte)
    BY <1>3, HeadTailProperties DEF handle_irq_read, UartTypeOK
  <2>5. UartTypeOK'
    BY <2>1, <2>2, <2>3, <2>4 DEF UartTypeOK
  <2> QED
    BY <2>2, <2>3, <2>5 DEF SequenceSoFar, TokenPerByte, InHand
<1>4. CASE handle_irq_push(h)
  <2>1. /\ irq[h] = "push" /\ in[h] \in Byte /\ in' = [in EXCEPT ![h] = None]
        /\ UNCHANGED <<hw, sem, con, seq1, seq2>>
    BY <1>4 DEF handle_irq_push, HandlerAt, UartTypeOK, console_vars
  <2>2. \/ q' = q /\ irq' = [irq EXCEPT ![h] = "test"]
        \/ q' = Append(q, in[h]) /\ irq' = [irq EXCEPT ![h] = "signal"]
    <3>1. \/ ret' = [value |-> 0, elem |-> None] /\ q' = q
          \/ ret' = [value |-> 1, elem |-> None] /\ q' = Append(q, in[h])
      BY <1>4 DEF handle_irq_push, Ring!push, Ring!Returns
    <3>2. (ret'.value = 0 /\ q' = q) \/ (ret'.value = 1 /\ q' = Append(q, in[h]))
      BY <3>1
    <3>3. irq' = [irq EXCEPT ![h] = IF ret'.value = 1 THEN "signal" ELSE "test"]
      BY <1>4 DEF handle_irq_push, HandlerAt, Signals
    <3>4. CASE ret'.value = 0 /\ q' = q
      BY <3>3, <3>4
    <3>5. CASE ret'.value = 1 /\ q' = Append(q, in[h])
      BY <3>3, <3>5
    <3> QED
      BY <3>2, <3>4, <3>5
  <2>3. in' \in [Handler -> Byte \cup {None}]
    BY <2>1 DEF UartTypeOK
  <2>4. CASE q' = q /\ irq' = [irq EXCEPT ![h] = "test"]
    <3>1. irq' \in [Handler -> HandlerStates] /\ InFlight' = InFlight
      BY <2>1, <2>4, InFlightMoves
    <3>2. UartTypeOK'
      BY <2>1, <2>3, <2>4, <3>1 DEF UartTypeOK
    <3> QED
      BY <2>1, <2>4, <3>1, <3>2 DEF SequenceSoFar, TokenPerByte, InHand
  <2>5. CASE q' = Append(q, in[h]) /\ irq' = [irq EXCEPT ![h] = "signal"]
    <3>1. irq' \in [Handler -> HandlerStates] /\ InFlight' = InFlight + 1
      BY <2>1, <2>5, InFlightMoves
    <3>2. q' \in Seq(Byte) /\ Len(q') = Len(q) + 1 /\ Len(q) \in Nat
      BY <2>1, <2>5, AppendProperties, LenProperties DEF UartTypeOK
    <3>3. UartTypeOK'
      BY <2>1, <2>3, <2>5, <3>1, <3>2 DEF UartTypeOK
    <3>4. TokenPerByte'
      BY <1>1, <2>1, <3>1, <3>2 DEF TokenPerByte, InHand, UartTypeOK
    <3> QED
      BY <2>1, <3>3, <3>4 DEF SequenceSoFar
  <2> QED
    BY <2>2, <2>4, <2>5
<1>5. CASE handle_irq_signal(h)
  <2>1. /\ irq[h] = "signal" /\ irq' = [irq EXCEPT ![h] = "test"] /\ sem' = sem + 1
        /\ UNCHANGED <<hw, in, q, con, seq1, seq2>>
    BY <1>5 DEF handle_irq_signal, HandlerAt, console_vars
  <2>2. irq' \in [Handler -> HandlerStates] /\ InFlight' = InFlight - 1
    BY <2>1, InFlightMoves
  <2>3. UartTypeOK'
    BY <2>1, <2>2 DEF UartTypeOK
  <2>4. TokenPerByte'
    BY <1>1, <2>1, <2>2 DEF TokenPerByte, InHand, UartTypeOK
  <2> QED
    BY <2>1, <2>3, <2>4 DEF SequenceSoFar
<1> QED
  BY <1>2, <1>3, <1>4, <1>5 DEF HandlerStep

\* A pop that follows a token finds the byte that came with it.
LEMMA PopFindsByte ==
  ASSUME UartInv, con \in {"pop", "pop1", "pop2"}, Ring!pop
  PROVE  /\ ret'.value = 1 /\ ret'.elem \in Byte
         /\ q' \in Seq(Byte) /\ Len(q') = Len(q) - 1
<1>1. q \in Seq(Byte) /\ Len(q) > 0
  BY InFlightType DEF UartInv, UartTypeOK, TokenPerByte, InHand
<1>2. Head(q) \in Byte /\ Tail(q) \in Seq(Byte) /\ Len(Tail(q)) = Len(q) - 1
  BY <1>1, HeadTailProperties, EmptySeq
<1>3. ret' = [value |-> 1, elem |-> Head(q)] /\ q' = Tail(q)
  BY <1>1 DEF Ring!pop, Ring!Empty, Ring!Returns
<1> QED
  BY <1>2, <1>3

LEMMA ConsoleKeeps ==
  ASSUME UartInv, ConsoleStep
  PROVE  UartInv'
<1>1. UNCHANGED <<hw, irq, in>>
  BY DEF ConsoleStep, uart_rx_wait, pop_c, pop_seq1, pop_seq2, decode, handler_vars
<1>2. InFlight' = InFlight /\ InFlight \in Nat
  BY <1>1, InFlightStays, InFlightType
<1> USE DEF UartInv, UartTypeOK, SequenceSoFar, TokenPerByte, InHand
<1>3. CASE uart_rx_wait
  BY <1>1, <1>2, <1>3 DEF uart_rx_wait, AfterWait
<1>4. CASE pop_c
  BY <1>1, <1>2, <1>4, PopFindsByte DEF pop_c, AfterEsc
<1>5. CASE pop_seq1
  BY <1>1, <1>2, <1>5, PopFindsByte DEF pop_seq1
<1>6. CASE pop_seq2
  BY <1>1, <1>2, <1>6, PopFindsByte DEF pop_seq2
<1>7. CASE decode
  BY <1>1, <1>2, <1>7 DEF decode
<1> QED
  BY <1>3, <1>4, <1>5, <1>6, <1>7 DEF ConsoleStep

LEMMA UartStays ==
  ASSUME UartInv, UNCHANGED uart_vars
  PROVE  UartInv'
<1>1. UNCHANGED <<hw, irq, in, q, sem, con, seq1, seq2>>
  BY DEF uart_vars, handler_vars, console_vars
<1> QED
  BY <1>1, InFlightStays DEF UartInv, UartTypeOK, SequenceSoFar, TokenPerByte, InHand

-----------------------------------------------------------------------------
(* The places of the steps in the start-up code.                           *)

LEMMA MainText ==
  /\ Len(kernel_main) = 17 /\ DOMAIN kernel_main = 1..17
  /\ kernel_main[1] = "memzero" /\ kernel_main[2] = "create_page_tables"
  /\ kernel_main[3] = "boot_flag" /\ kernel_main[4] = "sev"
  /\ kernel_main[5] = "mmu" /\ kernel_main[6] = "uart_init_gpio"
  /\ kernel_main[7] = "sem_init" /\ kernel_main[8] = "register_gpu"
  /\ kernel_main[9] = "uart_ready" /\ kernel_main[10] = "irq_vector_init"
  /\ kernel_main[11] = "timer_on" /\ kernel_main[12] = "register_local"
  /\ kernel_main[13] = "sched_init" /\ kernel_main[14] = "sched_ready"
  /\ kernel_main[15] = "enable_aux" /\ kernel_main[16] = "enable_core_timer"
  /\ kernel_main[17] = "enable_irq"
  BY DEF kernel_main

LEMMA SecondaryText ==
  /\ Len(secondary_start) = 11 /\ DOMAIN secondary_start = 1..11
  /\ secondary_start[1] = "wfe" /\ secondary_start[2] = "load_flag"
  /\ secondary_start[3] = "mmu" /\ secondary_start[4] = "irq_vector_init"
  /\ secondary_start[5] = "await_uart_ready" /\ secondary_start[6] = "await_sched_ready"
  /\ secondary_start[7] = "sched_init" /\ secondary_start[8] = "timer_on"
  /\ secondary_start[9] = "register_local" /\ secondary_start[10] = "enable_core_timer"
  /\ secondary_start[11] = "enable_irq"
  BY DEF secondary_start

\* Where a step stands that stands nowhere else.
LEMMA PlaceIs ==
  ASSUME NEW code, NEW k \in DOMAIN code, \A i \in DOMAIN code : code[i] = code[k] => i = k
  PROVE  Place(code)[code[k]] = k
<1>1. code[k] \in Range(code)
  BY DEF Range
<1>2. Place(code)[code[k]] = CHOOSE i \in DOMAIN code : code[i] = code[k]
  BY <1>1 DEF Place
<1> QED
  BY <1>2

LEMMA MainPlaces ==
  /\ MainPlace["memzero"] = 1 /\ MainPlace["create_page_tables"] = 2
  /\ MainPlace["boot_flag"] = 3 /\ MainPlace["mmu"] = 5
  /\ MainPlace["uart_init_gpio"] = 6 /\ MainPlace["sem_init"] = 7
  /\ MainPlace["uart_ready"] = 9 /\ MainPlace["irq_vector_init"] = 10
  /\ MainPlace["timer_on"] = 11 /\ MainPlace["sched_init"] = 13
  /\ MainPlace["sched_ready"] = 14 /\ MainPlace["enable_irq"] = 17
<1>1. \A i, k \in 1..17 : kernel_main[i] = kernel_main[k] => i = k
  BY MainText
<1>2. \A k \in 1..17 : MainPlace[kernel_main[k]] = k
  BY <1>1, MainText, PlaceIs DEF MainPlace
<1> QED
  BY <1>2, MainText

LEMMA SecondaryPlaces ==
  /\ SecondaryPlace["mmu"] = 3 /\ SecondaryPlace["irq_vector_init"] = 4
  /\ SecondaryPlace["sched_init"] = 7 /\ SecondaryPlace["timer_on"] = 8
  /\ SecondaryPlace["enable_irq"] = 11
<1>1. \A i, k \in 1..11 : secondary_start[i] = secondary_start[k] => i = k
  BY SecondaryText
<1>2. \A k \in 1..11 : SecondaryPlace[secondary_start[k]] = k
  BY <1>1, SecondaryText, PlaceIs DEF SecondaryPlace
<1> QED
  BY <1>2, SecondaryText

-----------------------------------------------------------------------------
(* The invariant.                                                          *)

Main == pc[BootCore]

Entries == [bit : {None, "timer", "aux"}, handler : {None, "timer", "aux"}]
Tables == [{"local", "gpu"} -> [0..TableMax-1 -> Entries]]

\* A secondary core is past a spin only if the boot core has ended it.
InOrder ==
  \A c \in Core \ {BootCore} :
    /\ pc[c] >= 2 => Main >= 3
    /\ pc[c] >= 5 => Main >= 9
    /\ pc[c] >= 6 => Main >= 14

OnlyTimersLocal == \A i \in 0..TableMax-1 : table["local"][i].handler # "aux"

\* The boot core's registration of t, its k-th step, is to come, under way or
\* done, when all others find the bit.
Entered(t) == count[t] = 1 /\ table[t][0] = [bit |-> Bit[t], handler |-> Bit[t]]
Halfway(t) ==
  /\ count[t] = IF "count" \in todo THEN 0 ELSE 1
  /\ "bit" \notin todo => table[t][0].bit = Bit[t]
  /\ "handler" \notin todo => table[t][0].handler = Bit[t]
Registered(t, k) ==
  /\ Main < k - 1 => count[t] = 0
  /\ Main = k - 1 => IF reg_lock = BootCore THEN Halfway(t) ELSE count[t] = 0
  /\ Main >= k => Entered(t)
Registration ==
  /\ Registered("gpu", 8) /\ Registered("local", 12)
  /\ reg_lock = BootCore => Main \in {7, 11}
  /\ todo # {} => reg_lock = BootCore

StartTypeOK ==
  /\ pc \in [Core -> Nat] /\ \A c \in Core : pc[c] <= Len(Code(c))
  /\ todo \subseteq {"count", "bit", "handler"}
  /\ count \in [{"local", "gpu"} -> 0..TableMax]
  /\ table \in Tables

StartInv == StartTypeOK /\ InOrder /\ OnlyTimersLocal /\ Registration

Loops == [table : {"local", "gpu"}, src : SUBSET {"timer", "gpu", "aux"}, i : Nat]

ThreadTypeOK ==
  /\ masked \in [Core -> BOOLEAN]
  /\ thread \in [Core -> Thread]
  /\ life \in [Task -> {"new", "live", "gone"}]
  /\ depth \in [Thread -> 0..MaxNest]
  /\ dispatch \in [Handler -> Loops \cup {None}]

\* A core that takes interrupts is up, a core that is not up executes its own
\* start-up code, and no two cores execute one thread.
ThreadPlace ==
  \A c \in Core :
    /\ ~masked[c] => Up(c)
    /\ thread[c] # c => thread[c] \in Task /\ life[thread[c]] = "live" /\ Up(c)
    /\ \A d \in Core : thread[d] = thread[c] => d = c

\* A thread is inside handle_irq() only on a core that is up, or as a task that
\* kernel_main() has created and that has not ended.
InsidePlace ==
  /\ \A c \in Core : depth[c] > 0 => Up(c)
  /\ \A t \in Task : depth[t] > 0 => life[t] = "live"
  /\ \A t \in Task : life[t] # "new" => Up(BootCore)
  /\ \A t \in Thread, n \in 1..MaxNest : n <= depth[t] => dispatch[<<t, n>>] \in Loops

ThreadInv == ThreadTypeOK /\ ThreadPlace /\ InsidePlace

\* The UART's handler runs in a handle_irq() that reads the GPU table, on
\* whatever core that has come to.
HandlerPlace ==
  \A t \in Thread, n \in 1..MaxNest :
    irq[<<t, n>>] # "idle" => n <= depth[t] /\ dispatch[<<t, n>>].table = "gpu"

\* Until the semaphore is initialised nobody uses it.
NotYetRead ==
  Main < 7 => (\A h \in Handler : irq[h] = "idle") /\ con = "wait" /\ q = <<>>

BootInv == UartInv /\ StartInv /\ ThreadInv /\ HandlerPlace /\ NotYetRead

LEMMA CodeLength ==
  ASSUME NEW c \in Core
  PROVE  /\ c = BootCore => Code(c) = kernel_main /\ Len(Code(c)) = 17
         /\ c # BootCore => Code(c) = secondary_start /\ Len(Code(c)) = 11
<1>1. Len(kernel_main) = 17 /\ Len(secondary_start) = 11
  BY MainText, SecondaryText
<1> QED
  BY <1>1 DEF Code

LEMMA InitKeeps == Init => BootInv
<1> SUFFICES ASSUME Init PROVE BootInv
  OBVIOUS
<1> USE BootAssumption, UartAssumption DEF Init
<1>1. UartInv
  <2>1. UartTypeOK
    BY DEF UartInit, UartTypeOK, HandlerStates
  <2>2. Signalling = {}
    BY DEF UartInit, Signalling
  <2>3. InFlight = 0
    BY <2>2, FS_EmptySet DEF InFlight
  <2> QED
    BY <2>1, <2>3 DEF UartInit, UartInv, TokenPerByte, InHand, SequenceSoFar
<1>2. StartTypeOK
  <2>1. \A c \in Core : pc[c] <= Len(Code(c))
    BY CodeLength
  <2> QED
    BY <2>1 DEF StartTypeOK, NoEntry, Tables, Entries
<1>3. InOrder /\ OnlyTimersLocal
  BY DEF InOrder, OnlyTimersLocal, NoEntry
<1>4. Registration
  <2>1. Main = 0 /\ reg_lock = None /\ BootCore # None /\ todo = {}
    BY DEF Main, Thread
  <2>2. count["gpu"] = 0 /\ count["local"] = 0
    OBVIOUS
  <2>3. Registered("gpu", 8) /\ Registered("local", 12)
    BY <2>1, <2>2 DEF Registered
  <2> QED
    BY <2>1, <2>3 DEF Registration
<1>5. ThreadTypeOK
  BY DEF ThreadTypeOK, Thread
<1>6. ThreadPlace
  BY DEF ThreadPlace
<1>7. InsidePlace
  <2>1. \A t \in Thread : depth[t] = 0
    OBVIOUS
  <2>2. \A t \in Task : life[t] = "new"
    OBVIOUS
  <2> QED
    BY <2>1, <2>2 DEF InsidePlace, Thread
<1>8. HandlerPlace
  BY DEF HandlerPlace, UartInit
<1>9. NotYetRead
  BY DEF NotYetRead, UartInit
<1> QED
  BY <1>1, <1>2, <1>3, <1>4, <1>5, <1>6, <1>7, <1>8, <1>9 DEF BootInv, StartInv, ThreadInv

-----------------------------------------------------------------------------
(* What the parts of the invariant say of where a core is.                 *)

LEMMA UpPlace ==
  ASSUME StartInv, NEW c \in Core, Up(c)
  PROVE  Main >= 14 /\ Main \in Nat /\ (c = BootCore => Main = 17)
<1>1. Main \in Nat /\ pc[c] = Len(Code(c))
  BY BootAssumption DEF StartInv, StartTypeOK, Main, Up
<1>2. CASE c = BootCore
  <2>1. pc[c] = 17
    BY <1>1, <1>2, CodeLength
  <2> QED
    BY <1>1, <1>2, <2>1 DEF Main
<1>3. CASE c # BootCore
  <2>1. pc[c] = 11
    BY <1>1, <1>3, CodeLength
  <2> QED
    BY <1>1, <1>3, <2>1 DEF StartInv, InOrder
<1> QED
  BY <1>2, <1>3

\* The thread that a core executes, and how deep it is in handle_irq().
LEMMA ThreadIs ==
  ASSUME ThreadInv, NEW c \in Core
  PROVE  /\ thread[c] \in Thread /\ depth[thread[c]] \in 0..MaxNest
         /\ InIrq(c) \/ thread[c] # c \/ ~masked[c] => Up(c)
         /\ thread[c] \in Core => thread[c] = c
<1>1. thread[c] \in Thread /\ depth[thread[c]] \in 0..MaxNest
  BY DEF ThreadInv, ThreadTypeOK
<1>2. thread[c] # c \/ ~masked[c] => Up(c)
  BY DEF ThreadInv, ThreadPlace
<1>3. InIrq(c) /\ thread[c] = c => Up(c)
  BY <1>1, BootAssumption DEF InIrq, ThreadInv, InsidePlace
<1>4. thread[c] \in Core => thread[c] = c
  BY BootAssumption DEF ThreadInv, ThreadPlace
<1> QED
  BY <1>1, <1>2, <1>3, <1>4

\* The handle_irq() that a core executes.
LEMMA InnermostIs ==
  ASSUME ThreadInv, NEW c \in Core, InIrq(c)
  PROVE  /\ Up(c) /\ depth[thread[c]] \in 1..MaxNest
         /\ Innermost(c) = <<thread[c], depth[thread[c]]>> /\ Innermost(c) \in Handler
         /\ dispatch[Innermost(c)] \in Loops
<1>1. thread[c] \in Thread /\ depth[thread[c]] \in 1..MaxNest /\ Up(c)
  BY ThreadIs, BootAssumption DEF InIrq
<1>2. Innermost(c) = <<thread[c], depth[thread[c]]>> /\ Innermost(c) \in Handler
  BY <1>1, BootAssumption DEF Innermost
<1>3. dispatch[<<thread[c], depth[thread[c]]>>] \in Loops
  BY <1>1 DEF ThreadInv, InsidePlace
<1>4. dispatch[Innermost(c)] \in Loops
  BY <1>2, <1>3
<1> QED
  BY <1>1, <1>2, <1>4

LEMMA AtPlace ==
  ASSUME StartInv, NEW c \in Core, NEW S, AtOneOf(c, S)
  PROVE  /\ ~Up(c) /\ thread[c] = c
         /\ c = BootCore => pc[c] \in 0..16 /\ kernel_main[pc[c] + 1] \in S
         /\ c # BootCore => pc[c] \in 0..10 /\ secondary_start[pc[c] + 1] \in S
<1>1. /\ pc[c] \in Nat /\ pc[c] <= Len(Code(c)) /\ pc[c] # Len(Code(c))
      /\ Code(c)[pc[c] + 1] \in S /\ ~Up(c) /\ thread[c] = c
  BY DEF StartInv, StartTypeOK, AtOneOf, Up
<1>2. CASE c = BootCore
  <2>1. Code(c) = kernel_main /\ Len(Code(c)) = 17
    BY <1>2, CodeLength
  <2> QED
    BY <1>1, <1>2, <2>1
<1>3. CASE c # BootCore
  <2>1. Code(c) = secondary_start /\ Len(Code(c)) = 11
    BY <1>3, CodeLength
  <2> QED
    BY <1>1, <1>3, <2>1
<1> QED
  BY <1>2, <1>3

-----------------------------------------------------------------------------
(* What stays when its variables do.                                       *)

LEMMA StartStays ==
  ASSUME StartInv, UNCHANGED <<pc, reg_lock, todo, count, table>>
  PROVE  StartInv'
  BY DEF StartInv, StartTypeOK, InOrder, OnlyTimersLocal,
       Registration, Registered, Entered, Halfway, Main, Code

\* The start-up code of core c goes on; no core that is up is down again.
LEMMA ThreadStays ==
  ASSUME ThreadInv, NEW c \in Core, ~Up(c), \A d \in Core : Up(d) => Up(d)',
         \/ masked' = masked
         \/ masked' = [masked EXCEPT ![c] = FALSE] /\ Up(c)',
         UNCHANGED <<thread, life, depth, dispatch>>
  PROVE  ThreadInv'
<1>1. ThreadTypeOK'
  BY DEF ThreadInv, ThreadTypeOK
<1>2. \A d \in Core : ~masked'[d] => Up(d)'
  BY DEF ThreadInv, ThreadTypeOK, ThreadPlace
<1>3. ThreadPlace'
  BY <1>2 DEF ThreadInv, ThreadPlace
<1>4. InsidePlace'
  BY BootAssumption DEF ThreadInv, InsidePlace
<1> QED
  BY <1>1, <1>3, <1>4 DEF ThreadInv

LEMMA HandlerStays ==
  ASSUME HandlerPlace, UNCHANGED <<irq, depth, dispatch>>
  PROVE  HandlerPlace'
  BY DEF HandlerPlace

LEMMA ReadStays ==
  ASSUME NotYetRead, Main \in Nat, Main' >= Main, UNCHANGED <<irq, con, q>>,
         Main' \in Nat
  PROVE  NotYetRead'
  BY DEF NotYetRead

-----------------------------------------------------------------------------
(* The steps of the start-up code that register nothing.                   *)

\* What they all do: the core goes on to n, past no spin before its time.
GoesOn(c, n) ==
  /\ ~Up(c)
  /\ pc' = [pc EXCEPT ![c] = n]
  /\ c = BootCore => pc[c] \in 0..16 /\ pc[c] \notin {7, 11} /\ n = pc[c] + 1
  /\ c # BootCore =>
       /\ n \in 0..11
       /\ n >= 2 => pc[c] >= 2 \/ Main >= 3
       /\ n >= 5 => pc[c] >= 5 \/ Main >= 9
       /\ n >= 6 => pc[c] >= 6 \/ Main >= 14
  /\ UNCHANGED <<reg_lock, todo, count, table>>

LEMMA GoesOnKeeps ==
  ASSUME StartInv, NEW c \in Core, NEW n, GoesOn(c, n)
  PROVE  /\ StartInv' /\ Main \in Nat /\ Main' \in Nat /\ Main' >= Main
         /\ \A d \in Core : Up(d) => Up(d)'
<1> USE BootAssumption DEF StartInv, GoesOn, Main
<1>0. /\ c # BootCore => Main' = Main
      /\ c = BootCore => Main' = Main + 1 /\ Main \in Nat
      /\ \A d \in Core : d # c => pc'[d] = pc[d]
      /\ pc'[c] = n /\ Main \in Nat
  BY DEF StartTypeOK
<1>1. StartTypeOK'
  <2>1. n \in Nat /\ n <= Len(Code(c))
    <3>1. CASE c = BootCore
      <4>1. Len(Code(c)) = 17
        BY <3>1, CodeLength
      <4>2. n \in 1..17
        BY <3>1
      <4> QED
        BY <4>1, <4>2
    <3>2. CASE c # BootCore
      <4>1. Len(Code(c)) = 11
        BY <3>2, CodeLength
      <4>2. n \in 0..11
        BY <3>2
      <4> QED
        BY <4>1, <4>2
    <3> QED
      BY <3>1, <3>2
  <2> QED
    BY <2>1, <1>0 DEF StartTypeOK, Code
<1>2. InOrder'
  <2>1. CASE c = BootCore
    BY <1>0, <2>1 DEF InOrder, StartTypeOK
  <2>2. CASE c # BootCore
    BY <1>0, <2>2 DEF InOrder, StartTypeOK
  <2> QED
    BY <2>1, <2>2
<1>3. \A d \in Core : Up(d) => Up(d)'
  BY <1>0 DEF Up, Code
<1>4. OnlyTimersLocal'
  BY DEF OnlyTimersLocal
<1>5. Registration'
  <2>1. CASE c = BootCore
    <3>1. Main' = Main + 1 /\ Main \in Nat /\ Main \notin {7, 11} /\ reg_lock # BootCore
      BY <1>0, <2>1 DEF Registration
    <3>2. Registered("gpu", 8)' /\ Registered("local", 12)'
      BY <3>1 DEF Registration, Registered, Entered
    <3> QED
      BY <3>1, <3>2 DEF Registration
  <2>2. CASE c # BootCore
    BY <1>0, <2>2 DEF Registration, Registered, Entered, Halfway
  <2> QED
    BY <2>1, <2>2
<1> QED
  BY <1>0, <1>1, <1>2, <1>3, <1>4, <1>5

LEMMA PlainGoesOn ==
  ASSUME StartInv, NEW c \in Core,
         \/ plain_step(c) \/ enable_irq(c) \/ sev(c) \/ wfe(c)
           \/ load_flag(c) \/ await(c) \/ uart_init(c)
  PROVE  \E n : GoesOn(c, n)
<1> USE BootAssumption DEF StartInv, GoesOn, Main, Advance, At
<1>1. CASE plain_step(c)
  <2>1. /\ ~Up(c)
        /\ c = BootCore => pc[c] \in {0, 1, 2, 4, 8, 9, 10, 12, 13, 14, 15}
        /\ c # BootCore => pc[c] \in {2, 3, 6, 7, 9}
    BY <1>1, AtPlace, MainText, SecondaryText DEF plain_step
  <2>2. GoesOn(c, pc[c] + 1)
    BY <1>1, <2>1 DEF plain_step
  <2> QED
    BY <2>2
<1>2. CASE sev(c)
  <2>1. ~Up(c) /\ c = BootCore /\ pc[c] = 3
    BY <1>2, AtPlace, MainText, SecondaryText DEF sev
  <2>2. GoesOn(c, pc[c] + 1)
    BY <1>2, <2>1 DEF sev
  <2> QED
    BY <2>2
<1>3. CASE wfe(c)
  <2>1. ~Up(c) /\ c # BootCore /\ pc[c] = 0
    BY <1>3, AtPlace, MainText, SecondaryText DEF wfe
  <2>2. GoesOn(c, pc[c] + 1)
    BY <1>3, <2>1 DEF wfe
  <2> QED
    BY <2>2
<1>4. CASE load_flag(c)
  <2>1. ~Up(c) /\ c # BootCore /\ pc[c] = 1
    BY <1>4, AtPlace, MainText, SecondaryText DEF load_flag
  <2>2. Done(BootCore, "boot_flag") <=> Main >= 3
    BY MainPlaces DEF Done
  <2>3. GoesOn(c, IF Done(BootCore, "boot_flag") THEN 2 ELSE 0)
    BY <1>4, <2>1, <2>2 DEF load_flag
  <2> QED
    BY <2>3
<1>5. CASE await(c)
  <2>1. /\ ~Up(c) /\ c # BootCore
        /\ \/ pc[c] = 4 /\ Done(BootCore, "uart_ready")
           \/ pc[c] = 5 /\ Done(BootCore, "sched_ready")
    BY <1>5, AtPlace, MainText, SecondaryText DEF await
  <2>2. /\ Done(BootCore, "uart_ready") <=> Main >= 9
        /\ Done(BootCore, "sched_ready") <=> Main >= 14
    BY MainPlaces DEF Done
  <2>3. GoesOn(c, pc[c] + 1)
    BY <1>5, <2>1, <2>2 DEF await
  <2> QED
    BY <2>3
<1>6. CASE uart_init(c)
  <2>1. ~Up(c) /\ c = BootCore /\ pc[c] \in {5, 6}
    <3>1. CASE At(c, "uart_init_gpio")
      BY <3>1, AtPlace, MainText, SecondaryText
    <3>2. CASE At(c, "sem_init")
      BY <3>2, AtPlace, MainText, SecondaryText
    <3> QED
      BY <1>6, <3>1, <3>2 DEF uart_init
  <2>2. GoesOn(c, pc[c] + 1)
    BY <1>6, <2>1 DEF uart_init
  <2> QED
    BY <2>2
<1>7. CASE enable_irq(c)
  <2>1. ~Up(c) /\ (c = BootCore => pc[c] = 16) /\ (c # BootCore => pc[c] = 10)
    BY <1>7, AtPlace, MainText, SecondaryText DEF enable_irq
  <2>2. GoesOn(c, pc[c] + 1)
    BY <1>7, <2>1 DEF enable_irq
  <2> QED
    BY <2>2
<1> QED
  BY <1>1, <1>2, <1>3, <1>4, <1>5, <1>6, <1>7

\* A core that has enabled its interrupts is up.
LEMMA EnablesWhenUp ==
  ASSUME StartInv, NEW c \in Core, enable_irq(c)
  PROVE  Up(c)'
<1>1. c = BootCore => pc[c] = 16
  BY AtPlace, MainText DEF enable_irq, At
<1>2. c # BootCore => pc[c] = 10
  BY AtPlace, SecondaryText DEF enable_irq, At
<1>3. pc'[c] = pc[c] + 1
  BY DEF enable_irq, Advance, StartInv, StartTypeOK
<1>4. (c = BootCore => Len(Code(c)) = 17) /\ (c # BootCore => Len(Code(c)) = 11)
  BY CodeLength
<1>5. pc'[c] = Len(Code(c))
  <2>1. CASE c = BootCore
    BY <1>1, <1>3, <1>4, <2>1
  <2>2. CASE c # BootCore
    BY <1>2, <1>3, <1>4, <2>2
  <2> QED
    BY <2>1, <2>2
<1> QED
  BY <1>5 DEF Up, Code

LEMMA PlainKeeps ==
  ASSUME BootInv, NEW c \in Core,
         \/ plain_step(c) \/ enable_irq(c) \/ sev(c) \/ wfe(c)
           \/ load_flag(c) \/ await(c) \/ uart_init(c)
  PROVE  BootInv'
<1>1. PICK n : GoesOn(c, n)
  BY PlainGoesOn DEF BootInv
<1>2. /\ StartInv' /\ Main \in Nat /\ Main' \in Nat /\ Main' >= Main
      /\ \A d \in Core : Up(d) => Up(d)'
  BY <1>1, GoesOnKeeps DEF BootInv
<1>3. UNCHANGED <<irq, con, q, thread, life, depth, dispatch>>
  BY DEF plain_step, enable_irq, sev, wfe, load_flag, await, uart_init,
       uart_vars, handler_vars, console_vars, thread_vars
<1>4. masked' = masked \/ (masked' = [masked EXCEPT ![c] = FALSE] /\ Up(c)')
  <2>1. CASE enable_irq(c)
    BY <2>1, EnablesWhenUp DEF enable_irq, BootInv
  <2>2. CASE ~enable_irq(c)
    BY <2>2 DEF plain_step, sev, wfe, load_flag, await, uart_init, thread_vars
  <2> QED
    BY <2>1, <2>2
<1>5. ThreadInv'
  BY <1>1, <1>2, <1>3, <1>4, ThreadStays DEF BootInv, GoesOn
<1>6. HandlerPlace' /\ NotYetRead'
  BY <1>2, <1>3, HandlerStays, ReadStays DEF BootInv
<1>7. UartInv'
  <2>1. CASE ~uart_init(c)
    <3>1. UNCHANGED uart_vars
      BY <2>1 DEF plain_step, enable_irq, sev, wfe, load_flag, await
    <3> QED
      BY <3>1, UartStays DEF BootInv
  <2>2. CASE At(c, "uart_init_gpio") /\ hw' = <<>> /\ uart_init(c) /\ UNCHANGED sem
    <3>1. UNCHANGED <<irq, in, q, sem, con, seq1, seq2>> /\ hw' = <<>>
      BY <2>2 DEF uart_init, console_vars
    <3> QED
      BY <3>1, InFlightStays DEF BootInv, UartInv, UartTypeOK, SequenceSoFar, TokenPerByte, InHand
  <2>3. CASE At(c, "sem_init") /\ sem' = 0 /\ uart_init(c) /\ UNCHANGED hw
    <3>1. UNCHANGED <<hw, irq, in, q, con, seq1, seq2>> /\ sem' = 0
      BY <2>3 DEF uart_init, console_vars
    <3>2. c = BootCore /\ pc[c] = 6
      BY <2>3, AtPlace, MainText, SecondaryText DEF At, BootInv
    <3>3. (\A h \in Handler : irq[h] = "idle") /\ con = "wait" /\ q = <<>>
      BY <3>2 DEF BootInv, NotYetRead, Main
    <3>4. Signalling = {}
      BY <3>3 DEF Signalling
    <3>5. InFlight' = 0
      BY <3>1, <3>4, InFlightStays, FS_EmptySet DEF InFlight
    <3> QED
      BY <3>1, <3>3, <3>5 DEF BootInv, UartInv, UartTypeOK, SequenceSoFar, TokenPerByte, InHand
  <2> QED
    BY <2>1, <2>2, <2>3 DEF uart_init
<1> QED
  BY <1>2, <1>5, <1>6, <1>7 DEF BootInv

-----------------------------------------------------------------------------
(* The registrations.                                                      *)

\* Only the boot core registers the UART; the others come when the timer is in
\* the table.
LEMMA RegisterPlace ==
  ASSUME StartInv, NEW c \in Core, NEW t \in {"local", "gpu"}, Registers(c, t)
  PROVE  /\ ~Up(c)
         /\ c = BootCore => pc[c] = IF t = "local" THEN 11 ELSE 7
         /\ c # BootCore => t = "local" /\ pc[c] = 8 /\ Main >= 14 /\ Entered("local")
<1>1. CASE t = "local"
  <2>1. /\ ~Up(c)
        /\ c = BootCore => pc[c] = 11
        /\ c # BootCore => pc[c] = 8
    BY <1>1, AtPlace, MainText, SecondaryText DEF Registers, At, StartInv
  <2>2. c # BootCore => Main >= 14
    BY <2>1 DEF StartInv, InOrder
  <2>3. c # BootCore => Entered("local")
    BY <2>2, BootAssumption DEF StartInv, Registration, Registered, StartTypeOK, Main
  <2> QED
    BY <1>1, <2>1, <2>2, <2>3
<1>2. CASE t = "gpu"
  BY <1>2, AtPlace, MainText, SecondaryText DEF Registers, At, StartInv
<1> QED
  BY <1>1, <1>2

\* Core c is still in its start-up code, and nobody falls back.
GoesBy(c) ==
  /\ ~Up(c)
  /\ \A d \in Core : Up(d) => Up(d)'
  /\ Main \in Nat /\ Main' \in Nat /\ Main' >= Main

LEMMA LockKeeps ==
  ASSUME StartInv, NEW c \in Core, NEW t \in {"local", "gpu"}, register_lock(c, t)
  PROVE  StartInv' /\ GoesBy(c)
<1> USE BootAssumption DEF StartInv, register_lock
<1>0. UNCHANGED <<pc, count, table>> /\ reg_lock = None /\ reg_lock' = c
  OBVIOUS
<1>1. GoesBy(c)
  <2>1. ~Up(c)
    BY RegisterPlace
  <2> QED
    BY <1>0, <2>1 DEF GoesBy, StartTypeOK, Main, Up, Code
<1>2. StartTypeOK'
  BY <1>0 DEF StartTypeOK
<1>3. InOrder' /\ OnlyTimersLocal'
  BY <1>0 DEF InOrder, OnlyTimersLocal, Main
<1>4. Registration'
  <2>1. CASE c = BootCore
    <3>1. Main = IF t = "local" THEN 11 ELSE 7
      BY <2>1, RegisterPlace DEF Main
    <3>2. count[t] = 0
      BY <3>1, <1>0 DEF Registration, Registered, Thread
    <3>3. todo' = {"count", "bit", "handler"}
      BY <3>2
    <3> QED
      BY <1>0, <2>1, <3>1, <3>2, <3>3 DEF Registration, Registered, Entered, Halfway, Main
  <2>2. CASE c # BootCore
    <3>1. t = "local" /\ Main >= 14 /\ Entered("local")
      BY <2>2, RegisterPlace
    <3>2. todo' = {}
      BY <3>1 DEF Entered
    <3>3. Main \in Nat
      BY DEF StartTypeOK, Main
    <3> QED
      BY <1>0, <2>2, <3>1, <3>2, <3>3 DEF Registration, Registered, Entered, Main
  <2> QED
    BY <2>1, <2>2
<1> QED
  BY <1>1, <1>2, <1>3, <1>4

\* Storing v in the field f of the first entry of t.
LEMMA StoreInTable ==
  ASSUME table \in Tables, NEW t \in {"local", "gpu"}, NEW f \in {"bit", "handler"},
         NEW v, v \in {"timer", "aux"}, table' = [table EXCEPT ![t][0][f] = v]
  PROVE  /\ table' \in Tables
         /\ \A u \in {"local", "gpu"} : u # t => table'[u] = table[u]
         /\ \A i \in 0..TableMax-1 : i # 0 => table'[t][i] = table[t][i]
         /\ \A g \in {"bit", "handler"} : table'[t][0][g] = IF g = f THEN v ELSE table[t][0][g]
<1> DEFINE E == [table[t][0] EXCEPT ![f] = v]
           R == [table[t] EXCEPT ![0] = E]
<1>1. table[t] \in [0..TableMax-1 -> Entries] /\ 0 \in 0..TableMax-1
  <2>1. TableMax \in Nat \ {0}
    BY BootAssumption
  <2> QED
    BY <2>1 DEF Tables
<1>2. table[t][0] \in Entries
  BY <1>1
<1>3. E \in Entries /\ \A g \in {"bit", "handler"} : E[g] = IF g = f THEN v ELSE table[t][0][g]
  <2>1. CASE f = "bit"
    BY <1>2, <2>1 DEF Entries
  <2>2. CASE f = "handler"
    BY <1>2, <2>2 DEF Entries
  <2> QED
    BY <2>1, <2>2
<1> HIDE DEF E
<1>4. /\ R \in [0..TableMax-1 -> Entries] /\ R[0] = E
      /\ \A i \in 0..TableMax-1 : i # 0 => R[i] = table[t][i]
  BY <1>1, <1>3
<1>5. table' = [table EXCEPT ![t] = R]
  BY DEF E
<1> HIDE DEF R
<1>6. table' \in Tables /\ table'[t] = R /\ \A u \in {"local", "gpu"} : u # t => table'[u] = table[u]
  BY <1>4, <1>5 DEF Tables
<1> QED
  BY <1>3, <1>4, <1>6

LEMMA StoreKeeps ==
  ASSUME StartInv, NEW c \in Core, NEW t \in {"local", "gpu"},
         NEW f \in {"count", "bit", "handler"}, register_store(c, t, f)
  PROVE  StartInv' /\ GoesBy(c)
<1> USE BootAssumption DEF StartInv
<1>0. /\ UNCHANGED <<pc, reg_lock>>
      /\ reg_lock = c /\ f \in todo /\ todo' = todo \ {f} /\ c = BootCore /\ ~Up(c)
      /\ Main = IF t = "local" THEN 11 ELSE 7
  <2>1. /\ UNCHANGED <<pc, reg_lock>>
        /\ reg_lock = c /\ f \in todo /\ todo' = todo \ {f} /\ Registers(c, t)
    BY DEF register_store
  <2>2. c = BootCore
    BY <2>1 DEF Registration
  <2> QED
    BY <2>1, <2>2, RegisterPlace DEF Main
<1>1. GoesBy(c)
  BY <1>0 DEF GoesBy, StartTypeOK, Main, Up, Code
<1>2. InOrder'
  BY <1>0 DEF InOrder, Main
<1>3. Halfway(t)
  BY <1>0 DEF Registration, Registered
<1>4. CASE f = "count"
  <2>1. count' = [count EXCEPT ![t] = 1] /\ UNCHANGED table
    BY <1>0, <1>3, <1>4 DEF register_store, Halfway, StartTypeOK
  <2>2. StartTypeOK'
    <3>1. 1 \in 0..TableMax
      OBVIOUS
    <3>2. count' \in [{"local", "gpu"} -> 0..TableMax]
      BY <2>1, <3>1 DEF StartTypeOK
    <3> QED
      BY <1>0, <2>1, <3>2 DEF StartTypeOK
  <2>3. OnlyTimersLocal'
    BY <2>1 DEF OnlyTimersLocal
  <2>4. Halfway(t)'
    BY <1>0, <1>3, <1>4, <2>1 DEF Halfway, StartTypeOK
  <2>5. Registration'
    BY <1>0, <2>1, <2>4 DEF Registration, Registered, Entered, Main, StartTypeOK
  <2> QED
    BY <1>1, <1>2, <2>2, <2>3, <2>5
<1>5. CASE f # "count"
  <2>1. table' = [table EXCEPT ![t][0][f] = Bit[t]] /\ UNCHANGED count
    BY <1>0, <1>3, <1>5 DEF register_store, Halfway
  <2>6. Bit[t] = IF t = "local" THEN "timer" ELSE "aux"
    BY DEF Bit
  <2>7. /\ table' \in Tables
        /\ \A u \in {"local", "gpu"} : u # t => table'[u] = table[u]
        /\ \A i \in 0..TableMax-1 : i # 0 => table'[t][i] = table[t][i]
        /\ \A g \in {"bit", "handler"} :
             table'[t][0][g] = IF g = f THEN Bit[t] ELSE table[t][0][g]
    <3>1. table \in Tables /\ f \in {"bit", "handler"}
      BY <1>5 DEF StartTypeOK
    <3>2. Bit[t] \in {"timer", "aux"}
      BY <2>6
    <3>3. table' = [table EXCEPT ![t][0][f] = Bit[t]]
      BY <2>1
    <3> HIDE DEF StartInv
    <3> QED
      BY ONLY <3>1, <3>2, <3>3, StoreInTable, t \in {"local", "gpu"}
  <2>2. StartTypeOK'
    BY <1>0, <2>1, <2>7 DEF StartTypeOK
  <2>3. OnlyTimersLocal'
    BY <2>6, <2>7 DEF OnlyTimersLocal
  <2>4. Halfway(t)'
    BY <1>0, <1>3, <1>5, <2>1, <2>7 DEF Halfway
  <2>5. Registration'
    BY <1>0, <2>1, <2>4, <2>7 DEF Registration, Registered, Entered, Main, StartTypeOK
  <2> QED
    BY <1>1, <1>2, <2>2, <2>3, <2>5
<1> QED
  BY <1>4, <1>5

LEMMA UnlockKeeps ==
  ASSUME StartInv, NEW c \in Core, NEW t \in {"local", "gpu"}, register_unlock(c, t)
  PROVE  StartInv' /\ GoesBy(c)
<1> USE BootAssumption DEF StartInv
<1>0. /\ UNCHANGED <<todo, count, table>> /\ Registers(c, t)
      /\ reg_lock = c /\ todo = {} /\ reg_lock' = None /\ pc' = [pc EXCEPT ![c] = @ + 1]
  BY DEF register_unlock, Advance
<1>1. /\ pc[c] \in Nat /\ pc'[c] = pc[c] + 1 /\ \A d \in Core : d # c => pc'[d] = pc[d]
      /\ Main \in Nat /\ ~Up(c) /\ None # BootCore
      /\ c = BootCore => Main' = Main + 1 /\ Main = IF t = "local" THEN 11 ELSE 7
      /\ c # BootCore => Main' = Main /\ Main >= 14 /\ pc[c] = 8
  BY <1>0, RegisterPlace DEF StartTypeOK, Main, Thread
<1>2. GoesBy(c)
  BY <1>1 DEF GoesBy, Up, Code
<1>3. StartTypeOK'
  <2>1. CASE c = BootCore
    <3>1. Len(Code(c)) = 17
      BY <2>1, CodeLength
    <3>2. pc[c] + 1 \in 0..17
      BY <1>1, <2>1 DEF Main
    <3>3. pc[c] + 1 <= Len(Code(c))
      BY <3>1, <3>2
    <3> QED
      BY <1>0, <1>1, <3>3 DEF StartTypeOK, Code
  <2>2. CASE c # BootCore
    <3>1. Len(Code(c)) = 11
      BY <2>2, CodeLength
    <3>2. pc[c] + 1 \in 0..11
      BY <1>1, <2>2 DEF Main
    <3>3. pc[c] + 1 <= Len(Code(c))
      BY <3>1, <3>2
    <3> QED
      BY <1>0, <1>1, <3>3 DEF StartTypeOK, Code
  <2> QED
    BY <2>1, <2>2
<1>4. InOrder'
  <2>1. CASE c = BootCore
    BY <1>1, <2>1 DEF InOrder, StartTypeOK
  <2>2. CASE c # BootCore
    BY <1>1, <2>2 DEF InOrder
  <2> QED
    BY <2>1, <2>2
<1>5. OnlyTimersLocal'
  BY <1>0 DEF OnlyTimersLocal
<1>6. Registration'
  <2>1. CASE c = BootCore
    <3>1. Halfway(t)
      BY <1>0, <1>1, <2>1 DEF Registration, Registered
    <3>2. Entered(t)
      <4>1. table[t][0] \in Entries
        <5>1. table \in Tables /\ 0 \in 0..TableMax-1
          BY DEF StartTypeOK
        <5> QED
          BY <5>1 DEF Tables
      <4>2. count[t] = 1 /\ table[t][0].bit = Bit[t] /\ table[t][0].handler = Bit[t]
        BY <1>0, <3>1 DEF Halfway
      <4> QED
        BY <4>1, <4>2 DEF Entered, Entries
    <3> QED
      BY <1>0, <1>1, <2>1, <3>2 DEF Registration, Registered, Entered
  <2>2. CASE c # BootCore
    BY <1>0, <1>1, <2>2 DEF Registration, Registered, Entered
  <2> QED
    BY <2>1, <2>2
<1> QED
  BY <1>2, <1>3, <1>4, <1>5, <1>6

LEMMA RegisterKeeps ==
  ASSUME BootInv, NEW c \in Core, RegisterStep(c)
  PROVE  BootInv'
<1>1. StartInv' /\ GoesBy(c)
  BY LockKeeps, StoreKeeps, UnlockKeeps DEF BootInv, RegisterStep
<1>2. UNCHANGED <<uart_vars, thread_vars>>
  BY DEF RegisterStep, register_lock, register_store, register_unlock
<1>3. UNCHANGED <<irq, con, q, masked, thread, life, depth, dispatch>>
  BY <1>2 DEF uart_vars, handler_vars, console_vars, thread_vars
<1>4. ThreadInv'
  BY <1>1, <1>3, ThreadStays DEF GoesBy, BootInv
<1>5. UartInv' /\ HandlerPlace' /\ NotYetRead'
  BY <1>1, <1>2, <1>3, UartStays, HandlerStays, ReadStays DEF GoesBy, BootInv
<1> QED
  BY <1>1, <1>4, <1>5 DEF BootInv

-----------------------------------------------------------------------------
(* Threads.                                                                *)

\* A core that leaves its thread for one that nobody executes.
LEMMA SwitchKeeps ==
  ASSUME ThreadInv, NEW c \in Core, Up(c),
         NEW t \in Thread, SwitchTo(c, t), t \in Core => t = c,
         t \in Task => life'[t] = "live",
         \A d \in Core : d # c => thread[d] # t,
         \A d \in Core : d # c /\ thread[d] # d => life'[thread[d]] = "live",
         UNCHANGED <<pc, masked>>
  PROVE  ThreadPlace' /\ thread' \in [Core -> Thread]
<1>1. /\ thread' \in [Core -> Thread] /\ thread'[c] = t
      /\ \A d \in Core : d # c => thread'[d] = thread[d]
  BY DEF SwitchTo, ThreadInv, ThreadTypeOK
<1>2. ASSUME NEW d \in Core PROVE /\ ~masked'[d] => Up(d)'
                                  /\ thread'[d] # d => /\ thread'[d] \in Task /\ Up(d)'
                                                       /\ life'[thread'[d]] = "live"
                                  /\ \A e \in Core : thread'[e] = thread'[d] => e = d
  <2>1. ~masked'[d] => Up(d)'
    BY DEF ThreadInv, ThreadPlace, Up, Code
  <2>2. CASE d = c
    <3>1. \A e \in Core : thread'[e] = thread'[d] => e = d
      BY <1>1, <2>2
    <3>2. thread'[d] # d => thread'[d] \in Task
      BY <1>1, <2>2 DEF Thread
    <3> QED
      BY <1>1, <2>1, <2>2, <3>1, <3>2 DEF Up, Code
  <2>3. CASE d # c
    <3>1. \A e \in Core : thread'[e] = thread'[d] => e = d
      BY <1>1, <2>3 DEF ThreadInv, ThreadPlace
    <3> QED
      BY <1>1, <2>1, <2>3, <3>1 DEF ThreadInv, ThreadPlace, Up, Code
  <2> QED
    BY <2>2, <2>3
<1> QED
  BY <1>1, <1>2 DEF ThreadPlace

LEMMA ScheduleKeeps ==
  ASSUME ThreadInv, NEW c \in Core, Up(c), _schedule(c), UNCHANGED <<pc, masked, life>>
  PROVE  ThreadPlace' /\ thread' \in [Core -> Thread]
<1>1. PICK t \in Task : Ready(t) /\ SwitchTo(c, t)
  BY DEF _schedule
<1>2. t \in Thread /\ t \notin Core
  BY BootAssumption DEF Thread
<1>3. \A d \in Core : d # c /\ thread[d] # d => life'[thread[d]] = "live"
  BY DEF ThreadInv, ThreadPlace
<1> QED
  BY <1>1, <1>2, <1>3, SwitchKeeps DEF Ready

\* Nothing inside handle_irq() changes.
LEMMA OutsideKeeps ==
  ASSUME ThreadInv, life' \in [Task -> {"new", "live", "gone"}],
         thread' \in [Core -> Thread], ThreadPlace',
         \A t \in Task : depth[t] > 0 => life'[t] = "live",
         \A t \in Task : life'[t] # "new" => Up(BootCore),
         UNCHANGED <<pc, masked, depth, dispatch>>
  PROVE  ThreadInv'
<1>1. ThreadTypeOK'
  BY DEF ThreadInv, ThreadTypeOK
<1>2. InsidePlace'
  BY DEF ThreadInv, InsidePlace, Up, Code
<1> QED
  BY <1>1, <1>2 DEF ThreadInv

LEMMA CopyKeeps ==
  ASSUME ThreadInv, NEW c \in Core, NEW t \in Task, copy_process(c, t)
  PROVE  ThreadInv'
<1>1. /\ Up(c) /\ thread[c] = BootCore /\ life[t] = "new" /\ life' = [life EXCEPT ![t] = "live"]
      /\ UNCHANGED <<pc, masked, thread, depth, dispatch>>
  BY DEF copy_process, startup_vars
<1>2. c = BootCore
  BY <1>1, ThreadIs, BootAssumption
<1>3. /\ life' \in [Task -> {"new", "live", "gone"}] /\ life'[t] = "live"
      /\ \A u \in Task : u # t => life'[u] = life[u]
  BY <1>1 DEF ThreadInv, ThreadTypeOK
<1>4. ThreadPlace'
  BY <1>1, <1>3 DEF ThreadInv, ThreadPlace, Up, Code
<1>5. \A u \in Task : depth[u] > 0 => life'[u] = "live"
  BY <1>3 DEF ThreadInv, InsidePlace
<1>6. \A u \in Task : life'[u] # "new" => Up(BootCore)
  BY <1>1, <1>2
<1>7. thread' \in [Core -> Thread]
  BY <1>1 DEF ThreadInv, ThreadTypeOK
<1> QED
  BY <1>1, <1>3, <1>4, <1>5, <1>6, <1>7, OutsideKeeps

LEMMA ExitKeeps ==
  ASSUME ThreadInv, NEW c \in Core, exit_process(c)
  PROVE  ThreadInv'
<1> DEFINE t == thread[c]
<1>1. /\ t \in Task /\ depth[t] = 0 /\ life' = [life EXCEPT ![t] = "gone"]
      /\ SwitchTo(c, c) \/ _schedule(c)
      /\ UNCHANGED <<pc, masked, depth, dispatch>>
  BY ThreadIs, BootAssumption DEF exit_process, startup_vars, InThread, InIrq
<1>2. Up(c) /\ \A d \in Core : d # c => thread[d] # t
  BY <1>1, BootAssumption DEF ThreadInv, ThreadPlace
<1>3. /\ life' \in [Task -> {"new", "live", "gone"}] /\ life[t] = "live" /\ life'[t] = "gone"
      /\ \A u \in Task : u # t => life'[u] = life[u]
  BY <1>1, <1>2, BootAssumption DEF ThreadInv, ThreadTypeOK, ThreadPlace
<1> HIDE DEF t
<1>4. ThreadPlace' /\ thread' \in [Core -> Thread]
  <2>1. PICK u \in Thread : /\ SwitchTo(c, u) /\ (u \in Core => u = c)
                            /\ u \in Task => life'[u] = "live"
                            /\ \A d \in Core : d # c => thread[d] # u
    <3>1. CASE SwitchTo(c, c)
      <4>1. c \in Thread /\ c \notin Task /\ \A d \in Core : d # c => thread[d] # c
        BY <1>1, ThreadIs, BootAssumption DEF Thread
      <4> QED
        BY <3>1, <4>1
    <3>2. CASE _schedule(c)
      <4>1. PICK u \in Task : Ready(u) /\ SwitchTo(c, u)
        BY <3>2 DEF _schedule
      <4>2. u \in Thread /\ u \notin Core /\ u # t
        BY <4>1, BootAssumption DEF Thread, Ready, t
      <4> QED
        BY <1>3, <4>1, <4>2 DEF Ready
    <3> QED
      BY <1>1, <3>1, <3>2
  <2>2. \A d \in Core : d # c /\ thread[d] # d => life'[thread[d]] = "live"
    BY <1>2, <1>3 DEF ThreadInv, ThreadPlace
  <2> QED
    BY <1>1, <1>2, <2>1, <2>2, SwitchKeeps
<1>5. \A u \in Task : depth[u] > 0 => life'[u] = "live"
  BY <1>1, <1>3 DEF ThreadInv, InsidePlace
<1>6. \A u \in Task : life'[u] # "new" => Up(BootCore)
  BY <1>3 DEF ThreadInv, InsidePlace
<1> QED
  BY <1>1, <1>3, <1>4, <1>5, <1>6, OutsideKeeps

LEMMA ThreadKeeps ==
  ASSUME BootInv, NEW c \in Core, ThreadStep(c)
  PROVE  BootInv'
<1>1. CASE console(c)
  <2>1. UNCHANGED <<startup_vars, thread_vars>> /\ ConsoleStep /\ thread[c] = Console
    BY <1>1 DEF console, boot_vars
  <2>2. Up(c)
    BY <2>1, ThreadIs, BootAssumption DEF BootInv
  <2>3. StartInv' /\ UartInv'
    BY <2>1, StartStays, ConsoleKeeps DEF BootInv, startup_vars
  <2>4. ThreadInv'
    BY <2>1 DEF startup_vars, thread_vars, BootInv, ThreadInv, ThreadTypeOK, ThreadPlace,
         InsidePlace, Up, Code
  <2>5. UNCHANGED <<irq, depth, dispatch>>
    BY <2>1 DEF thread_vars, ConsoleStep, uart_rx_wait, pop_c, pop_seq1, pop_seq2, decode,
         handler_vars
  <2>6. HandlerPlace'
    BY <2>5, HandlerStays DEF BootInv
  <2>7. NotYetRead'
    BY <2>1, <2>2, UpPlace DEF BootInv, NotYetRead, Main, startup_vars
  <2> QED
    BY <2>3, <2>4, <2>6, <2>7 DEF BootInv
<1>2. CASE (\E t \in Task : copy_process(c, t)) \/ schedule(c) \/ exit_process(c)
  <2>1. UNCHANGED <<uart_vars, startup_vars, masked, depth, dispatch>>
    BY <1>2 DEF copy_process, schedule, exit_process
  <2>2. StartInv' /\ UartInv'
    BY <2>1, StartStays, UartStays DEF BootInv, startup_vars
  <2>3. UNCHANGED <<irq, con, q, pc>>
    BY <2>1 DEF uart_vars, handler_vars, console_vars, startup_vars
  <2>4. HandlerPlace' /\ NotYetRead'
    BY <2>1, <2>3, HandlerStays DEF BootInv, NotYetRead, Main
  <2>5. ThreadInv'
    <3>1. CASE schedule(c)
      <4>1. Up(c) /\ _schedule(c) /\ UNCHANGED <<pc, masked, life>>
        BY <2>3, <3>1 DEF schedule
      <4>2. ThreadPlace' /\ thread' \in [Core -> Thread]
        BY <4>1, ScheduleKeeps DEF BootInv
      <4> QED
        BY <2>1, <4>1, <4>2, OutsideKeeps DEF BootInv, ThreadInv, ThreadTypeOK, InsidePlace
    <3> QED
      BY <1>2, <3>1, CopyKeeps, ExitKeeps DEF BootInv
  <2> QED
    BY <2>2, <2>4, <2>5 DEF BootInv
<1> QED
  BY <1>1, <1>2 DEF ThreadStep

-----------------------------------------------------------------------------
(* handle_irq().                                                           *)

LEMMA EntryKeeps ==
  ASSUME ThreadInv, HandlerPlace, NEW c \in Core, irq_entry(c)
  PROVE  ThreadInv' /\ HandlerPlace'
<1> DEFINE t == thread[c]
           n == depth[t] + 1
           d == [table |-> "local", src |-> Source(c), i |-> 0]
<1>1. /\ ~masked[c] /\ depth[t] < MaxNest
      /\ masked' = [masked EXCEPT ![c] = TRUE] /\ depth' = [depth EXCEPT ![t] = n]
      /\ dispatch' = [dispatch EXCEPT ![<<t, n>>] = d]
      /\ UNCHANGED <<pc, irq, thread, life>>
  BY DEF irq_entry, Interrupted, startup_vars, uart_vars, handler_vars
<1>2. d \in Loops
  BY DEF Loops, Source
<1>3. t \in Thread /\ depth[t] \in 0..MaxNest /\ Up(c)
  BY <1>1, ThreadIs
<1>4. n \in 1..MaxNest /\ n = depth[t] + 1
  BY <1>1, <1>3, BootAssumption
<1>5. t \in Core => t = c
  BY ThreadIs
<1>6. t \in Task => life[t] = "live"
  BY BootAssumption DEF ThreadInv, ThreadPlace
<1> HIDE DEF t, n, d
<1>7. <<t, n>> \in Handler
  BY <1>3, <1>4, BootAssumption
<1>8. ThreadTypeOK'
  <2>1. depth' \in [Thread -> 0..MaxNest]
    BY <1>1, <1>3, <1>4 DEF ThreadInv, ThreadTypeOK
  <2>2. dispatch' \in [Handler -> Loops \cup {None}]
    BY <1>1, <1>2, <1>7 DEF ThreadInv, ThreadTypeOK
  <2> QED
    BY <1>1, <2>1, <2>2 DEF ThreadInv, ThreadTypeOK
<1>9. ThreadPlace'
  <2>1. \A e \in Core : ~masked'[e] => ~masked[e]
    BY <1>1 DEF ThreadInv, ThreadTypeOK
  <2> QED
    BY <1>1, <2>1 DEF ThreadInv, ThreadPlace, Up, Code
<1>10. /\ depth'[t] = n /\ \A u \in Thread : u # t => depth'[u] = depth[u]
       /\ \A u \in Thread : depth[u] \in 0..MaxNest
  BY <1>1, <1>3 DEF ThreadInv, ThreadTypeOK
<1>11. \A u \in Thread, m \in 1..MaxNest :
         dispatch'[<<u, m>>] = IF u = t /\ m = n THEN d ELSE dispatch[<<u, m>>]
  BY <1>1, <1>7, BootAssumption DEF ThreadInv, ThreadTypeOK
<1>12. InsidePlace'
  <2>1. \A e \in Core : depth'[e] > 0 => Up(e)'
    BY <1>1, <1>3, <1>5, <1>10 DEF ThreadInv, InsidePlace, Thread, Up, Code
  <2>2. \A u \in Task : depth'[u] > 0 => life'[u] = "live"
    BY <1>1, <1>6, <1>10 DEF ThreadInv, InsidePlace, Thread
  <2>3. \A u \in Task : life'[u] # "new" => Up(BootCore)'
    BY <1>1 DEF ThreadInv, InsidePlace, Up, Code
  <2>4. ASSUME NEW u \in Thread, NEW m \in 1..MaxNest, m <= depth'[u]
        PROVE  dispatch'[<<u, m>>] \in Loops
    <3>1. CASE u = t /\ m = n
      BY <1>2, <1>11, <3>1
    <3>2. CASE ~(u = t /\ m = n)
      <4>1. m <= depth[u]
        BY <1>4, <1>10, <2>4, <3>2
      <4> QED
        BY <1>11, <3>2, <4>1 DEF ThreadInv, InsidePlace
    <3> QED
      BY <3>1, <3>2
  <2> QED
    BY <2>1, <2>2, <2>3, <2>4 DEF InsidePlace
<1>13. HandlerPlace'
  <2> SUFFICES ASSUME NEW u \in Thread, NEW m \in 1..MaxNest, irq[<<u, m>>] # "idle"
               PROVE  m <= depth'[u] /\ dispatch'[<<u, m>>].table = "gpu"
    BY <1>1 DEF HandlerPlace
  <2>1. m <= depth[u] /\ dispatch[<<u, m>>].table = "gpu"
    BY DEF HandlerPlace
  <2>2. ~(u = t /\ m = n) /\ m <= depth'[u]
    BY <1>4, <1>10, <2>1
  <2> QED
    BY <1>11, <2>1, <2>2
<1> QED
  BY <1>8, <1>9, <1>12, <1>13 DEF ThreadInv

LEMMA EretKeeps ==
  ASSUME ThreadInv, HandlerPlace, NEW c \in Core, eret(c)
  PROVE  ThreadInv' /\ HandlerPlace'
<1> DEFINE t == thread[c]
           n == depth[t]
<1>1. /\ InIrq(c) /\ irq[Innermost(c)] = "idle"
      /\ masked' = [masked EXCEPT ![c] = FALSE]
      /\ depth' = [depth EXCEPT ![t] = n - 1]
      /\ dispatch' = [dispatch EXCEPT ![Innermost(c)] = None]
      /\ UNCHANGED <<pc, irq, thread, life>>
  BY DEF eret, Looping, startup_vars, uart_vars, handler_vars
<1>2. Up(c) /\ n \in 1..MaxNest /\ Innermost(c) = <<t, n>> /\ Innermost(c) \in Handler
  BY <1>1, InnermostIs
<1>3. t \in Thread
  BY ThreadIs
<1>4. n = depth[t]
  OBVIOUS
<1> HIDE DEF t, n
<1>5. n - 1 \in 0..MaxNest
  BY <1>2, BootAssumption
<1>6. ThreadTypeOK'
  <2>1. depth' \in [Thread -> 0..MaxNest]
    BY <1>1, <1>5 DEF ThreadInv, ThreadTypeOK
  <2>2. dispatch' \in [Handler -> Loops \cup {None}]
    BY <1>1 DEF ThreadInv, ThreadTypeOK
  <2> QED
    BY <1>1, <2>1, <2>2 DEF ThreadInv, ThreadTypeOK
<1>7. ThreadPlace'
  <2>1. \A e \in Core : ~masked'[e] => Up(e)
    BY <1>1, <1>2 DEF ThreadInv, ThreadTypeOK, ThreadPlace
  <2> QED
    BY <1>1, <2>1 DEF ThreadInv, ThreadPlace, Up, Code
<1>8. /\ depth'[t] = n - 1 /\ \A u \in Thread : u # t => depth'[u] = depth[u]
      /\ \A u \in Thread : depth[u] \in 0..MaxNest
  BY <1>1, <1>3 DEF ThreadInv, ThreadTypeOK
<1>9. \A u \in Thread, m \in 1..MaxNest :
        ~(u = t /\ m = n) => dispatch'[<<u, m>>] = dispatch[<<u, m>>]
  BY <1>1, <1>2, BootAssumption DEF ThreadInv, ThreadTypeOK
<1>10. \A u \in Thread, m \in 1..MaxNest :
         m <= depth'[u] <=> m <= depth[u] /\ ~(u = t /\ m = n)
  BY <1>2, <1>4, <1>8
<1>11. InsidePlace'
  <2>1. \A u \in Thread : depth'[u] > 0 => depth[u] > 0
    BY <1>2, <1>4, <1>8
  <2>2. \A u \in Thread, m \in 1..MaxNest : m <= depth'[u] => dispatch'[<<u, m>>] \in Loops
    BY <1>9, <1>10 DEF ThreadInv, InsidePlace
  <2>3. \A e \in Core : depth'[e] > 0 => Up(e)'
    BY <1>1, <2>1 DEF ThreadInv, InsidePlace, Thread, Up, Code
  <2>4. \A u \in Task : depth'[u] > 0 => life'[u] = "live"
    BY <1>1, <2>1 DEF ThreadInv, InsidePlace, Thread
  <2>5. \A u \in Task : life'[u] # "new" => Up(BootCore)'
    BY <1>1 DEF ThreadInv, InsidePlace, Up, Code
  <2> QED
    BY <2>2, <2>3, <2>4, <2>5 DEF InsidePlace
<1>12. HandlerPlace'
  <2> SUFFICES ASSUME NEW u \in Thread, NEW m \in 1..MaxNest, irq[<<u, m>>] # "idle"
               PROVE  m <= depth'[u] /\ dispatch'[<<u, m>>].table = "gpu"
    BY <1>1 DEF HandlerPlace
  <2>1. m <= depth[u] /\ dispatch[<<u, m>>].table = "gpu" /\ ~(u = t /\ m = n)
    BY <1>1, <1>2 DEF HandlerPlace
  <2> QED
    BY <1>9, <1>10, <2>1
<1> QED
  BY <1>6, <1>7, <1>11, <1>12 DEF ThreadInv

\* handle_irq() goes on inside; d is what it still has to do.
GoesInside(c, d) ==
  /\ d \in Loops
  /\ dispatch' = [dispatch EXCEPT ![Innermost(c)] = d]
  /\ UNCHANGED <<pc, masked, life, depth>>

LEMMA InsideKeeps ==
  ASSUME ThreadInv, NEW c \in Core, InIrq(c), NEW d, GoesInside(c, d),
         ThreadPlace', thread' \in [Core -> Thread]
  PROVE  /\ ThreadInv'
         /\ \A t \in Thread, n \in 1..MaxNest :
              dispatch'[<<t, n>>] = IF <<t, n>> = Innermost(c) THEN d ELSE dispatch[<<t, n>>]
<1>1. Innermost(c) \in Handler
  BY InnermostIs
<1>2. \A t \in Thread, n \in 1..MaxNest :
        dispatch'[<<t, n>>] = IF <<t, n>> = Innermost(c) THEN d ELSE dispatch[<<t, n>>]
  BY <1>1, BootAssumption DEF GoesInside, ThreadInv, ThreadTypeOK
<1>3. dispatch' \in [Handler -> Loops \cup {None}]
  BY <1>1 DEF GoesInside, ThreadInv, ThreadTypeOK
<1>4. ThreadTypeOK'
  BY <1>3 DEF GoesInside, ThreadInv, ThreadTypeOK
<1>5. InsidePlace'
  BY <1>2 DEF GoesInside, ThreadInv, InsidePlace, Up, Code
<1> QED
  BY <1>2, <1>4, <1>5 DEF ThreadInv

\* A step inside that switches no thread and leaves the UART's handler alone.
LEMMA QuietKeeps ==
  ASSUME BootInv, NEW c \in Core, InIrq(c), irq[Innermost(c)] = "idle", NEW d, GoesInside(c, d),
         ThreadPlace', thread' \in [Core -> Thread], UNCHANGED <<uart_vars, startup_vars>>
  PROVE  BootInv'
<1>1. StartInv' /\ UartInv'
  BY StartStays, UartStays DEF BootInv, startup_vars
<1>2. UNCHANGED <<irq, con, q, pc, depth>>
  BY DEF GoesInside, uart_vars, handler_vars, console_vars, startup_vars
<1>3. /\ ThreadInv'
      /\ \A t \in Thread, n \in 1..MaxNest :
           dispatch'[<<t, n>>] = IF <<t, n>> = Innermost(c) THEN d ELSE dispatch[<<t, n>>]
  BY InsideKeeps DEF BootInv
<1>4. HandlerPlace'
  BY <1>2, <1>3 DEF BootInv, HandlerPlace
<1>5. NotYetRead'
  BY <1>2 DEF BootInv, NotYetRead, Main
<1> QED
  BY <1>1, <1>3, <1>4, <1>5 DEF BootInv

\* The thread that looks at an entry of a table goes on to the next.
LEMMA ConsiderGoes ==
  ASSUME BootInv, NEW c \in Core, Consider(c), UNCHANGED <<startup_vars, masked>>
  PROVE  /\ InIrq(c) /\ irq[Innermost(c)] = "idle"
         /\ \E d : GoesInside(c, d) /\ d.table = Loop(c).table
<1> DEFINE d == [Loop(c) EXCEPT !.i = @ + 1]
<1>1. InIrq(c) /\ irq[Innermost(c)] = "idle"
  BY DEF Consider, Looping
<1>2. Loop(c) \in Loops
  BY <1>1, InnermostIs DEF Loop, BootInv
<1>3. d \in Loops /\ d.table = Loop(c).table
  BY <1>2 DEF Loops
<1>4. /\ dispatch' = [dispatch EXCEPT ![Innermost(c)] = d]
      /\ UNCHANGED <<pc, masked, life, depth>>
  BY DEF Consider, Continue, startup_vars
<1> HIDE DEF d
<1>5. GoesInside(c, d)
  BY <1>3, <1>4 DEF GoesInside
<1> QED
  BY <1>1, <1>3, <1>5

LEMMA CallUartKeeps ==
  ASSUME BootInv, NEW c \in Core, call_uart(c)
  PROVE  BootInv'
<1>1. /\ Consider(c) /\ More(c) /\ Entry(c).handler = "aux"
      /\ irq' = [irq EXCEPT ![Innermost(c)] = "test"]
      /\ UNCHANGED <<hw, in, q, sem, con, seq1, seq2, masked, thread, startup_vars>>
  BY DEF call_uart, Consider, Continue, console_vars
<1>2. InIrq(c) /\ irq[Innermost(c)] = "idle"
  BY <1>1, ConsiderGoes
<1>3. PICK d : GoesInside(c, d) /\ d.table = Loop(c).table
  BY <1>1, ConsiderGoes
<1>4. /\ Up(c) /\ Innermost(c) \in Handler /\ Loop(c) \in Loops
      /\ Innermost(c) = <<thread[c], depth[thread[c]]>>
  BY <1>2, InnermostIs DEF Loop, BootInv
<1>5. Loop(c).table = "gpu"
  <2>1. Loop(c).i \in Nat /\ Loop(c).table \in {"local", "gpu"}
    BY <1>4 DEF Loops
  <2>2. count[Loop(c).table] \in 0..TableMax
    BY <2>1 DEF BootInv, StartInv, StartTypeOK
  <2>3. Loop(c).i \in 0..TableMax-1
    BY <1>1, <2>1, <2>2, BootAssumption DEF More
  <2> QED
    BY <1>1, <2>1, <2>3 DEF Entry, BootInv, StartInv, OnlyTimersLocal
<1>6. StartInv'
  BY <1>1, StartStays DEF BootInv, startup_vars
<1>7. UNCHANGED <<pc, masked, life, depth, thread>>
  BY <1>1, <1>3 DEF GoesInside
<1>8. /\ ThreadInv'
      /\ \A t \in Thread, n \in 1..MaxNest :
           dispatch'[<<t, n>>] = IF <<t, n>> = Innermost(c) THEN d ELSE dispatch[<<t, n>>]
  <2>1. ThreadPlace' /\ thread' \in [Core -> Thread]
    BY <1>7 DEF BootInv, ThreadInv, ThreadTypeOK, ThreadPlace, Up, Code
  <2> QED
    BY <1>2, <1>3, <2>1, InsideKeeps DEF BootInv
<1>9. irq \in [Handler -> HandlerStates] /\ "test" \in HandlerStates
  BY DEF BootInv, UartInv, UartTypeOK, HandlerStates
<1>10. HandlerPlace'
  <2> SUFFICES ASSUME NEW t \in Thread, NEW n \in 1..MaxNest, irq'[<<t, n>>] # "idle"
               PROVE  n <= depth'[t] /\ dispatch'[<<t, n>>].table = "gpu"
    BY DEF HandlerPlace
  <2>1. CASE <<t, n>> = Innermost(c)
    <3>1. t = thread[c] /\ n = depth[t]
      BY <1>4, <2>1
    <3>2. dispatch'[<<t, n>>] = d
      BY <1>8, <2>1
    <3> QED
      BY <1>3, <1>5, <1>7, <3>1, <3>2
  <2>2. CASE <<t, n>> # Innermost(c)
    <3>1. irq[<<t, n>>] # "idle"
      BY <1>1, <1>4, <1>9, <2>2, BootAssumption
    <3> QED
      BY <1>7, <1>8, <2>2, <3>1 DEF BootInv, HandlerPlace
  <2> QED
    BY <2>1, <2>2
<1>11. UartInv'
  <2>1. irq' \in [Handler -> HandlerStates] /\ InFlight' = InFlight
    BY <1>1, <1>2, <1>4, <1>9, InFlightMoves DEF BootInv, UartInv
  <2>2. \A h \in Handler : irq'[h] = "push" => irq[h] = "push"
    BY <1>1, <1>4, <1>9
  <2> QED
    BY <1>1, <2>1, <2>2 DEF BootInv, UartInv, UartTypeOK, SequenceSoFar, TokenPerByte, InHand
<1>12. NotYetRead'
  BY <1>4, <1>7, UpPlace DEF BootInv, NotYetRead, Main
<1> QED
  BY <1>6, <1>8, <1>10, <1>11, <1>12 DEF BootInv

\* The UART's handler, on the core that executes its thread.
LEMMA UartHandlerKeeps ==
  ASSUME BootInv, NEW c \in Core, mini_uart_handle_irq(c)
  PROVE  BootInv'
<1> DEFINE h == Innermost(c)
<1>1. InIrq(c) /\ HandlerStep(h) /\ UNCHANGED <<startup_vars, thread_vars>>
  BY DEF mini_uart_handle_irq, boot_vars
<1>2. h \in Handler /\ Up(c)
  BY <1>1, InnermostIs DEF BootInv
<1> HIDE DEF h
<1>3. UartInv' /\ StartInv'
  BY <1>1, <1>2, HandlerKeeps, StartStays DEF BootInv, startup_vars
<1>4. UNCHANGED <<pc, masked, thread, life, depth, dispatch>>
  BY <1>1 DEF startup_vars, thread_vars
<1>5. ThreadInv'
  BY <1>4 DEF BootInv, ThreadInv, ThreadTypeOK, ThreadPlace, InsidePlace, Up, Code
<1>6. \A g \in Handler : irq'[g] # "idle" => irq[g] # "idle"
  <2>1. irq[h] # "idle"
    BY <1>1 DEF HandlerStep, handle_irq_test, handle_irq_read, handle_irq_push,
         handle_irq_signal, HandlerAt
  <2>2. \A g \in Handler : g # h => irq'[g] = irq[g]
    BY <1>1, <1>2 DEF BootInv, UartInv, UartTypeOK, HandlerStep, handle_irq_test,
         handle_irq_read, handle_irq_push, handle_irq_signal, HandlerAt
  <2> QED
    BY <2>1, <2>2
<1>7. HandlerPlace'
  BY <1>4, <1>6, BootAssumption DEF BootInv, HandlerPlace
<1>8. NotYetRead'
  BY <1>2, <1>4, UpPlace DEF BootInv, NotYetRead, Main
<1> QED
  BY <1>3, <1>5, <1>7, <1>8 DEF BootInv

LEMMA IrqKeeps ==
  ASSUME BootInv, NEW c \in Core, IrqStep(c)
  PROVE  BootInv'
<1>1. CASE irq_entry(c) \/ eret(c)
  <2>1. UNCHANGED <<uart_vars, startup_vars>>
    BY <1>1 DEF irq_entry, eret
  <2>2. StartInv' /\ UartInv'
    BY <2>1, StartStays, UartStays DEF BootInv, startup_vars
  <2>3. NotYetRead'
    BY <2>1 DEF BootInv, NotYetRead, Main, uart_vars, handler_vars, console_vars, startup_vars
  <2>4. ThreadInv' /\ HandlerPlace'
    BY <1>1, EntryKeeps, EretKeeps DEF BootInv
  <2> QED
    BY <2>2, <2>3, <2>4 DEF BootInv
<1>2. CASE irq_skip(c) \/ irq_gpu(c)
  <2>1. /\ UNCHANGED <<uart_vars, startup_vars, thread>>
        /\ InIrq(c) /\ irq[Innermost(c)] = "idle"
        /\ UNCHANGED <<masked, life, depth>>
    BY <1>2 DEF irq_skip, irq_gpu, Consider, Continue, Looping
  <2>2. \E d : GoesInside(c, d)
    <3>1. CASE irq_skip(c)
      BY <2>1, <3>1, ConsiderGoes DEF irq_skip
    <3>2. CASE irq_gpu(c)
      <4>1. GoesInside(c, [table |-> "gpu", src |-> Pending1, i |-> 0])
        BY <2>1, <3>2 DEF irq_gpu, Continue, GoesInside, Loops, Pending1, startup_vars
      <4> QED
        BY <4>1
    <3> QED
      BY <1>2, <3>1, <3>2
  <2>3. ThreadPlace' /\ thread' \in [Core -> Thread]
    BY <2>1 DEF startup_vars, BootInv, ThreadInv, ThreadTypeOK, ThreadPlace, Up, Code
  <2> QED
    BY <2>1, <2>2, <2>3, QuietKeeps
<1>3. CASE call_timer(c)
  <2>1. Consider(c) /\ timer_tick(c) /\ UNCHANGED <<uart_vars, startup_vars, masked, life>>
    BY <1>3 DEF call_timer, Consider, Continue, TickMasked
  <2>2. InIrq(c) /\ irq[Innermost(c)] = "idle" /\ \E d : GoesInside(c, d)
    BY <2>1, ConsiderGoes
  <2>3. ThreadPlace' /\ thread' \in [Core -> Thread]
    <3>1. CASE UNCHANGED thread
      BY <2>1, <3>1 DEF startup_vars, BootInv, ThreadInv, ThreadTypeOK, ThreadPlace, Up, Code
    <3>2. CASE _schedule(c)
      BY <2>1, <2>2, <3>2, InnermostIs, ScheduleKeeps DEF BootInv, startup_vars
    <3> QED
      BY <2>1, <3>1, <3>2 DEF timer_tick
  <2> QED
    BY <2>1, <2>2, <2>3, QuietKeeps
<1> QED
  BY <1>1, <1>2, <1>3, CallUartKeeps, UartHandlerKeeps DEF IrqStep

-----------------------------------------------------------------------------
(* The theorems.                                                           *)

LEMMA NextKeeps ==
  ASSUME BootInv, [Next]_vars
  PROVE  BootInv'
<1>1. ASSUME NEW c \in Core, CoreStep(c) PROVE BootInv'
  <2>1. CASE StartStep(c)
    BY <2>1, PlainKeeps, RegisterKeeps DEF StartStep
  <2> QED
    BY <1>1, <2>1, ThreadKeeps, IrqKeeps DEF CoreStep
<1>2. CASE Environment \/ UNCHANGED vars
  <2>1. UNCHANGED <<startup_vars, thread_vars, irq, con, q>>
    BY <1>2 DEF Environment, TimerFires, Arrive, vars, boot_vars, uart_vars, handler_vars,
         console_vars
  <2>2. StartInv'
    BY <2>1, StartStays DEF BootInv, startup_vars
  <2>3. ThreadInv'
    BY <2>1 DEF startup_vars, thread_vars, BootInv, ThreadInv, ThreadTypeOK, ThreadPlace,
         InsidePlace, Up, Code
  <2>4. HandlerPlace' /\ NotYetRead'
    BY <2>1, HandlerStays DEF BootInv, NotYetRead, Main, startup_vars, thread_vars
  <2>5. UartInv'
    BY <1>2, ArriveKeeps, UartStays DEF Environment, TimerFires, vars, BootInv
  <2> QED
    BY <2>2, <2>3, <2>4, <2>5 DEF BootInv
<1> QED
  BY <1>1, <1>2 DEF Next

\* The invariant holds of every execution: whatever threads a tick switches
\* inside handle_irq() and wherever they go on, each is on one core, and the
\* UART's handler is only ever called by the loop over the GPU table.
THEOREM BootInvariance == Spec => []BootInv
<1>1. Init => BootInv
  BY InitKeeps
<1>2. BootInv /\ [Next]_vars => BootInv'
  BY NextKeeps
<1> QED
  BY <1>1, <1>2, PTL DEF Spec

\* The receive buffer holds as many bytes as there are tokens, in flight and in
\* the console's hand included: for buffers of any size, any number of bytes,
\* wherever a handler is preempted and on whatever core it goes on, and sem_init()
\* at its place in the start-up of any number of cores.
THEOREM UartTokenPerByte == Spec => []TokenPerByte
<1>1. BootInv => TokenPerByte
  BY DEF BootInv, UartInv
<1> QED
  BY <1>1, BootInvariance, PTL

\* console_readline() decodes no escape sequence from an uninitialised byte.
THEOREM UartSequenceInitialised == Spec => []SequenceInitialised
<1>1. BootInv => SequenceInitialised
  BY DEF BootInv, UartInv, SequenceSoFar, SequenceInitialised
<1> QED
  BY <1>1, BootInvariance, PTL

\* Whatever the number of cores, none passes a point of its start-up code, nor
\* takes an interrupt, before what it relies on there is done.
THEOREM BootPrerequisites == Spec => []PrerequisitesMet
<1>1. BootInv => PrerequisitesMet
  <2> SUFFICES ASSUME BootInv, NEW c \in Core
               PROVE  /\ Done(c, "mmu") =>
                           Done(BootCore, "memzero") /\ Done(BootCore, "create_page_tables")
                      /\ Done(c, "timer_on") => Done(BootCore, "uart_init_gpio")
                      /\ Up(c) => Done(BootCore, "sched_init")
                      /\ InIrq(c) \/ thread[c] # c =>
                           Done(c, "irq_vector_init") /\ Done(c, "sched_init")
    BY DEF PrerequisitesMet
  <2>1. pc[c] \in Nat /\ Main \in Nat /\ BootCore \in Core
    BY BootAssumption DEF BootInv, StartInv, StartTypeOK, Main
  <2>2. /\ Done(BootCore, "memzero") <=> Main >= 1
        /\ Done(BootCore, "create_page_tables") <=> Main >= 2
        /\ Done(BootCore, "mmu") <=> Main >= 5
        /\ Done(BootCore, "uart_init_gpio") <=> Main >= 6
        /\ Done(BootCore, "irq_vector_init") <=> Main >= 10
        /\ Done(BootCore, "timer_on") <=> Main >= 11
        /\ Done(BootCore, "sched_init") <=> Main >= 13
    BY MainPlaces DEF Done, Main
  <2>3. InIrq(c) \/ thread[c] # c => pc[c] = Len(Code(c))
    BY ThreadIs DEF BootInv, Up
  <2>4. CASE c = BootCore
    <3>1. Len(Code(c)) = 17 /\ pc[c] = Main
      BY <2>4, CodeLength DEF Main
    <3> QED
      BY <2>1, <2>2, <2>3, <2>4, <3>1 DEF Up
  <2>5. CASE c # BootCore
    <3>1. Len(Code(c)) = 11
      BY <2>5, CodeLength
    <3>2. /\ Done(c, "mmu") <=> pc[c] >= 3
          /\ Done(c, "irq_vector_init") <=> pc[c] >= 4
          /\ Done(c, "sched_init") <=> pc[c] >= 7
          /\ Done(c, "timer_on") <=> pc[c] >= 8
      BY <2>5, SecondaryPlaces DEF Done
    <3>3. (pc[c] >= 2 => Main >= 3) /\ (pc[c] >= 6 => Main >= 14)
      BY <2>5 DEF BootInv, StartInv, InOrder
    <3> QED
      BY <2>1, <2>2, <2>3, <3>1, <3>2, <3>3 DEF Up
  <2> QED
    BY <2>4, <2>5
<1> QED
  BY <1>1, BootInvariance, PTL

\* From the first enabled interrupt on, no core's registration changes a table,
\* and each bit is there once: handle_irq() needs no lock, on any number of
\* cores and with tables of any size.
THEOREM DispatchTablesStable == Spec => TablesStable
<1>1. BootInv /\ [Next]_vars =>
        [(\E c \in Core : Done(c, "enable_irq")) =>
          /\ UNCHANGED <<count, table>>
          /\ count = [t \in {"local", "gpu"} |-> 1]
          /\ \A t \in {"local", "gpu"} :
               table[t][0] = [bit |-> Bit[t], handler |-> Bit[t]]]_vars
  <2> SUFFICES ASSUME BootInv, [Next]_vars, NEW c \in Core, Done(c, "enable_irq")
               PROVE  /\ UNCHANGED <<count, table>>
                      /\ count = [t \in {"local", "gpu"} |-> 1]
                      /\ \A t \in {"local", "gpu"} :
                           table[t][0] = [bit |-> Bit[t], handler |-> Bit[t]]
    OBVIOUS
  <2>1. Main >= 14 /\ Main \in Nat
    <3>1. CASE c = BootCore
      BY <3>1, MainPlaces, BootAssumption DEF Done, Main, BootInv, StartInv, StartTypeOK
    <3>2. CASE c # BootCore
      BY <3>2, SecondaryPlaces, BootAssumption DEF Done, Main, BootInv, StartInv, StartTypeOK, InOrder
    <3> QED
      BY <3>1, <3>2
  <2>2. Entered("local") /\ Entered("gpu")
    BY <2>1 DEF BootInv, StartInv, Registration, Registered
  <2>3. todo = {}
    BY <2>1 DEF BootInv, StartInv, Registration
  <2>4. count = [t \in {"local", "gpu"} |-> 1]
    BY <2>2 DEF Entered, BootInv, StartInv, StartTypeOK
  <2>5. UNCHANGED <<count, table>>
    <3>1. CASE UNCHANGED vars
      BY <3>1 DEF vars, boot_vars, startup_vars
    <3>2. ASSUME NEW d \in Core, CoreStep(d) PROVE UNCHANGED <<count, table>>
      <4>1. CASE StartStep(d)
        BY <2>3, <4>1 DEF StartStep, RegisterStep, plain_step, enable_irq, sev, wfe,
             load_flag, await, uart_init, register_lock, register_store, register_unlock
      <4>2. CASE ThreadStep(d)
        BY <4>2 DEF ThreadStep, copy_process, schedule, exit_process, console,
             boot_vars, startup_vars
      <4>3. CASE IrqStep(d)
        BY <4>3 DEF IrqStep, irq_entry, irq_skip, irq_gpu, eret, call_timer, call_uart,
             mini_uart_handle_irq, Consider, Continue, boot_vars, startup_vars
      <4> QED
        BY <3>2, <4>1, <4>2, <4>3 DEF CoreStep
    <3>3. CASE Environment
      BY <3>3 DEF Environment, TimerFires, boot_vars, startup_vars
    <3> QED
      BY <3>1, <3>2, <3>3 DEF Next
  <2> QED
    BY <2>2, <2>4, <2>5 DEF Entered
<1> QED
  BY <1>1, BootInvariance, PTL DEF Spec, TablesStable

=============================================================================
