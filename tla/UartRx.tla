------------------------------- MODULE UartRx -------------------------------
(***************************************************************************)
(* Serial input: the mini UART's receive FIFO, its interrupt handler       *)
(* (src/drivers/serial/mini_uart.c), the ring buffer uart_rx_buf, the      *)
(* semaphore uart_rx_sem, and the console task that reads keys from them   *)
(* in console_readline() (src/kernel/console.c).  The console runs on any  *)
(* core, so each of its steps may fall between any two of the handler's.   *)
(*                                                                         *)
(* handle_irq() calls the handler.  Boot says when, on which core and on   *)
(* which thread's stack: each activation has its own local.  The ring      *)
(* buffer takes no lock and has one writer, which Boot checks.             *)
(*                                                                         *)
(* The ring buffer is BoundedFifo, which RingBuf implements; a caller      *)
(* looks at what was returned to it in the step of the call.  The          *)
(* semaphore has one waiter: it is its count, and sem_wait() is the step   *)
(* that takes a token.                                                     *)
(***************************************************************************)
EXTENDS Integers, Sequences, FiniteSets

CONSTANTS Handler,    \* the activations of mini_uart_handle_irq()
          Byte,       \* what the line can carry
          Esc,        \* the byte 0x1B
          Capacity,   \* UART_RX_BUF_SIZE
          HwDepth,    \* the UART's own receive FIFO
          MaxBytes,   \* bound: how many bytes arrive
          None

ASSUME UartAssumption ==
  /\ IsFiniteSet(Handler)
  /\ Esc \in Byte /\ None \notin Byte
  /\ Capacity \in Nat \ {0, 1}
  /\ HwDepth \in Nat \ {0} /\ MaxBytes \in Nat

VARIABLES
  hw,         \* bytes in the UART, oldest first; AUX_MU_LSR bit 0 is hw # <<>>
  arrived,    \* number of bytes that came in on the line
  irq,        \* each mini_uart_handle_irq(): "idle", "test", "read", "push", "signal"
  in,         \* the local of each
  q,          \* contents of uart_rx_buf
  sem,        \* uart_rx_sem.count
  con,        \* where console_readline() is
  seq1, seq2, \* its locals; None = not initialised
  ret         \* what the last call for uart_rx_buf returned

console_vars == <<con, seq1, seq2>>
handler_vars == <<hw, arrived, irq, in>>
uart_vars == <<handler_vars, q, sem, console_vars, ret>>

Ring == INSTANCE BoundedFifo WITH Elem <- Byte

UartInit ==
  /\ hw = <<>>
  /\ arrived = 0
  /\ irq = [h \in Handler |-> "idle"]
  /\ in = [h \in Handler |-> None]
  /\ q = <<>>
  /\ sem = 0
  /\ con = "wait"
  /\ ret = [value |-> 0, elem |-> None]
  /\ seq1 = None
  /\ seq2 = None

\* A byte comes in; the UART drops it when its own FIFO is full.
Arrive(b) ==
  /\ arrived < MaxBytes
  /\ arrived' = arrived + 1
  /\ hw' = IF Len(hw) < HwDepth THEN Append(hw, b) ELSE hw
  /\ UNCHANGED <<irq, in, q, sem, console_vars, ret>>

-----------------------------------------------------------------------------
(* mini_uart_handle_irq().                                                 *)
HandlerAt(h, from, to) == irq[h] = from /\ irq' = [irq EXCEPT ![h] = to]

\* The status register is tested, then the data register is read.
handle_irq_test(h) ==
  /\ HandlerAt(h, "test", IF hw # <<>> THEN "read" ELSE "idle")
  /\ UNCHANGED <<hw, arrived, in, q, sem, console_vars, ret>>

handle_irq_read(h) ==
  /\ HandlerAt(h, "read", "push")
  /\ hw # <<>>
  /\ in' = [in EXCEPT ![h] = Head(hw)]
  /\ hw' = Tail(hw)
  /\ UNCHANGED <<arrived, q, sem, console_vars, ret>>

\* Only a byte that went into the buffer is signalled.  The local is dead now.
SignalsAlways(pushed) == TRUE
Signals(pushed) == pushed = 1

handle_irq_push(h) ==
  /\ Ring!push(in[h])
  /\ HandlerAt(h, "push", IF Signals(ret'.value) THEN "signal" ELSE "test")
  /\ in' = [in EXCEPT ![h] = None]
  /\ UNCHANGED <<hw, arrived, sem, console_vars>>

handle_irq_signal(h) ==
  /\ HandlerAt(h, "signal", "test")
  /\ sem' = sem + 1
  /\ UNCHANGED <<hw, arrived, in, q, console_vars, ret>>

-----------------------------------------------------------------------------
(* console_readline(): uart_rx_wait() and uart_buf_pop(), three times for  *)
(* an escape sequence.                                                     *)
AfterWait == [wait |-> "pop", wait1 |-> "pop1", wait2 |-> "pop2"]

uart_rx_wait ==
  /\ con \in {"wait", "wait1", "wait2"}
  /\ sem > 0
  /\ sem' = sem - 1
  /\ con' = AfterWait[con]
  /\ UNCHANGED <<q, seq1, seq2, ret, handler_vars>>

\* The first byte: its return value is tested.
EscSkipsWait == "pop1"
AfterEsc == "wait1"

pop_c ==
  /\ con = "pop"
  /\ Ring!pop
  /\ con' = IF ret'.value = 1 /\ ret'.elem = Esc THEN AfterEsc ELSE "wait"
  /\ UNCHANGED <<sem, seq1, seq2, handler_vars>>

\* The other two are not: a failed pop would leave the local as it was.
pop_seq1 ==
  /\ con = "pop1"
  /\ Ring!pop
  /\ seq1' = ret'.elem
  /\ con' = "wait2"
  /\ UNCHANGED <<sem, seq2, handler_vars>>

pop_seq2 ==
  /\ con = "pop2"
  /\ Ring!pop
  /\ seq2' = ret'.elem
  /\ con' = "decode"
  /\ UNCHANGED <<sem, seq1, handler_vars>>

\* The locals go out of scope once the sequence is decoded.
decode ==
  /\ con = "decode"
  /\ seq1' = None
  /\ seq2' = None
  /\ con' = "wait"
  /\ UNCHANGED <<q, sem, ret, handler_vars>>

\* An interrupt handler while it runs, and the console task.
HandlerStep(h) ==
  \/ handle_irq_test(h)
  \/ handle_irq_read(h)
  \/ handle_irq_push(h)
  \/ handle_irq_signal(h)

ConsoleStep ==
  \/ uart_rx_wait
  \/ pop_c
  \/ pop_seq1
  \/ pop_seq2
  \/ decode

-----------------------------------------------------------------------------
(* Properties.                                                             *)

\* The handlers that have put a byte into the buffer and not yet signalled it.
Signalling == {h \in Handler : irq[h] = "signal"}
InFlight == Cardinality(Signalling)

\* The console has taken a token and not yet its byte.
InHand == IF con \in {"pop", "pop1", "pop2"} THEN 1 ELSE 0

\* One token for every byte in the buffer, through every interleaving of the
\* handlers and the console, wherever a handler is preempted and whatever the
\* buffer drops when it is full: no byte is left in the buffer without a token
\* to wake the console for it.
TokenPerByte == Len(q) = sem + InFlight + InHand

\* console_readline() ignores what uart_buf_pop() returns for the second and
\* the third byte of an escape sequence, and never reads an uninitialised one.
SequenceInitialised == con = "decode" => seq1 \in Byte /\ seq2 \in Byte

=============================================================================
