------------------------------ MODULE RingBuf ------------------------------
(***************************************************************************)
(* The ring buffer of src/lib/ring_buf.c.  Every operation is one section  *)
(* under rb->lock, taken with IRQs masked, hence one step.  Indices are    *)
(* unsigned int: arithmetic is modulo UIntSize.  An element is copied      *)
(* whole, elem_size bytes from its slot.                                   *)
(***************************************************************************)
EXTENDS Integers, Sequences

CONSTANTS Elem,
          Capacity,   \* rb->capacity
          UIntSize,   \* 2^32 in the code
          None        \* nothing was copied out

ASSUME RingBufAssumption ==
  /\ Elem # {}
  /\ Capacity \in Nat \ {0}
  /\ UIntSize \in Nat /\ 2 * Capacity <= UIntSize

VARIABLES head, tail, slots,
          ret   \* what the last call returned and copied out

vars == <<head, tail, slots, ret>>

U(n) == n % UIntSize
Returns(v, e) == ret' = [value |-> v, elem |-> e]

\* RING_BUF_INIT
Init ==
  /\ head = 0
  /\ tail = 0
  /\ slots = [i \in 0..Capacity-1 |-> CHOOSE e \in Elem : TRUE]
  /\ ret = [value |-> 0, elem |-> None]

-----------------------------------------------------------------------------
Advance(n) == U(n + 1) % Capacity

IsFull  == Advance(head) = tail
IsEmpty == tail = head

Used == U(head - tail + Capacity) % Capacity

\* ring_buf_push(): full, drop; or store and advance.
push(e) ==
  \/ /\ IsFull
     /\ Returns(0, None)
     /\ UNCHANGED <<head, tail, slots>>
  \/ /\ ~IsFull
     /\ slots' = [slots EXCEPT ![head] = e]
     /\ head' = Advance(head)
     /\ Returns(1, None)
     /\ UNCHANGED tail

pop ==
  \/ /\ IsEmpty
     /\ Returns(0, None)
     /\ UNCHANGED <<head, tail, slots>>
  \/ /\ ~IsEmpty
     /\ Returns(1, slots[tail])
     /\ tail' = Advance(tail)
     /\ UNCHANGED <<head, slots>>

\* offset 0 = most recently pushed, 1 = one before that, etc.
SlotOfHead(offset) == U(head - offset + Capacity) % Capacity
SlotOf(offset) == U(head - 1 - offset + Capacity) % Capacity

peek(offset) ==
  /\ \/ offset >= Used /\ Returns(0, None)
     \/ offset < Used /\ Returns(1, slots[SlotOf(offset)])
  /\ UNCHANGED <<head, tail, slots>>

is_empty == Returns(IF IsEmpty THEN 1 ELSE 0, None) /\ UNCHANGED <<head, tail, slots>>
is_full  == Returns(IF IsFull THEN 1 ELSE 0, None) /\ UNCHANGED <<head, tail, slots>>
count    == Returns(Used, None) /\ UNCHANGED <<head, tail, slots>>

Next ==
  \/ \E e \in Elem : push(e)
  \/ pop
  \/ \E offset \in 0..Capacity : peek(offset)
  \/ is_empty
  \/ is_full
  \/ count

Spec == Init /\ [][Next]_vars

-----------------------------------------------------------------------------
\* The indices stay inside the storage, and every element written is an Elem.
TypeOK ==
  /\ head \in 0..Capacity-1
  /\ tail \in 0..Capacity-1
  /\ slots \in [0..Capacity-1 -> Elem]
  /\ ret.value \in 0..Capacity /\ ret.elem \in Elem \cup {None}

\* The elements between tail and head, oldest first.
Contents == [i \in 1..Used |-> slots[(tail + i - 1) % Capacity]]

Fifo == INSTANCE BoundedFifo WITH q <- Contents

\* push, pop, peek and the counters return what a bounded queue returns,
\* through every wrap-around of the two indices: the ring buffer implements
\* BoundedFifo, one slot of its storage being given up to tell full from empty.
RefinesFifo == Fifo!Spec

=============================================================================
