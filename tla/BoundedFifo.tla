---------------------------- MODULE BoundedFifo ----------------------------
(***************************************************************************)
(* What a ring buffer of src/lib/ring_buf.c promises its callers: a first- *)
(* in first-out queue of at most Capacity - 1 elements, whose newest       *)
(* elements can be looked at without removing them.  ret is what the last  *)
(* call returned: its return value and the element it copied out.          *)
(***************************************************************************)
EXTENDS Integers, Sequences

CONSTANTS Elem, Capacity, None

VARIABLES q, ret
vars == <<q, ret>>

Returns(v, e) == ret' = [value |-> v, elem |-> e]

Init == q = <<>> /\ ret = [value |-> 0, elem |-> None]

Full  == Len(q) = Capacity - 1
Empty == q = <<>>

push(e) ==
  \/ Full /\ Returns(0, None) /\ UNCHANGED q
  \/ ~Full /\ Returns(1, None) /\ q' = Append(q, e)

pop ==
  \/ Empty /\ Returns(0, None) /\ UNCHANGED q
  \/ ~Empty /\ Returns(1, Head(q)) /\ q' = Tail(q)

\* offset 0 = most recently pushed
peek(offset) ==
  /\ \/ offset >= Len(q) /\ Returns(0, None)
     \/ offset < Len(q) /\ Returns(1, q[Len(q) - offset])
  /\ UNCHANGED q

is_empty == Returns(IF Empty THEN 1 ELSE 0, None) /\ UNCHANGED q
is_full  == Returns(IF Full THEN 1 ELSE 0, None) /\ UNCHANGED q
count    == Returns(Len(q), None) /\ UNCHANGED q

Next ==
  \/ \E e \in Elem : push(e)
  \/ pop
  \/ \E offset \in 0..Capacity : peek(offset)
  \/ is_empty
  \/ is_full
  \/ count

Spec == Init /\ [][Next]_vars
=============================================================================
