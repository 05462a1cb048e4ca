-------------------------------- MODULE Vma --------------------------------
(***************************************************************************)
(* The virtual memory areas of one MM_STRUCT: vma_add(), vma_find() and    *)
(* vma_remove() of src/mm/mm.c.  Addresses are in pages: vma_add() asserts *)
(* that its bounds are page aligned, and do_mem_abort() looks up the page  *)
(* of the faulting address.  Entries past vma_count are never read.        *)
(***************************************************************************)
EXTENDS Integers, Sequences

CONSTANTS MaxVmaCount,   \* MAX_VMA_COUNT
          Pages,         \* bound: areas lie in 0..Pages
          Flags

ASSUME VmaAssumption == MaxVmaCount \in Nat /\ Pages \in Nat

VARIABLES vmas,   \* vmas[0..vma_count-1], in array order
          ret     \* what the last call returned

vars == <<vmas, ret>>

Area == [virt_start : 0..Pages, virt_end : 0..Pages, flags : Flags]

Init == vmas = <<>> /\ ret = <<"none">>

OverlapsAtStart(a, start, end) == a.virt_start <= start /\ start < a.virt_end
Overlaps(a, start, end) == start < a.virt_end /\ end > a.virt_start

TableFull == Len(vmas) >= MaxVmaCount

\* vma_add(): ASSERT(va_start < va_end), then table full, overlap, or append.
vma_add(start, end, flags) ==
  /\ start < end
  /\ \/ /\ TableFull
        /\ ret' = <<"E_NOMEM">>
        /\ UNCHANGED vmas
     \/ /\ ~TableFull
        /\ \E i \in 1..Len(vmas) : Overlaps(vmas[i], start, end)
        /\ ret' = <<"E_INVAL">>
        /\ UNCHANGED vmas
     \/ /\ ~TableFull
        /\ \A i \in 1..Len(vmas) : ~Overlaps(vmas[i], start, end)
        /\ vmas' = Append(vmas, [virt_start |-> start, virt_end |-> end,
                                 flags |-> flags])
        /\ ret' = <<"E_OK">>

\* Array without its i-th entry, the later ones shifted down by one.
ShiftedTooFar(s, i) == [j \in 1..Len(s)-1 |-> IF j <= i THEN s[j] ELSE s[j+1]]
Shifted(s, i) == [j \in 1..Len(s)-1 |-> IF j < i THEN s[j] ELSE s[j+1]]

\* vma_remove(): the first area that starts at start, if any.
vma_remove(start) ==
  /\ \/ \E i \in 1..Len(vmas) :
          /\ vmas[i].virt_start = start
          /\ \A j \in 1..i-1 : vmas[j].virt_start # start
          /\ vmas' = Shifted(vmas, i)
     \/ /\ \A i \in 1..Len(vmas) : vmas[i].virt_start # start
        /\ UNCHANGED vmas
  /\ ret' = <<"void">>

\* vma_find(): the first area in array order that holds addr, or NULL.
Holds(a, addr) == a.virt_start <= addr /\ addr < a.virt_end

vma_find(addr) ==
  /\ \/ \E i \in 1..Len(vmas) :
          /\ Holds(vmas[i], addr)
          /\ \A j \in 1..i-1 : ~Holds(vmas[j], addr)
          /\ ret' = <<"area", vmas[i]>>
     \/ /\ \A i \in 1..Len(vmas) : ~Holds(vmas[i], addr)
        /\ ret' = <<"NULL">>
  /\ UNCHANGED vmas

Next ==
  \/ \E start, end \in 0..Pages, flags \in Flags : vma_add(start, end, flags)
  \/ \E start \in 0..Pages : vma_remove(start)
  \/ \E addr \in 0..Pages : vma_find(addr)

Spec == Init /\ [][Next]_vars

-----------------------------------------------------------------------------
(* Properties.                                                             *)

\* The table never outgrows its array, and every area in it is not empty.
TypeOK ==
  /\ vmas \in Seq(Area)
  /\ Len(vmas) <= MaxVmaCount
  /\ \A i \in 1..Len(vmas) : vmas[i].virt_start < vmas[i].virt_end

\* No two areas share a page, after any sequence of vma_add() and vma_remove();
\* hence the first match of vma_find() is the only one.
Disjoint ==
  \A i, j \in 1..Len(vmas) : i # j =>
    \/ vmas[i].virt_end <= vmas[j].virt_start
    \/ vmas[j].virt_end <= vmas[i].virt_start

\* The pages some area holds.
Mapped(s) == {p \in 0..Pages-1 : \E i \in 1..Len(s) : Holds(s[i], p)}

\* vma_remove() takes away the pages of the area that starts there and of no
\* other, whatever its place in the array; no other call unmaps a page.
RemovesOneArea ==
  [][\A start \in 0..Pages :
       /\ vma_remove(start) =>
            Mapped(vmas') = {p \in Mapped(vmas) :
              \A i \in 1..Len(vmas) :
                vmas[i].virt_start = start => ~Holds(vmas[i], p)}
       /\ ret' # <<"void">> => Mapped(vmas) \subseteq Mapped(vmas')]_vars

=============================================================================
