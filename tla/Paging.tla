------------------------------- MODULE Paging -------------------------------
(***************************************************************************)
(* Page frames and page tables of src/mm/mm.c: get_free_page(), map_page()  *)
(* with its tables of four levels, and its two users, do_mem_abort() and   *)
(* the copy_virt_memory() of a forked child.                               *)
(* A parent task, whose areas are those of module Vma, and its child work  *)
(* at the same time; the sections under mem_map_lock are one step each,    *)
(* and a frame just taken is zeroed while only its taker knows it.  The    *)
(* frames at first hold what earlier owners left in them.                  *)
(*                                                                         *)
(* Frames are numbered from 1 and 0 is the null address.  A frame is its   *)
(* words; only the words of tables matter, so a user page stays all zero.  *)
(***************************************************************************)
EXTENDS Vma, FiniteSets, FiniteSetsExt, SequencesExt

CONSTANTS NumFrames,         \* PAGING_PAGES
          Fanout,            \* PTRS_PER_TABLE
          MaxProcessPages,   \* MAX_PROCESS_PAGES
          Top                \* level of the PGD: 3 in the code, the PTEs' being 0

ASSUME PagingAssumption ==
  /\ NumFrames \in Nat
  /\ Fanout \in Nat /\ Fanout >= 2
  /\ MaxProcessPages \in Nat /\ Top \in Nat

Frame == 1..NumFrames
Addr  == 0..Pages-1
Task  == {"parent", "child"}

VARIABLES
  mem_map,        \* flags of every frame
  memory,         \* the words of every frame
  pgd,            \* mm.pgd of each task, 0 before its first page
  kernel_pages,   \* mm.kernel_pages[0..kernel_pages_count-1]
  child_vmas,     \* mm.vmas of the child
  fork,           \* "unborn", "copying", or what copy_virt_memory() returned
  todo,           \* the pages copy_virt_memory() has still to copy
  call,           \* the map_page() each task is in, with what leads to it
  wild            \* the last step accessed memory outside its arrays

paging_vars == <<mem_map, memory, pgd, kernel_pages, child_vmas, fork, todo,
                 call, wild>>

Idle == [at |-> "idle", dst |-> "parent", va |-> 0, page |-> 0, new |-> 0]

\* A call that has its page, not marked yet.
Begun(dst, va, page) ==
  [at |-> "user", dst |-> dst, va |-> va, page |-> page, new |-> 0]

PagingInit ==
  /\ Init
  /\ mem_map = [f \in Frame |-> "FREE"]
  /\ memory = [f \in Frame |-> [i \in 0..Fanout-1 |-> f]]     \* left behind
  /\ pgd = [t \in Task |-> 0]
  /\ kernel_pages = [t \in Task |-> <<>>]
  /\ child_vmas = <<>>
  /\ fork = "unborn"
  /\ todo = {}
  /\ call = [t \in Task |-> Idle]
  /\ wild = FALSE

-----------------------------------------------------------------------------
\* va >> shift, and the index of va in a table: the last bits of it.
Upper[level \in 0..Top+1] ==
  [va \in Addr |-> IF level = 0 THEN va ELSE Upper[level-1][va] \div Fanout]

IndexOneUp(va, level) == Upper[level+1][va] % Fanout
Indices == [level \in 0..Top |-> [va \in Addr |-> Upper[level][va] % Fanout]]
Index(va, level) == Indices[level][va]

\* A task's addresses have no bits above the index of the PGD: of larger ones
\* nothing is translated through TTBR0 (TCR_T0SZ, mmu.h:28).
ASSUME AddressesFit == \A va \in Addr : Upper[Top+1][va] = 0

\* The way of va through the tables below root: node[l] is the table of level l,
\* node[-1] the page, or 0.
TreeNodes(words, root, va) ==
  LET node[l \in -1..Top] ==
        IF l = Top THEN root
        ELSE LET above == node[l+1]
             IN  IF above = 0 THEN 0 ELSE words[above][Index(va, l+1)]
  IN  node

Nodes(t, va) == TreeNodes(memory, pgd[t], va)
pt_walk(t, va) == Nodes(t, va)[-1]

Areas(t) == IF t = "parent" THEN vmas ELSE child_vmas
InArea(areas, va) == \E i \in 1..Len(areas) : Holds(areas[i], va)

(* get_free_page(): the first free frame, zeroed; 0 when there is none.    *)
Free == {f \in Frame : mem_map[f] = "FREE"}
FirstFree == IF Free = {} THEN 0 ELSE Min(Free)

NotZeroed(f) == memory[f]
Zeroed(f) == [i \in 0..Fanout-1 |-> 0]

Take(f) ==
  /\ mem_map' = [mem_map EXCEPT ![f] = "KERNEL"]
  /\ memory' = [memory EXCEPT ![f] = Zeroed(f)]

\* Nothing is claimed of what follows an access outside the arrays.
GoWild ==
  /\ wild' = TRUE
  /\ UNCHANGED <<mem_map, memory, pgd, kernel_pages, call>>

-----------------------------------------------------------------------------
(* do_mem_abort(): a translation fault of a running task, in one of its    *)
(* areas, and a frame for it.  Outside its areas, or without a frame, the  *)
(* call fails and changes nothing.                                         *)
Executes(t) ==
  /\ call[t].at = "idle"
  /\ IF t = "parent" THEN fork # "copying" ELSE fork \in {"E_OK", "E_NOMEM"}

do_mem_abort(t, va) ==
  /\ Executes(t)
  /\ pt_walk(t, va) = 0      \* the hardware's walk
  /\ InArea(Areas(t), va)
  /\ FirstFree # 0
  /\ Take(FirstFree)
  /\ call' = [call EXCEPT ![t] = Begun(t, va, FirstFree)]
  /\ UNCHANGED <<pgd, kernel_pages, child_vmas, fork, todo, wild>>

\* The pages of copy_virt_memory()'s inner loop, those it does not skip, and the
\* one at which its two loops stand: the lowest of the first area.
PagesOfTail(area) == area.virt_start+1..area.virt_end-1
PagesOf(area) == area.virt_start..area.virt_end-1

Mappable ==
  {va \in UNION {PagesOf(vmas[i]) : i \in 1..Len(vmas)} : pt_walk("parent", va) # 0}

NextToCopy ==
  LET i == Min({j \in 1..Len(vmas) : todo \cap PagesOf(vmas[j]) # {}})
  IN  Min(todo \cap PagesOf(vmas[i]))

\* copy_process() of a user task calls copy_virt_memory(), which copies the
\* areas before it turns to the pages.
copy_virt_memory ==
  /\ Executes("parent")
  /\ fork = "unborn"
  /\ child_vmas' = vmas
  /\ todo' = Mappable
  /\ fork' = "copying"
  /\ UNCHANGED <<mem_map, memory, pgd, kernel_pages, call, wild>>

(* allocate_user_page(), for the next page that the parent has mapped; the *)
(* first one for which there is no frame ends the copy.  copy_process()    *)
(* does not look at the result: the child starts.                          *)
copy_page ==
  /\ fork = "copying" /\ call["parent"].at = "idle" /\ todo # {}
  /\ \/ /\ FirstFree # 0
        /\ Take(FirstFree)
        /\ call' = [call EXCEPT !["parent"] = Begun("child", NextToCopy, FirstFree)]
        /\ todo' = todo \ {NextToCopy}
        /\ UNCHANGED fork
     \/ /\ FirstFree = 0
        /\ fork' = "E_NOMEM"
        /\ todo' = {}
        /\ UNCHANGED <<mem_map, memory, call>>
  /\ UNCHANGED <<pgd, kernel_pages, child_vmas, wild>>

copy_done ==
  /\ fork = "copying" /\ call["parent"].at = "idle" /\ todo = {}
  /\ fork' = "E_OK"
  /\ UNCHANGED <<mem_map, memory, pgd, kernel_pages, child_vmas, todo, call,
                 wild>>

\* Both users mark the frame in a section of its own, then call map_page().
Unmarked(f) == mem_map[f]
Marked(f) == "USER"

mark_user(t) ==
  /\ call[t].at = "user"
  /\ mem_map' = [mem_map EXCEPT ![call[t].page] = Marked(call[t].page)]
  /\ call' = [call EXCEPT ![t].at = "map"]
  /\ UNCHANGED <<memory, pgd, kernel_pages, child_vmas, fork, todo, wild>>

-----------------------------------------------------------------------------
(* map_page().  Only the task itself reads and writes its tables, so that   *)
(* it follows the entries that are there in the step that needs them.      *)
(* Every table is recorded; kernel_pages_count is not tested against the   *)
(* size of kernel_pages, and one entry too many lands in the fields        *)
(* behind it.                                                              *)
RecordsUpper(pages, f, level) == IF level = 0 THEN pages ELSE Append(pages, f)
Recorded(pages, f, level) == Append(pages, f)

RecordFull(t) == Len(kernel_pages[t]) = MaxProcessPages

\* The lowest level that has a table for the page of the call.
Reached(t) ==
  Min({l \in 0..Top : Nodes(call[t].dst, call[t].va)[l] # 0})

\* The PGD comes with the first page.  That get_free_page() may return 0 is not
\* tested here, nor in map_table().
map_page_pgd(t) ==
  LET d == call[t].dst
  IN  /\ call[t].at = "map" /\ pgd[d] = 0
      /\ \/ /\ FirstFree # 0 /\ ~RecordFull(d)
            /\ Take(FirstFree)
            /\ pgd' = [pgd EXCEPT ![d] = FirstFree]
            /\ kernel_pages' = [kernel_pages EXCEPT
                                  ![d] = Recorded(@, FirstFree, Top)]
            /\ UNCHANGED <<call, wild>>
         \/ (FirstFree = 0 \/ RecordFull(d)) /\ GoWild
      /\ UNCHANGED <<child_vmas, fork, todo>>

(* map_table() where an entry is missing: a frame for the next table.  A    *)
(* result 0 indexes mem_map at FRAME_IDX(0), far outside it.               *)
map_table(t) ==
  /\ call[t].at = "map" /\ pgd[call[t].dst] # 0 /\ Reached(t) > 0
  /\ \/ /\ FirstFree # 0
        /\ Take(FirstFree)
        /\ call' = [call EXCEPT ![t].at = "link", ![t].new = FirstFree]
        /\ UNCHANGED <<pgd, kernel_pages, wild>>
     \/ FirstFree = 0 /\ GoWild
  /\ UNCHANGED <<child_vmas, fork, todo>>

\* The rest of map_table(), and the record that map_page() makes of the table.
map_table_link(t) ==
  LET c     == call[t]
      level == Reached(t)
  IN  /\ c.at = "link"
      /\ \/ /\ ~RecordFull(c.dst)
            /\ mem_map' = [mem_map EXCEPT ![c.new] = "PAGETABLE"]
            /\ memory' = [memory EXCEPT
                 ![Nodes(c.dst, c.va)[level]][Index(c.va, level)] = c.new]
            /\ kernel_pages' = [kernel_pages EXCEPT
                                  ![c.dst] = Recorded(@, c.new, level - 1)]
            /\ call' = [call EXCEPT ![t].at = "map", ![t].new = 0]
            /\ UNCHANGED <<pgd, wild>>
         \/ RecordFull(c.dst) /\ GoWild
      /\ UNCHANGED <<child_vmas, fork, todo>>

map_table_entry(t) ==
  LET c == call[t]
  IN  /\ c.at = "map" /\ pgd[c.dst] # 0 /\ Reached(t) = 0
      /\ memory' = [memory EXCEPT ![Nodes(c.dst, c.va)[0]][Index(c.va, 0)] = c.page]
      /\ call' = [call EXCEPT ![t] = Idle]
      /\ UNCHANGED <<mem_map, pgd, kernel_pages, child_vmas, fork, todo, wild>>

-----------------------------------------------------------------------------
\* The parent's areas are laid out before it touches its memory.
AreaStep ==
  /\ pgd["parent"] = 0 /\ call["parent"].at = "idle" /\ fork = "unborn"
  /\ Next
  /\ UNCHANGED paging_vars

MapStep(t) ==
  \/ mark_user(t)
  \/ map_page_pgd(t)
  \/ map_table(t)
  \/ map_table_link(t)
  \/ map_table_entry(t)

PagingNext ==
  /\ ~wild
  /\ \/ AreaStep
     \/ /\ \E t \in Task, va \in Addr : do_mem_abort(t, va)
        /\ ret' = <<"none">>
        /\ UNCHANGED vmas
     \/ /\ \/ \E t \in Task : MapStep(t)
           \/ copy_virt_memory
           \/ copy_page
           \/ copy_done
        /\ UNCHANGED vars

PagingSpec == PagingInit /\ [][PagingNext]_<<vars, paging_vars>>

-----------------------------------------------------------------------------
(* Properties.                                                             *)

\* The places that hold a frame: a PGD, an entry of a frame that is in use, the
\* call that has taken it and not yet entered it.
Place == ({"pgd", "page", "new"} \X Task \X {0}) \cup
         ({"entry"} \X Frame \X (0..Fanout-1))

Held(p) ==
  CASE p[1] = "pgd"   -> pgd[p[2]]
    [] p[1] = "page"  -> call[p[2]].page
    [] p[1] = "new"   -> call[p[2]].new
    [] p[1] = "entry" -> IF mem_map[p[2]] = "FREE" THEN 0 ELSE memory[p[2]][p[3]]

Holders(f) == {p \in Place : Held(p) = f}

\* Every frame that is not free is in one place and a free one in none: two
\* tasks never share a page or a table, whatever they map at the same time and
\* whatever earlier owners left in the frames, and no frame is lost.
FramesOwned ==
  \A f \in Frame :
    Cardinality(Holders(f)) = IF mem_map[f] = "FREE" THEN 0 ELSE 1

\* The counts of get_mem_stats() are true of what is mapped: pages are marked
\* FRAME_USER and tables below the PGD FRAME_PAGETABLE.
FlagsTellUse ==
  \A t \in Task, va \in Addr :
    /\ pt_walk(t, va) # 0 => mem_map[pt_walk(t, va)] = "USER"
    /\ \A l \in 0..Top-1 :
         Nodes(t, va)[l] # 0 => mem_map[Nodes(t, va)[l]] = "PAGETABLE"

\* kernel_pages lists every table of the task once, and nothing else.
KernelPagesExact ==
  \A t \in Task :
    /\ IsInjective(kernel_pages[t])
    /\ ToSet(kernel_pages[t]) =
         {Nodes(t, va)[l] : va \in Addr, l \in 0..Top} \ {0}

\* A page comes into a task's address space only by the call that was made for
\* it, with the frame taken for it, and is never replaced.
MapsOnlyThatPage ==
  [][\A t \in Task, va \in Addr : pt_walk(t, va)' # pt_walk(t, va) =>
       /\ pt_walk(t, va) = 0
       /\ \E u \in Task : /\ call[u].dst = t /\ call[u].va = va
                          /\ pt_walk(t, va)' = call[u].page]_<<vars, paging_vars>>

\* When copy_virt_memory() returns E_OK the child has exactly the pages that the
\* parent has mapped inside its areas, in frames of its own (FramesOwned).
CopyComplete ==
  [][fork = "copying" /\ fork' = "E_OK" =>
       \A va \in Addr :
         pt_walk("child", va) # 0 <=> InArea(vmas, va) /\ pt_walk("parent", va) # 0
    ]_<<vars, paging_vars>>

=============================================================================
