------------------------------ MODULE Kmalloc ------------------------------
(***************************************************************************)
(* The kernel heap of src/mm/kmalloc.c: kmalloc() and kfree() called at    *)
(* the same time on several cores, over the pool's bitmap and, for sizes   *)
(* above PAGE_SIZE, over the page frames of src/mm/mm.c.  The sections     *)
(* under bitmap_lock and under mem_map_lock are one step each; the header  *)
(* in front of an allocation is written and cleared outside the lock.      *)
(* Memory is a row of blocks; the bitmap is that of module Bitmap.         *)
(***************************************************************************)
EXTENDS Bitmap, FiniteSets, FiniteSetsExt

CONSTANTS Caller,      \* the tasks that use the heap, one call at a time
          BlockSize,   \* KMALLOC_BLOCK_SIZE
          PageSize,    \* PAGE_SIZE
          Frame,       \* the free page frames kmalloc() may be given
          MaxSize,     \* bound: the largest size asked for
          None

ASSUME KmallocAssumption ==
  /\ BlockSize \in Nat \ {0} /\ PageSize \in Nat /\ MaxSize \in Nat
  /\ Frame \cap Index = {} /\ None \notin Frame \cup Index

VARIABLES
  bitmap,   \* the words of the bitmap, one bit for each block of the pool
  block,    \* what the first bytes of each block hold: a header, or else
  frames,   \* the frames whose mem_map flags are FRAME_KERNEL
  call,     \* the call each caller is in
  live      \* the allocations that callers hold: [ptr, size]

vars == <<bitmap, block, frames, call, live>>

Block == Index     \* KMALLOC_NUM_BLOCKS is the bitmap's num_bits

NoCall == [at |-> "idle", first |-> 0, num |-> 0, size |-> 0]
Header(n) == [magic |-> TRUE, num_blocks |-> n]
NotHeader == [magic |-> FALSE, num_blocks |-> 0]   \* zeroed, stale or data

\* The blocks of an allocation of num blocks whose header is in first.
Run(first, num) == first..first+num-1

\* kmalloc_init(): bitmap_init(), and a zeroed pool from get_free_pages().
Init ==
  /\ bitmap = bitmap_init
  /\ block = [b \in Block |-> NotHeader]
  /\ frames = {}
  /\ call = [c \in Caller |-> NoCall]
  /\ live = {}

-----------------------------------------------------------------------------
\* Header and payload, rounded up to blocks.
RoundedDown(size) == (size + BlockSize) \div BlockSize
NumBlocksFor(size) == (size + BlockSize + BlockSize - 1) \div BlockSize

\* kmalloc() of at most a page, the section under bitmap_lock.
Reserve(c, size) ==
  LET num   == NumBlocksFor(size)
      first == bitmap_find_clear_run(bitmap, num)
  IN  /\ call[c].at = "idle"
      /\ size \in 1..PageSize
      /\ first # -1     \* else kmalloc() returns NULL
      /\ bitmap' = bitmap_set_range(bitmap, first, num)
      /\ call' = [call EXCEPT ![c] = [at |-> "header", first |-> first,
                                      num |-> num, size |-> size]]
      /\ UNCHANGED <<block, frames, live>>

\* The header is written after the unlock; then kmalloc() returns.
WriteHeader(c) ==
  /\ call[c].at = "header"
  /\ block' = [block EXCEPT ![call[c].first] = Header(call[c].num)]
  /\ live' = live \cup {[ptr |-> call[c].first, size |-> call[c].size]}
  /\ call' = [call EXCEPT ![c] = NoCall]
  /\ UNCHANGED <<bitmap, frames>>

(* kmalloc() of more than a page: one free frame, whatever the size.  When *)
(* get_free_page() returns 0 the caller gets VA_START, which is not NULL.  *)
ReserveFrame(c, size) ==
  /\ call[c].at = "idle"
  /\ size > PageSize
  /\ IF frames = Frame
     THEN /\ live' = live \cup {[ptr |-> None, size |-> size]}
          /\ UNCHANGED frames
     ELSE \E f \in Frame \ frames :
            /\ frames' = frames \cup {f}
            /\ live' = live \cup {[ptr |-> f, size |-> size]}
  /\ UNCHANGED <<bitmap, block, call>>

\* The owner fills all the bytes it asked for, which lie after the header.
Fill(a) ==
  /\ a \in live
  /\ a.ptr \in Block
  /\ block' = [b \in Block |->
       IF b \in a.ptr + 1..a.ptr + (a.size + BlockSize - 1) \div BlockSize
       THEN NotHeader ELSE block[b]]
  /\ UNCHANGED <<bitmap, frames, call, live>>

\* kfree() of a pool address: the header is read and its magic cleared ...
ClearHeader(c, a) ==
  /\ call[c].at = "idle"
  /\ a \in live
  /\ a.ptr \in Block
  /\ block[a.ptr].magic           \* ASSERT
  /\ call' = [call EXCEPT ![c] = [at |-> "release", first |-> a.ptr,
                                  num |-> block[a.ptr].num_blocks, size |-> 0]]
  /\ block' = [block EXCEPT ![a.ptr].magic = FALSE]
  /\ live' = live \ {a}
  /\ UNCHANGED <<bitmap, frames>>

\* ... and the bits are cleared under bitmap_lock.
Release(c) ==
  /\ call[c].at = "release"
  /\ bitmap' = bitmap_clear_range(bitmap, call[c].first, call[c].num)
  /\ call' = [call EXCEPT ![c] = NoCall]
  /\ UNCHANGED <<block, frames, live>>

\* kfree() of an address outside the pool: free_page().
ReleaseFrame(c, a) ==
  /\ call[c].at = "idle"
  /\ a \in live
  /\ a.ptr \in Frame
  /\ frames' = frames \ {a.ptr}
  /\ live' = live \ {a}
  /\ UNCHANGED <<bitmap, block, call>>

Next ==
  \/ \E c \in Caller, size \in 1..MaxSize : Reserve(c, size)
  \/ \E c \in Caller, size \in 1..MaxSize : ReserveFrame(c, size)
  \/ \E c \in Caller : WriteHeader(c)
  \/ \E c \in Caller : Release(c)
  \/ \E a \in live : Fill(a)
  \/ \E c \in Caller, a \in live : ClearHeader(c, a)
  \/ \E c \in Caller, a \in live : ReleaseFrame(c, a)

Spec == Init /\ [][Next]_vars

-----------------------------------------------------------------------------
(* Properties.                                                             *)

Pooled == {a \in live : a.ptr \in Block}
Calls(at) == {c \in Caller : call[c].at = at}

\* Every run of blocks that somebody holds, or is about to hold or to release.
HeldRuns ==
  {Run(a.ptr, NumBlocksFor(a.size)) : a \in Pooled} \cup
  {Run(call[c].first, call[c].num) : c \in Calls("header") \cup Calls("release")}

SetBits == {n \in Index : bitmap_test(bitmap, n)}

\* The bitmap accounts for exactly the blocks that are held: no block leaks and
\* none is handed out while its last owner still uses it or is releasing it,
\* although headers are written and cleared outside bitmap_lock.
PoolExact ==
  /\ SetBits = UNION HeldRuns
  /\ Cardinality(HeldRuns) = Cardinality(Pooled)
                             + Cardinality(Calls("header") \cup Calls("release"))
  /\ \A r, s \in HeldRuns : r # s => r \cap s = {}

\* kfree()'s ASSERT never fires on a pointer that kmalloc() returned: no owner
\* that stays inside the bytes it asked for reaches a neighbour's header, and
\* the header still tells how many blocks to release.
HeaderIntact ==
  \A a \in Pooled : block[a.ptr] = Header(NumBlocksFor(a.size))

\* The places where a run of count clear bits fits.
Fits(count) ==
  {b \in Index : b + count <= NumBits /\ (b..b+count-1) \cap SetBits = {}}

\* bitmap_find_clear_run() returns the lowest place where the run fits, and -1
\* only when it fits nowhere, although runs cross the words of the bitmap and
\* may end at its last bit: kmalloc() fails only when the pool has no such run.
FindsFirstFit ==
  \A count \in 1..NumBits :
    bitmap_find_clear_run(bitmap, count) =
      IF Fits(count) = {} THEN -1 ELSE Min(Fits(count))

=============================================================================
