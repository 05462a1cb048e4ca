------------------------------- MODULE Bitmap -------------------------------
(***************************************************************************)
(* The bitmap of src/lib/bitmap.c: an array of words, indexed bit by bit,  *)
(* and the search for a run of clear bits, as operators on the array.  A   *)
(* word is the set of its bits that are 1.                                 *)
(***************************************************************************)
EXTENDS Integers

CONSTANTS WordBits,   \* WORD_BITS: 64 in the code
          NumBits     \* bm->num_bits

ASSUME BitmapAssumption == WordBits \in Nat \ {0} /\ NumBits \in Nat \ {0}

Index == 0..NumBits-1

\* BITMAP_WORDS(num_bits)
NumWords == (NumBits + WordBits - 1) \div WordBits

WORD(n) == n \div WordBits
BIT(n)  == n % WordBits

bitmap_init == [w \in 0..NumWords-1 |-> {}]

bitmap_test(words, n) == BIT(n) \in words[WORD(n)]

\* bitmap_set_range() and bitmap_clear_range(), bit by bit: the bits of word w
\* that lie in the range.
InWordOfStart(w, start, count) ==
  {BIT(i) : i \in {j \in start..start+count-1 : WORD(start) = w}}
InRange(w, start, count) ==
  {BIT(i) : i \in {j \in start..start+count-1 : WORD(j) = w}}

bitmap_set_range(words, start, count) ==
  [w \in DOMAIN words |-> words[w] \cup InRange(w, start, count)]

bitmap_clear_range(words, start, count) ==
  [w \in DOMAIN words |-> words[w] \ InRange(w, start, count)]

(* bitmap_find_clear_run(): one pass.  Scan[i] is the state of the loop     *)
(* before bit i: where the current run starts, how long it is, and the      *)
(* result once there is one.                                                *)
RunKept(words, scan, i) ==
  IF bitmap_test(words, i) THEN scan
  ELSE [scan EXCEPT !.len = @ + 1, !.start = IF scan.len = 0 THEN i ELSE @]
RunReset(words, scan, i) ==
  IF bitmap_test(words, i) THEN [scan EXCEPT !.len = 0]
  ELSE [scan EXCEPT !.len = @ + 1, !.start = IF scan.len = 0 THEN i ELSE @]

bitmap_find_clear_run(words, count) ==
  LET Scan[i \in 0..NumBits] ==
        IF i = 0 THEN [start |-> 0, len |-> 0, found |-> -1]
        ELSE LET before == Scan[i-1]
                 after  == RunReset(words, before, i-1)
             IN  IF before.found # -1 THEN before
                 ELSE IF ~bitmap_test(words, i-1) /\ after.len = count
                      THEN [after EXCEPT !.found = after.start]
                      ELSE after
  IN  Scan[NumBits].found

=============================================================================
