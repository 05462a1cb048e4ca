--------------------------- MODULE KmallocProofs ---------------------------
(***************************************************************************)
(* That the heap's bitmap accounts for exactly the blocks in use, that a   *)
(* header survives until kfree() reads it, and that the search of the      *)
(* bitmap finds the lowest run, for every number of callers, every size of *)
(* word, pool, block and page.  The search is a recursive function: what   *)
(* it computes is proved from the least bit where it would go wrong.       *)
(***************************************************************************)
EXTENDS Kmalloc, FiniteSetTheorems, FunctionTheorems, WellFoundedInduction,
        TLAPS

-----------------------------------------------------------------------------
(* Induction over the naturals, without an operator as a parameter.        *)

LEMMA MinimalElement ==
  ASSUME NEW R, NEW N, IsWellFoundedOn(R, N), NEW S, S \subseteq N, S # {}
  PROVE  \E m \in S : \A n \in S : <<n, m>> \notin R
BY WFMin

\* A set of naturals that is not empty has a least element.
LEMMA LeastNumber ==
  ASSUME NEW S, S \subseteq Nat, S # {}
  PROVE  \E m \in S : \A n \in S : m <= n
<1>1. PICK R : /\ IsWellFoundedOn(R, Nat)
               /\ \A x, y \in Nat : x < y => <<x, y>> \in R
  <2>1. IsWellFoundedOn(OpToRel(<, Nat), Nat)
    BY NatLessThanWellFounded, Zenon
  <2>2. \A x, y \in Nat : x < y => <<x, y>> \in OpToRel(<, Nat)
    BY SMT DEF OpToRel
  <2>. QED  BY <2>1, <2>2, Zenon
<1>2. IsWellFoundedOn(R, Nat)
  BY <1>1
<1>3. PICK m \in S : \A n \in S : <<n, m>> \notin R
  BY <1>2, MinimalElement
<1>4. ASSUME NEW n \in S
      PROVE  m <= n
  <2>1. m \in Nat /\ n \in Nat
    OBVIOUS
  <2>2. ~ (n < m)
    BY <1>1, <1>3, <2>1, Zenon
  <2>. QED  BY <2>1, <2>2
<1>. QED  BY <1>4

\* What holds at 0 and is kept by one step up to n holds up to n.
LEMMA UpTo ==
  ASSUME NEW n \in Nat, NEW S, 0 \in S,
         \A i \in 1..n : i-1 \in S => i \in S
  PROVE  0..n \subseteq S
<1>. SUFFICES ASSUME ~ (0..n \subseteq S)
              PROVE  FALSE
  OBVIOUS
<1>. DEFINE Bad == (0..n) \ S
<1>0. Bad \subseteq Nat /\ Bad # {}
  OBVIOUS
<1>1. PICK m \in Bad : \A k \in Bad : m <= k
  <2>. HIDE DEF Bad
  <2>. QED  BY <1>0, LeastNumber
<1>2. m \in 1..n /\ m-1 \in 0..n
  BY <1>1
<1>3. m-1 \in S
  BY <1>1, <1>2
<1>. QED  BY <1>1, <1>2, <1>3

\* f is the function whose value at i is a step from its value at i-1.
IsRecursive(f, n, V, base, step) ==
  /\ f \in [0..n -> V]
  /\ f[0] = base
  /\ \A i \in 1..n : f[i] = step[i][f[i-1]]

\* There is such a function.
LEMMA RecursiveFunctionExists ==
  ASSUME NEW n, n \in Nat, NEW V, NEW base, base \in V,
         NEW step, step \in [1..n -> [V -> V]]
  PROVE  \E f : IsRecursive(f, n, V, base, step)
<1>. DEFINE Ok(f, m) == f[0] = base /\ \A i \in 1..m : f[i] = step[i][f[i-1]]
            S == {m \in 0..n : \E f \in [0..n -> V] : Ok(f, m)}
<1>1. 0 \in S
  <2>. DEFINE g == [i \in 0..n |-> base]
  <2>1. g \in [0..n -> V] /\ g[0] = base /\ \A i \in 1..0 : FALSE
    OBVIOUS
  <2>2. Ok(g, 0)
    BY <2>1
  <2>. HIDE DEF g, Ok
  <2>. QED  BY <2>1, <2>2
<1>2. ASSUME NEW m \in 1..n, m-1 \in S
      PROVE  m \in S
  <2>1. PICK f \in [0..n -> V] : Ok(f, m-1)
    BY <1>2
  <2>. DEFINE g == [f EXCEPT ![m] = step[m][f[m-1]]]
  <2>2. step[m][f[m-1]] \in V /\ m-1 \in 0..n /\ m \in 0..n
    OBVIOUS
  <2>3. g \in [0..n -> V]
    BY <2>2
  <2>4. g[m] = step[m][f[m-1]] /\ \A i \in 0..m-1 : g[i] = f[i]
    BY <2>2
  <2>5. \A i \in 1..m-1 : f[i] = step[i][f[i-1]]
    BY <2>1
  <2>. HIDE DEF g
  <2>6. \A i \in 1..m : g[i] = step[i][g[i-1]]
    BY <2>4, <2>5
  <2>7. g[0] = base
    BY <2>1, <2>4
  <2>8. Ok(g, m)
    BY <2>6, <2>7
  <2>. HIDE DEF Ok
  <2>. QED  BY <2>3, <2>8
<1>3. n \in S
  <2>. HIDE DEF S
  <2>1. \A m \in 1..n : m-1 \in S => m \in S
    BY <1>2
  <2>2. 0..n \subseteq S
    BY ONLY <1>1, <2>1, n \in Nat, UpTo
  <2>. QED  BY <2>2
<1>. QED  BY <1>3 DEF IsRecursive

-----------------------------------------------------------------------------
(* The search.                                                             *)

USE BitmapAssumption, KmallocAssumption

ScanState == [start : Int, len : Int, found : Int]
ScanStart == [start |-> 0, len |-> 0, found |-> -1]

\* One turn of the loop of bitmap_find_clear_run(), at bit i-1.
ScanStep(words, count, i, scan) ==
  LET after == RunReset(words, scan, i-1)
  IN  IF scan.found # -1 THEN scan
      ELSE IF ~bitmap_test(words, i-1) /\ after.len = count
           THEN [after EXCEPT !.found = after.start]
           ELSE after

LEMMA ScanStepIs ==
  ASSUME NEW words, NEW count, NEW i \in Nat \ {0}, NEW scan \in ScanState
  PROVE  LET new == ScanStep(words, count, i, scan)
             first == IF scan.len = 0 THEN i-1 ELSE scan.start
         IN  /\ new \in ScanState
             /\ scan.found # -1 => new = scan
             /\ scan.found = -1 /\ bitmap_test(words, i-1)
                  => new.len = 0 /\ new.found = -1
             /\ scan.found = -1 /\ ~bitmap_test(words, i-1)
                  => /\ new.len = scan.len + 1 /\ new.start = first
                     /\ new.found = IF scan.len + 1 = count THEN first ELSE -1
<1>. USE DEF ScanState
<1>1. CASE scan.found # -1
  BY <1>1 DEF ScanStep
<1>2. CASE scan.found = -1 /\ bitmap_test(words, i-1)
  BY <1>2 DEF ScanStep, RunReset
<1>3. CASE scan.found = -1 /\ ~bitmap_test(words, i-1)
  <2>. DEFINE first == IF scan.len = 0 THEN i-1 ELSE scan.start
              after == [start |-> first, len |-> scan.len + 1, found |-> -1]
  <2>1. first \in Int /\ after \in ScanState
    OBVIOUS
  <2>2. RunReset(words, scan, i-1) = after
    BY <1>3 DEF RunReset
  <2>3. ScanStep(words, count, i, scan) =
          IF after.len = count THEN [after EXCEPT !.found = after.start]
          ELSE after
    BY <1>3, <2>2 DEF ScanStep
  <2>. QED  BY <1>3, <2>1, <2>3
<1>. QED  BY <1>1, <1>2, <1>3

\* The recursive function of bitmap_find_clear_run() is the loop, turn by turn.
LEMMA SearchIsScan ==
  ASSUME NEW words, NEW count
  PROVE  \E scan \in [0..NumBits -> ScanState] :
           /\ scan[0] = ScanStart
           /\ \A i \in 1..NumBits : scan[i] = ScanStep(words, count, i, scan[i-1])
           /\ bitmap_find_clear_run(words, count) = scan[NumBits].found
<1>. DEFINE Loop(f) == [i \in 0..NumBits |->
              IF i = 0 THEN [start |-> 0, len |-> 0, found |-> -1]
              ELSE LET before == f[i-1]
                       after  == RunReset(words, before, i-1)
                   IN  IF before.found # -1 THEN before
                       ELSE IF ~bitmap_test(words, i-1) /\ after.len = count
                            THEN [after EXCEPT !.found = after.start]
                            ELSE after]
            scan == CHOOSE f : f = Loop(f)
<1>1. \E f : f = Loop(f)
  <2>. DEFINE step == [i \in 1..NumBits |->
                [s \in ScanState |-> ScanStep(words, count, i, s)]]
  <2>1. step \in [1..NumBits -> [ScanState -> ScanState]]
    <3>1. \A i \in 1..NumBits, s \in ScanState :
            ScanStep(words, count, i, s) \in ScanState
      BY ScanStepIs
    <3>. QED  BY <3>1
  <2>2. ScanStart \in ScanState
    BY DEF ScanStart, ScanState
  <2>. HIDE DEF step
  <2>3. PICK f : IsRecursive(f, NumBits, ScanState, ScanStart, step)
    BY <2>1, <2>2, RecursiveFunctionExists
  <2>4. ASSUME NEW i \in 1..NumBits
        PROVE  f[i] = ScanStep(words, count, i, f[i-1])
    <3>1. f[i-1] \in ScanState /\ f[i] = step[i][f[i-1]]
      BY <2>3 DEF IsRecursive
    <3>. QED  BY <3>1 DEF step
  <2>5. ASSUME NEW i \in 0..NumBits
        PROVE  f[i] = Loop(f)[i]
    <3>1. CASE i = 0
      BY <2>3, <3>1 DEF ScanStart, IsRecursive
    <3>2. CASE i # 0
      <4>1. i \in 1..NumBits
        BY <3>2
      <4>2. Loop(f)[i] = ScanStep(words, count, i, f[i-1])
        BY <3>2 DEF ScanStep
      <4>. QED  BY <2>4, <4>1, <4>2
    <3>. QED  BY <3>1, <3>2
  <2>6. f = Loop(f)
    BY <2>3, <2>5 DEF IsRecursive
  <2>. QED  BY <2>6
<1>2. scan = Loop(scan)
  <2>. HIDE DEF Loop
  <2>. QED  BY <1>1
<1>3. bitmap_find_clear_run(words, count) = scan[NumBits].found
  BY Zenon DEF bitmap_find_clear_run
<1>. HIDE DEF scan
<1>4. scan[0] = ScanStart
  BY <1>2 DEF ScanStart
<1>5. ASSUME NEW i \in 1..NumBits
      PROVE  scan[i] = ScanStep(words, count, i, scan[i-1])
  <2>1. Loop(scan)[i] = ScanStep(words, count, i, scan[i-1])
    BY DEF ScanStep
  <2>. HIDE DEF Loop
  <2>. QED  BY <1>2, <2>1
<1>6. ASSUME NEW i \in 0..NumBits
      PROVE  scan[i] \in ScanState
  <2>. DEFINE S == {j \in 0..NumBits : scan[j] \in ScanState}
  <2>1. 0 \in S
    BY <1>4 DEF ScanStart, ScanState
  <2>2. \A j \in 1..NumBits : j-1 \in S => j \in S
    BY <1>5, ScanStepIs
  <2>. HIDE DEF S
  <2>3. 0..NumBits \subseteq S
    BY ONLY <2>1, <2>2, NumBits \in Nat, UpTo
  <2>. QED  BY <2>3 DEF S
<1>7. scan \in [0..NumBits -> ScanState]
  <2>1. scan = [i \in 0..NumBits |-> scan[i]]
    BY <1>2
  <2>. QED  BY <1>6, <2>1
<1>. QED  BY <1>3, <1>4, <1>5, <1>7

\* A run of count bits at b is clear.
ClearRun(words, b, count) == \A n \in b..b+count-1 : ~bitmap_test(words, n)

\* What the loop knows before bit i: the clear bits just passed, and that no
\* run ends before i; or the lowest place of a run.
Searching(words, count, i, scan) ==
  /\ scan.len \in 0..count-1 /\ scan.len <= i
  /\ scan.len # 0 => scan.start = i - scan.len
  /\ ClearRun(words, i - scan.len, scan.len)
  /\ scan.len < i => bitmap_test(words, i - scan.len - 1)
  /\ \A b \in Nat : b + count <= i => ~ClearRun(words, b, count)

LowestRun(words, count, i, first) ==
  /\ first \in Nat /\ first + count <= i
  /\ ClearRun(words, first, count)
  /\ \A b \in Nat : b < first => ~ClearRun(words, b, count)

ScanKnows(words, count, i, scan) ==
  /\ scan.found = -1 => Searching(words, count, i, scan)
  /\ scan.found # -1 => LowestRun(words, count, i, scan.found)

LEMMA ScanStepKnows ==
  ASSUME NEW words, NEW count \in Nat \ {0}, NEW i \in Nat \ {0},
         NEW scan \in ScanState, ScanKnows(words, count, i-1, scan)
  PROVE  ScanKnows(words, count, i, ScanStep(words, count, i, scan))
<1>. SUFFICES
       ASSUME NEW new, NEW first,
              first = IF scan.len = 0 THEN i-1 ELSE scan.start,
              scan.found # -1 => new = scan,
              scan.found = -1 /\ bitmap_test(words, i-1)
                => new.len = 0 /\ new.found = -1,
              scan.found = -1 /\ ~bitmap_test(words, i-1)
                => /\ new.len = scan.len + 1 /\ new.start = first
                   /\ new.found = IF scan.len + 1 = count THEN first ELSE -1
       PROVE  ScanKnows(words, count, i, new)
  BY ScanStepIs
<1>1. CASE scan.found # -1
  <2>1. LowestRun(words, count, i-1, scan.found)
    BY <1>1 DEF ScanKnows
  <2>2. LowestRun(words, count, i, scan.found)
    BY <2>1 DEF LowestRun
  <2>. QED  BY <1>1, <2>2 DEF ScanKnows
<1>2. CASE scan.found = -1 /\ bitmap_test(words, i-1)
  <2>1. new.len = 0 /\ new.found = -1
    BY <1>2
  <2>2. ASSUME NEW b \in Nat, b + count <= i
        PROVE  ~ClearRun(words, b, count)
    <3>1. CASE b + count <= i-1
      BY <1>2, <3>1 DEF ScanKnows, Searching
    <3>2. CASE b + count = i
      <4>1. i-1 \in b..b+count-1
        BY <3>2
      <4>. QED  BY <1>2, <4>1 DEF ClearRun
    <3>. QED  BY <2>2, <3>1, <3>2
  <2>3. ClearRun(words, i, 0)
    BY DEF ClearRun
  <2>. QED  BY <1>2, <2>1, <2>2, <2>3 DEF ScanKnows, Searching
<1>3. CASE scan.found = -1 /\ ~bitmap_test(words, i-1)
  <2>0. Searching(words, count, i-1, scan)
    BY <1>3 DEF ScanKnows
  <2>1. scan.len \in Nat /\ scan.len < count /\ scan.len <= i-1
    BY <2>0 DEF Searching
  <2>2. first = i - new.len /\ new.len = scan.len + 1 /\ new.start = first
    BY <1>3, <2>0, <2>1 DEF Searching
  <2>3. ClearRun(words, first, new.len)
    <3>1. ClearRun(words, i-1 - scan.len, scan.len)
      BY <2>0 DEF Searching
    <3>2. first..first+new.len-1 = (i-1 - scan.len .. i-1 - scan.len + scan.len - 1) \cup {i-1}
      BY <2>1, <2>2
    <3>. QED  BY <1>3, <3>1, <3>2 DEF ClearRun
  <2>4. first # 0 => bitmap_test(words, first - 1)
    BY <2>0, <2>1, <2>2 DEF Searching
  <2>5. \A b \in Nat : b + count <= i-1 => ~ClearRun(words, b, count)
    BY <2>0 DEF Searching
  <2>6. CASE new.len = count
    <3>1. new.found = first
      BY <1>3, <2>2, <2>6
    <3>2. first \in Nat /\ first + count <= i
      BY <2>1, <2>2, <2>6
    <3>3. \A b \in Nat : b < first => ~ClearRun(words, b, count)
      BY <2>2, <2>5, <2>6
    <3>. QED  BY <2>3, <2>6, <3>1, <3>2, <3>3 DEF ScanKnows, LowestRun
  <2>7. CASE new.len # count
    <3>1. new.found = -1
      BY <1>3, <2>2, <2>7
    <3>2. new.len \in 0..count-1 /\ new.len <= i
      BY <2>1, <2>2, <2>7
    <3>3. ASSUME NEW b \in Nat, b + count <= i
          PROVE  ~ClearRun(words, b, count)
      <4>1. CASE b + count <= i-1
        BY <2>5, <4>1
      <4>2. CASE b + count = i
        <5>1. first - 1 \in b..b+count-1 /\ first # 0
          BY <2>1, <2>2, <3>2, <4>2
        <5>. QED  BY <2>4, <5>1 DEF ClearRun
      <4>. QED  BY <3>3, <4>1, <4>2
    <3>. QED  BY <2>2, <2>3, <2>4, <3>1, <3>2, <3>3 DEF ScanKnows, Searching
  <2>. QED  BY <2>6, <2>7
<1>. QED  BY <1>1, <1>2, <1>3

\* For every bitmap and every count, bitmap_find_clear_run() returns the lowest
\* place where a run of count clear bits fits, and -1 only when there is none.
THEOREM FindsLowestRun ==
  ASSUME NEW words, NEW count \in Nat \ {0}
  PROVE  LET first == bitmap_find_clear_run(words, count)
         IN  \/ LowestRun(words, count, NumBits, first)
             \/ /\ first = -1
                /\ \A b \in Nat : b + count <= NumBits => ~ClearRun(words, b, count)
<1>1. PICK scan \in [0..NumBits -> ScanState] :
        /\ scan[0] = ScanStart
        /\ \A i \in 1..NumBits : scan[i] = ScanStep(words, count, i, scan[i-1])
        /\ bitmap_find_clear_run(words, count) = scan[NumBits].found
  BY SearchIsScan
<1>. DEFINE S == {i \in 0..NumBits : ScanKnows(words, count, i, scan[i])}
<1>2. 0 \in S
  <2>1. ScanKnows(words, count, 0, ScanStart)
    BY DEF ScanKnows, ScanStart, Searching, ClearRun
  <2>. QED  BY <1>1, <2>1
<1>3. \A i \in 1..NumBits : i-1 \in S => i \in S
  <2>1. ASSUME NEW i \in 1..NumBits, ScanKnows(words, count, i-1, scan[i-1])
        PROVE  ScanKnows(words, count, i, scan[i])
    <3>1. scan[i-1] \in ScanState
      OBVIOUS
    <3>. QED  BY <1>1, <2>1, <3>1, ScanStepKnows
  <2>. QED  BY <2>1
<1>4. NumBits \in S
  <2>. HIDE DEF S
  <2>1. 0..NumBits \subseteq S
    BY ONLY <1>2, <1>3, NumBits \in Nat, UpTo
  <2>. QED  BY <2>1
<1>5. ScanKnows(words, count, NumBits, scan[NumBits])
  BY <1>4
<1>. QED  BY <1>1, <1>5 DEF ScanKnows, Searching

\* FindsFirstFit holds in every state: the search finds the lowest run.
THEOREM SearchExact == Spec => []FindsFirstFit
<1>1. ASSUME NEW count \in 1..NumBits
      PROVE  bitmap_find_clear_run(bitmap, count) =
               IF Fits(count) = {} THEN -1 ELSE Min(Fits(count))
  <2>. DEFINE first == bitmap_find_clear_run(bitmap, count)
  <2>1. \A b : b \in Fits(count) <=> /\ b \in Nat /\ b + count <= NumBits
                                     /\ ClearRun(bitmap, b, count)
    BY DEF Fits, SetBits, ClearRun, Index
  <2>2. \/ LowestRun(bitmap, count, NumBits, first)
        \/ /\ first = -1
           /\ \A b \in Nat : b + count <= NumBits => ~ClearRun(bitmap, b, count)
    BY FindsLowestRun
  <2>. HIDE DEF first
  <2>3. CASE LowestRun(bitmap, count, NumBits, first)
    <3>1. first \in Fits(count) /\ \A b \in Fits(count) : first <= b
      BY <2>1, <2>3 DEF LowestRun
    <3>2. \A m \in Fits(count) :
            (\A b \in Fits(count) : m <= b) => m = first
      BY <2>1, <3>1
    <3>3. Min(Fits(count)) = first
      BY ONLY <3>1, <3>2, Zenon DEF Min
    <3>. QED  BY <3>1, <3>3 DEF first
  <2>4. CASE ~LowestRun(bitmap, count, NumBits, first)
    <3>1. Fits(count) = {}
      BY <2>1, <2>2, <2>4
    <3>. QED  BY <2>2, <2>4, <3>1 DEF first
  <2>. QED  BY <2>3, <2>4
<1>2. FindsFirstFit
  BY <1>1 DEF FindsFirstFit
<1>. QED  BY <1>2, PTL

-----------------------------------------------------------------------------
(* The bits, and the blocks of a size.                                     *)

LEMMA Division ==
  ASSUME NEW n \in Nat, NEW d \in Nat \ {0}
  PROVE  /\ n \div d \in Nat /\ n % d \in 0..d-1
         /\ n = d * (n \div d) + (n % d)
BY SMT

LEMMA QuotientMonotone ==
  ASSUME NEW m \in Nat, NEW n \in Nat, m <= n, NEW d \in Nat \ {0}
  PROVE  m \div d <= n \div d
BY SMT

LEMMA QuotientPlusOne ==
  ASSUME NEW n \in Nat, NEW d \in Nat \ {0}
  PROVE  (n + d) \div d = n \div d + 1
BY SMT

LEMMA WordOfIndex ==
  ASSUME NEW n \in Index
  PROVE  WORD(n) \in 0..NumWords-1
<1>1. n \div WordBits <= (NumBits - 1) \div WordBits
  BY QuotientMonotone DEF Index
<1>2. (NumBits - 1 + WordBits) \div WordBits = (NumBits - 1) \div WordBits + 1
  <2>1. NumBits - 1 \in Nat
    OBVIOUS
  <2>. QED  BY <2>1, QuotientPlusOne
<1>3. NumBits - 1 + WordBits = NumBits + WordBits - 1
  OBVIOUS
<1>4. n \div WordBits \in Nat /\ (NumBits - 1) \div WordBits \in Nat
  BY Division DEF Index
<1>. QED  BY <1>1, <1>2, <1>3, <1>4 DEF WORD, NumWords

\* A bit's word and its place in the word tell which bit it is.
LEMMA BitOfIndex ==
  ASSUME NEW m \in Nat, NEW n \in Nat, WORD(m) = WORD(n), BIT(m) = BIT(n)
  PROVE  m = n
<1>1. m = WordBits * (m \div WordBits) + (m % WordBits)
  BY Division
<1>2. n = WordBits * (n \div WordBits) + (n % WordBits)
  BY Division
<1>. QED  BY <1>1, <1>2 DEF WORD, BIT

LEMMA InRangeIs ==
  ASSUME NEW n \in Index, NEW start \in Nat, NEW count \in Nat
  PROVE  BIT(n) \in InRange(WORD(n), start, count) <=> n \in start..start+count-1
<1>1. ASSUME BIT(n) \in InRange(WORD(n), start, count)
      PROVE  n \in start..start+count-1
  <2>1. PICK i \in start..start+count-1 : WORD(i) = WORD(n) /\ BIT(i) = BIT(n)
    BY <1>1 DEF InRange
  <2>. QED  BY <2>1, BitOfIndex DEF Index
<1>. QED  BY <1>1 DEF InRange

Words == [0..NumWords-1 -> SUBSET (0..WordBits-1)]

\* What the two range operations do to each bit of the pool, and nothing else.
LEMMA SetRangeIs ==
  ASSUME NEW words \in Words, NEW start \in Nat, NEW count \in Nat
  PROVE  /\ bitmap_set_range(words, start, count) \in Words
         /\ \A n \in Index :
              bitmap_test(bitmap_set_range(words, start, count), n) <=>
                bitmap_test(words, n) \/ n \in start..start+count-1
<1>1. \A w : InRange(w, start, count) \subseteq 0..WordBits-1
  BY Division DEF InRange, BIT
<1>. QED  BY <1>1, WordOfIndex, InRangeIs DEF Words, bitmap_set_range, bitmap_test

LEMMA ClearRangeIs ==
  ASSUME NEW words \in Words, NEW start \in Nat, NEW count \in Nat
  PROVE  /\ bitmap_clear_range(words, start, count) \in Words
         /\ \A n \in Index :
              bitmap_test(bitmap_clear_range(words, start, count), n) <=>
                bitmap_test(words, n) /\ n \notin start..start+count-1
BY WordOfIndex, InRangeIs DEF Words, bitmap_clear_range, bitmap_test

\* An allocation is its header's block and the blocks that hold its bytes.
LEMMA BlocksOfSize ==
  ASSUME NEW size \in Nat
  PROVE  LET payload == (size + BlockSize - 1) \div BlockSize
         IN  /\ payload \in Nat
             /\ NumBlocksFor(size) = payload + 1
<1>1. size + BlockSize - 1 \in Nat
  OBVIOUS
<1>2. (size + BlockSize - 1 + BlockSize) \div BlockSize
        = (size + BlockSize - 1) \div BlockSize + 1
  BY <1>1, QuotientPlusOne
<1>3. size + BlockSize - 1 + BlockSize = size + BlockSize + BlockSize - 1
  OBVIOUS
<1>. QED  BY <1>1, <1>2, <1>3, Division DEF NumBlocksFor

-----------------------------------------------------------------------------
(* The inductive invariant.                                                *)

Busy == Calls("header") \cup Calls("release")
AllocRun(a) == Run(a.ptr, NumBlocksFor(a.size))
CallRun(c)  == Run(call[c].first, call[c].num)

TypeOK ==
  /\ bitmap \in Words
  /\ block \in [Block -> [magic : BOOLEAN, num_blocks : Nat]]
  /\ frames \subseteq Frame
  /\ call \in [Caller -> [at : {"idle", "header", "release"},
                          first : Nat, num : Nat, size : Nat]]
  /\ live \subseteq [ptr : Block \cup Frame \cup {None}, size : 1..MaxSize]

\* The runs lie in the pool; the call that is about to write a header still
\* knows the size its run was found for.
InPool ==
  /\ \A a \in Pooled : a.ptr + NumBlocksFor(a.size) <= NumBits
  /\ \A c \in Busy : call[c].num # 0 /\ call[c].first + call[c].num <= NumBits
  /\ \A c \in Calls("header") :
       call[c].size \in 1..MaxSize /\ call[c].num = NumBlocksFor(call[c].size)

\* No block is in two runs.
Apart ==
  /\ \A a, b \in Pooled : a # b => AllocRun(a) \cap AllocRun(b) = {}
  /\ \A a \in Pooled, c \in Busy : AllocRun(a) \cap CallRun(c) = {}
  /\ \A c, d \in Busy : c # d => CallRun(c) \cap CallRun(d) = {}

\* The bits that are set are those of the runs.
Accounted ==
  \A n \in Index : bitmap_test(bitmap, n) <=>
    \/ \E a \in Pooled : n \in AllocRun(a)
    \/ \E c \in Busy : n \in CallRun(c)

HeapInv == TypeOK /\ InPool /\ Apart /\ Accounted /\ HeaderIntact

\* A run that is held is not empty and lies in the pool.
LEMMA PooledRun ==
  ASSUME TypeOK, InPool, NEW a \in Pooled
  PROVE  /\ a.ptr \in Index /\ a.size \in 1..MaxSize
         /\ NumBlocksFor(a.size) \in Nat \ {0}
         /\ a.ptr \in AllocRun(a) /\ AllocRun(a) \subseteq Index
<1>1. a.ptr \in Index /\ a.size \in 1..MaxSize
  BY DEF TypeOK, Pooled, Block
<1>2. NumBlocksFor(a.size) \in Nat \ {0}
  BY <1>1, BlocksOfSize
<1>3. a.ptr + NumBlocksFor(a.size) <= NumBits
  BY DEF InPool
<1>. QED  BY <1>1, <1>2, <1>3 DEF AllocRun, Run, Index

LEMMA BusyRun ==
  ASSUME TypeOK, InPool, NEW c \in Busy
  PROVE  /\ c \in Caller
         /\ call[c].first \in Index /\ call[c].num \in Nat \ {0}
         /\ call[c].first \in CallRun(c) /\ CallRun(c) \subseteq Index
<1>1. c \in Caller /\ call[c].first \in Nat /\ call[c].num \in Nat
  BY DEF TypeOK, Busy, Calls
<1>2. call[c].num # 0 /\ call[c].first + call[c].num <= NumBits
  BY DEF InPool
<1>. QED  BY <1>1, <1>2 DEF CallRun, Run, Index

LEMMA HeapInvInit == Init => HeapInv
<1>. SUFFICES ASSUME Init
              PROVE  HeapInv
  OBVIOUS
<1>1. Pooled = {} /\ Calls("header") = {} /\ Busy = {}
  BY DEF Init, Pooled, Calls, NoCall, Busy
<1>2. TypeOK
  BY DEF Init, TypeOK, Words, bitmap_init, NotHeader, NoCall, Block
<1>3. \A n \in Index : ~bitmap_test(bitmap, n)
  BY WordOfIndex DEF Init, bitmap_test, bitmap_init
<1>. QED
  BY <1>1, <1>2, <1>3 DEF HeapInv, InPool, Apart, Accounted, HeaderIntact

\* What kmalloc() finds lies in the pool and touches no run that is held.
LEMMA FoundRun ==
  ASSUME HeapInv, NEW num \in Nat \ {0},
         bitmap_find_clear_run(bitmap, num) # -1
  PROVE  LET first == bitmap_find_clear_run(bitmap, num)
         IN  /\ first \in Nat /\ first + num <= NumBits
             /\ \A a \in Pooled : Run(first, num) \cap AllocRun(a) = {}
             /\ \A c \in Busy : Run(first, num) \cap CallRun(c) = {}
<1>. SUFFICES ASSUME NEW first, LowestRun(bitmap, num, NumBits, first)
              PROVE  /\ first \in Nat /\ first + num <= NumBits
                     /\ \A a \in Pooled : Run(first, num) \cap AllocRun(a) = {}
                     /\ \A c \in Busy : Run(first, num) \cap CallRun(c) = {}
  BY FindsLowestRun
<1>1. first \in Nat /\ first + num <= NumBits
  BY DEF LowestRun
<1>2. \A n \in Run(first, num) : n \in Index /\ ~bitmap_test(bitmap, n)
  BY <1>1 DEF LowestRun, ClearRun, Run, Index
<1>. QED  BY <1>1, <1>2 DEF HeapInv, Accounted

LEMMA ReserveKeeps ==
  ASSUME HeapInv, NEW c \in Caller, NEW size \in 1..MaxSize, Reserve(c, size)
  PROVE  HeapInv'
<1>. DEFINE num   == NumBlocksFor(size)
            first == bitmap_find_clear_run(bitmap, num)
<1>1. num \in Nat \ {0}
  BY BlocksOfSize
<1>2. /\ first \in Nat /\ first + num <= NumBits
      /\ \A a \in Pooled : Run(first, num) \cap AllocRun(a) = {}
      /\ \A d \in Busy : Run(first, num) \cap CallRun(d) = {}
  BY <1>1, FoundRun DEF Reserve
<1>3. /\ call[c].at = "idle"
      /\ bitmap' = bitmap_set_range(bitmap, first, num)
      /\ call' = [call EXCEPT ![c] = [at |-> "header", first |-> first,
                                      num |-> num, size |-> size]]
      /\ UNCHANGED <<block, frames, live>>
  BY DEF Reserve
<1>. HIDE DEF num, first
<1>4. TypeOK'
  <2>1. bitmap' \in Words
    BY <1>1, <1>2, <1>3, SetRangeIs DEF HeapInv, TypeOK
  <2>2. [at |-> "header", first |-> first, num |-> num, size |-> size]
          \in [at : {"idle", "header", "release"},
              first : Nat, num : Nat, size : Nat]
    BY <1>1, <1>2
  <2>. QED  BY <1>3, <2>1, <2>2 DEF HeapInv, TypeOK
<1>5. /\ call'[c] = [at |-> "header", first |-> first, num |-> num, size |-> size]
      /\ \A d \in Caller \ {c} : call'[d] = call[d]
  BY <1>3 DEF HeapInv, TypeOK
<1>6. /\ Pooled' = Pooled /\ Busy' = Busy \cup {c}
      /\ Calls("header")' = Calls("header") \cup {c} /\ c \notin Busy
  BY <1>3, <1>5 DEF Pooled, Busy, Calls
<1>7. /\ \A a : AllocRun(a)' = AllocRun(a)
      /\ CallRun(c)' = Run(first, num)
      /\ \A d \in Caller \ {c} : CallRun(d)' = CallRun(d)
  BY <1>5 DEF AllocRun, CallRun
<1>8. InPool'
  BY <1>1, <1>2, <1>5, <1>6 DEF HeapInv, InPool, num, Busy, Calls
<1>9. Apart'
  BY <1>2, <1>6, <1>7 DEF HeapInv, Apart, Busy, Calls
<1>10. Accounted'
  <2>1. \A n \in Index : bitmap_test(bitmap', n) <=>
                           bitmap_test(bitmap, n) \/ n \in Run(first, num)
    BY <1>1, <1>2, <1>3, SetRangeIs DEF HeapInv, TypeOK, Run
  <2>. QED  BY <1>6, <1>7, <2>1 DEF HeapInv, Accounted, Busy, Calls
<1>11. HeaderIntact'
  BY <1>3, <1>6 DEF HeapInv, HeaderIntact
<1>. QED  BY <1>4, <1>8, <1>9, <1>10, <1>11 DEF HeapInv

LEMMA WriteHeaderKeeps ==
  ASSUME HeapInv, NEW c \in Caller, WriteHeader(c)
  PROVE  HeapInv'
<1>. DEFINE new == [ptr |-> call[c].first, size |-> call[c].size]
            num == call[c].num
<1>1. /\ call[c].at = "header"
      /\ block' = [block EXCEPT ![new.ptr] = Header(num)]
      /\ live' = live \cup {new}
      /\ call' = [call EXCEPT ![c] = NoCall]
      /\ UNCHANGED <<bitmap, frames>>
  BY DEF WriteHeader
<1>2. /\ c \in Calls("header") /\ c \in Busy
      /\ new.size \in 1..MaxSize /\ num = NumBlocksFor(new.size)
      /\ num \in Nat \ {0} /\ new.ptr \in Block
  BY <1>1 DEF HeapInv, TypeOK, InPool, Calls, Busy, Block, Index
<1>3. /\ AllocRun(new) = CallRun(c)
      /\ new.ptr \in CallRun(c) /\ new.ptr + NumBlocksFor(new.size) <= NumBits
  <2>1. new.ptr = call[c].first /\ new.ptr + num <= NumBits
    BY <1>2 DEF HeapInv, InPool
  <2>2. new.ptr \in CallRun(c)
    BY <1>2, <2>1, BusyRun DEF HeapInv
  <2>. HIDE DEF new
  <2>. QED  BY <1>2, <2>1, <2>2 DEF AllocRun, CallRun
<1>4. new \in [ptr : Block \cup Frame \cup {None}, size : 1..MaxSize]
  BY <1>2
<1>5. /\ call'[c] = NoCall
      /\ \A d \in Caller \ {c} : call'[d] = call[d]
  BY <1>1 DEF HeapInv, TypeOK
<1>. HIDE DEF new, num
<1>6. TypeOK'
  <2>1. NoCall \in [at : {"idle", "header", "release"},
                    first : Nat, num : Nat, size : Nat]
    BY DEF NoCall
  <2>2. Header(num) \in [magic : BOOLEAN, num_blocks : Nat]
    BY <1>2 DEF Header
  <2>. QED  BY <1>1, <1>4, <2>1, <2>2 DEF HeapInv, TypeOK
<1>7. /\ Pooled' = Pooled \cup {new} /\ Busy' = Busy \ {c}
      /\ Calls("header")' = Calls("header") \ {c} /\ Busy \subseteq Caller
  BY <1>1, <1>2, <1>5 DEF Pooled, Busy, Calls, NoCall
<1>8. /\ \A a : AllocRun(a)' = AllocRun(a)
      /\ \A d \in Caller \ {c} : CallRun(d)' = CallRun(d)
  BY <1>5 DEF AllocRun, CallRun
<1>9. InPool'
  BY <1>2, <1>3, <1>5, <1>7 DEF HeapInv, InPool, Busy, Calls
<1>10. Apart'
  BY <1>2, <1>3, <1>7, <1>8 DEF HeapInv, Apart
<1>11. Accounted'
  <2>1. ASSUME NEW n \in Index
        PROVE  bitmap_test(bitmap', n) <=>
                 \/ \E a \in Pooled' : n \in AllocRun(a)'
                 \/ \E d \in Busy' : n \in CallRun(d)'
    <3>1. bitmap_test(bitmap', n) <=>
            \/ \E a \in Pooled : n \in AllocRun(a)
            \/ \E d \in Busy : n \in CallRun(d)
      BY <1>1 DEF HeapInv, Accounted
    <3>2. (\E a \in Pooled' : n \in AllocRun(a)') <=>
            (\E a \in Pooled : n \in AllocRun(a)) \/ n \in CallRun(c)
      BY <1>3, <1>7, <1>8
    <3>3. (\E d \in Busy : n \in CallRun(d)) <=>
            (\E d \in Busy' : n \in CallRun(d)') \/ n \in CallRun(c)
      BY <1>2, <1>7, <1>8
    <3>. QED  BY <3>1, <3>2, <3>3
  <2>. QED  BY <2>1 DEF Accounted
<1>12. HeaderIntact'
  <2>1. ASSUME NEW a \in Pooled
        PROVE  a.ptr \in AllocRun(a) /\ a.ptr \in Block
    BY PooledRun DEF HeapInv, Block
  <2>2. ASSUME NEW a \in Pooled
        PROVE  a.ptr # new.ptr
    BY <1>2, <1>3, <2>1 DEF HeapInv, Apart
  <2>3. ASSUME NEW a \in Pooled, a # new
        PROVE  block'[a.ptr] = Header(NumBlocksFor(a.size))
    BY <1>1, <2>1, <2>2 DEF HeapInv, TypeOK, HeaderIntact
  <2>4. block'[new.ptr] = Header(NumBlocksFor(new.size))
    BY <1>1, <1>2 DEF HeapInv, TypeOK
  <2>. QED  BY <1>7, <2>3, <2>4 DEF HeaderIntact
<1>. QED  BY <1>6, <1>9, <1>10, <1>11, <1>12 DEF HeapInv

\* The page frames are not the pool.
LEMMA FrameKeeps ==
  ASSUME HeapInv, TypeOK', UNCHANGED <<bitmap, block, call>>, Pooled' = Pooled
  PROVE  HeapInv'
<1>1. Busy' = Busy /\ Calls("header")' = Calls("header")
  BY DEF Busy, Calls
<1>2. /\ \A a : AllocRun(a)' = AllocRun(a)
      /\ \A c : CallRun(c)' = CallRun(c)
  BY DEF AllocRun, CallRun
<1>. QED
  BY <1>1, <1>2 DEF HeapInv, InPool, Apart, Accounted, HeaderIntact

LEMMA ReserveFrameKeeps ==
  ASSUME HeapInv, NEW c \in Caller, NEW size \in 1..MaxSize, ReserveFrame(c, size)
  PROVE  HeapInv'
<1>1. UNCHANGED <<bitmap, block, call>>
  BY DEF ReserveFrame
<1>2. PICK p \in Frame \cup {None} :
        /\ live' = live \cup {[ptr |-> p, size |-> size]}
        /\ frames' \subseteq Frame
  BY DEF ReserveFrame, HeapInv, TypeOK
<1>3. TypeOK'
  BY <1>1, <1>2 DEF HeapInv, TypeOK
<1>4. Pooled' = Pooled
  BY <1>2 DEF Pooled, Block
<1>. QED  BY <1>1, <1>3, <1>4, FrameKeeps

LEMMA ReleaseFrameKeeps ==
  ASSUME HeapInv, NEW c \in Caller, NEW a \in live, ReleaseFrame(c, a)
  PROVE  HeapInv'
<1>1. UNCHANGED <<bitmap, block, call>>
  BY DEF ReleaseFrame
<1>2. TypeOK'
  BY DEF ReleaseFrame, HeapInv, TypeOK
<1>3. Pooled' = Pooled
  BY DEF ReleaseFrame, Pooled, Block
<1>. QED  BY <1>1, <1>2, <1>3, FrameKeeps

\* The bytes an owner may write lie in its own run, behind the header.
LEMMA FillKeeps ==
  ASSUME HeapInv, NEW a \in live, Fill(a)
  PROVE  HeapInv'
<1>. DEFINE payload == (a.size + BlockSize - 1) \div BlockSize
<1>1. a \in Pooled /\ UNCHANGED <<bitmap, frames, call, live>>
  BY DEF Fill, Pooled
<1>2. \A b \in Block : block'[b] =
        IF b \in a.ptr + 1..a.ptr + payload THEN NotHeader ELSE block[b]
  BY DEF Fill
<1>3. a.ptr \in Index /\ payload \in Nat /\ NumBlocksFor(a.size) = payload + 1
  <2>1. a.ptr \in Index /\ a.size \in 1..MaxSize
    BY <1>1, PooledRun DEF HeapInv
  <2>2. a.size \in Nat
    BY <2>1
  <2>. QED  BY <2>1, <2>2, BlocksOfSize
<1>. HIDE DEF payload
<1>4. \A b \in a.ptr + 1..a.ptr + payload : b \in AllocRun(a) /\ b # a.ptr
  BY <1>3 DEF AllocRun, Run, Index
<1>5. TypeOK'
  <2>1. block' \in [Block -> [magic : BOOLEAN, num_blocks : Nat]]
    BY DEF Fill, HeapInv, TypeOK, NotHeader
  <2>. QED  BY <1>1, <2>1 DEF HeapInv, TypeOK
<1>6. Pooled' = Pooled /\ Busy' = Busy /\ Calls("header")' = Calls("header")
  BY <1>1 DEF Pooled, Busy, Calls
<1>7. /\ \A b : AllocRun(b)' = AllocRun(b)
      /\ \A c : CallRun(c)' = CallRun(c)
  BY <1>1 DEF AllocRun, CallRun
<1>8. HeaderIntact'
  <2>1. ASSUME NEW b \in Pooled
        PROVE  block'[b.ptr] = block[b.ptr]
    <3>1. b.ptr \in AllocRun(b) /\ b.ptr \in Block
      BY PooledRun DEF HeapInv, Block
    <3>2. b.ptr \notin a.ptr + 1..a.ptr + payload
      BY <1>1, <1>4, <3>1 DEF HeapInv, Apart
    <3>. QED  BY <1>2, <3>1, <3>2
  <2>. QED  BY <1>6, <2>1 DEF HeapInv, HeaderIntact
<1>9. InPool' /\ Apart' /\ Accounted'
  BY <1>1, <1>6, <1>7 DEF HeapInv, InPool, Apart, Accounted
<1>. QED  BY <1>5, <1>8, <1>9 DEF HeapInv

\* The header still tells the length of the run that the bits are cleared of.
LEMMA ClearHeaderKeeps ==
  ASSUME HeapInv, NEW c \in Caller, NEW a \in live, ClearHeader(c, a)
  PROVE  HeapInv'
<1>. DEFINE num == NumBlocksFor(a.size)
            release == [at |-> "release", first |-> a.ptr, num |-> num, size |-> 0]
<1>1. a \in Pooled /\ call[c].at = "idle" /\ c \notin Busy
  BY DEF ClearHeader, Pooled, Busy, Calls
<1>2. /\ a.ptr \in Index /\ num \in Nat \ {0} /\ a.ptr \in AllocRun(a)
      /\ a.ptr + num <= NumBits /\ block[a.ptr] = Header(num)
  BY <1>1, PooledRun DEF HeapInv, InPool, HeaderIntact
<1>3. /\ call' = [call EXCEPT ![c] = release]
      /\ block' = [block EXCEPT ![a.ptr].magic = FALSE]
      /\ live' = live \ {a}
      /\ UNCHANGED <<bitmap, frames>>
  BY <1>2 DEF ClearHeader, Header
<1>4. TypeOK'
  <2>1. release \in [at : {"idle", "header", "release"},
                     first : Nat, num : Nat, size : Nat]
    BY <1>2 DEF Index
  <2>2. call' \in [Caller -> [at : {"idle", "header", "release"},
                              first : Nat, num : Nat, size : Nat]]
    BY <1>3, <2>1 DEF HeapInv, TypeOK
  <2>3. block' \in [Block -> [magic : BOOLEAN, num_blocks : Nat]]
    BY <1>3 DEF HeapInv, TypeOK
  <2>. QED  BY <1>3, <2>2, <2>3 DEF HeapInv, TypeOK
<1>5. /\ call'[c] = release
      /\ \A d \in Caller \ {c} : call'[d] = call[d]
  BY <1>3 DEF HeapInv, TypeOK
<1>. HIDE DEF num
<1>6. /\ Pooled' = Pooled \ {a} /\ Busy' = Busy \cup {c}
      /\ Calls("header")' = Calls("header") /\ Busy \subseteq Caller
  BY <1>1, <1>3, <1>5 DEF Pooled, Busy, Calls
<1>7. /\ \A b : AllocRun(b)' = AllocRun(b)
      /\ CallRun(c)' = AllocRun(a)
      /\ \A d \in Caller \ {c} : CallRun(d)' = CallRun(d)
  BY <1>5 DEF AllocRun, CallRun, num
<1>8. InPool'
  BY <1>1, <1>2, <1>5, <1>6 DEF HeapInv, InPool, Busy, Calls
<1>9. Apart'
  BY <1>1, <1>6, <1>7 DEF HeapInv, Apart
<1>10. Accounted'
  <2>1. ASSUME NEW n \in Index
        PROVE  bitmap_test(bitmap', n) <=>
                 \/ \E b \in Pooled' : n \in AllocRun(b)'
                 \/ \E d \in Busy' : n \in CallRun(d)'
    <3>1. bitmap_test(bitmap', n) <=>
            \/ \E b \in Pooled : n \in AllocRun(b)
            \/ \E d \in Busy : n \in CallRun(d)
      BY <1>3 DEF HeapInv, Accounted
    <3>2. (\E b \in Pooled : n \in AllocRun(b)) <=>
            (\E b \in Pooled' : n \in AllocRun(b)') \/ n \in AllocRun(a)
      BY <1>1, <1>6, <1>7
    <3>3. (\E d \in Busy' : n \in CallRun(d)') <=>
            (\E d \in Busy : n \in CallRun(d)) \/ n \in AllocRun(a)
      BY <1>1, <1>6, <1>7
    <3>. QED  BY <3>1, <3>2, <3>3
  <2>. QED  BY <2>1 DEF Accounted
<1>11. HeaderIntact'
  <2>1. ASSUME NEW b \in Pooled'
        PROVE  block'[b.ptr] = block[b.ptr]
    <3>1. b \in Pooled /\ b # a
      BY <1>6
    <3>2. b.ptr \in AllocRun(b) /\ b.ptr \in Block
      BY <3>1, PooledRun DEF HeapInv, Block
    <3>3. b.ptr # a.ptr
      BY <1>1, <1>2, <3>1, <3>2 DEF HeapInv, Apart
    <3>. QED  BY <1>3, <3>2, <3>3 DEF HeapInv, TypeOK
  <2>. QED  BY <1>6, <2>1 DEF HeapInv, HeaderIntact
<1>. QED  BY <1>4, <1>8, <1>9, <1>10, <1>11 DEF HeapInv

LEMMA ReleaseKeeps ==
  ASSUME HeapInv, NEW c \in Caller, Release(c)
  PROVE  HeapInv'
<1>1. /\ bitmap' = bitmap_clear_range(bitmap, call[c].first, call[c].num)
      /\ call' = [call EXCEPT ![c] = NoCall]
      /\ UNCHANGED <<block, frames, live>>
  BY DEF Release
<1>2. /\ c \in Busy /\ c \notin Calls("header")
      /\ call[c].first \in Nat /\ call[c].num \in Nat
  BY DEF Release, Busy, Calls, HeapInv, TypeOK
<1>3. TypeOK'
  <2>1. bitmap' \in Words
    BY <1>1, <1>2, ClearRangeIs DEF HeapInv, TypeOK
  <2>2. NoCall \in [at : {"idle", "header", "release"},
                    first : Nat, num : Nat, size : Nat]
    BY DEF NoCall
  <2>. QED  BY <1>1, <2>1, <2>2 DEF HeapInv, TypeOK
<1>4. /\ call'[c] = NoCall
      /\ \A d \in Caller \ {c} : call'[d] = call[d]
  BY <1>1 DEF HeapInv, TypeOK
<1>5. /\ Pooled' = Pooled /\ Busy' = Busy \ {c}
      /\ Calls("header")' = Calls("header") /\ Busy \subseteq Caller
  BY <1>1, <1>2, <1>4 DEF Pooled, Busy, Calls, NoCall
<1>6. /\ \A a : AllocRun(a)' = AllocRun(a)
      /\ \A d \in Caller \ {c} : CallRun(d)' = CallRun(d)
  BY <1>4 DEF AllocRun, CallRun
<1>7. InPool' /\ Apart'
  BY <1>1, <1>4, <1>5, <1>6 DEF HeapInv, InPool, Apart, Busy, Calls
<1>8. Accounted'
  <2>1. ASSUME NEW n \in Index
        PROVE  bitmap_test(bitmap', n) <=>
                 \/ \E a \in Pooled' : n \in AllocRun(a)'
                 \/ \E d \in Busy' : n \in CallRun(d)'
    <3>1. bitmap_test(bitmap', n) <=> bitmap_test(bitmap, n) /\ n \notin CallRun(c)
      BY <1>1, <1>2, ClearRangeIs DEF HeapInv, TypeOK, CallRun, Run
    <3>2. bitmap_test(bitmap, n) <=>
            \/ \E a \in Pooled : n \in AllocRun(a)
            \/ \E d \in Busy : n \in CallRun(d)
      BY DEF HeapInv, Accounted
    <3>3. \A a \in Pooled : n \in AllocRun(a) => n \notin CallRun(c)
      BY <1>2 DEF HeapInv, Apart
    <3>4. \A d \in Busy \ {c} : n \in CallRun(d) => n \notin CallRun(c)
      BY <1>2 DEF HeapInv, Apart
    <3>. QED  BY <1>2, <1>5, <1>6, <3>1, <3>2, <3>3, <3>4
  <2>. QED  BY <2>1 DEF Accounted
<1>9. HeaderIntact'
  BY <1>1, <1>5 DEF HeapInv, HeaderIntact
<1>. QED  BY <1>3, <1>7, <1>8, <1>9 DEF HeapInv

LEMMA HeapInvStep == HeapInv /\ [Next]_vars => HeapInv'
<1>. SUFFICES ASSUME HeapInv, [Next]_vars
              PROVE  HeapInv'
  OBVIOUS
<1>1. CASE UNCHANGED vars
  <2>1. UNCHANGED <<bitmap, block, call, frames, live>>
    BY <1>1 DEF vars
  <2>2. TypeOK' /\ Pooled' = Pooled
    BY <2>1 DEF HeapInv, TypeOK, Pooled
  <2>. QED  BY <2>1, <2>2, FrameKeeps
<1>2. ASSUME NEW c \in Caller, NEW size \in 1..MaxSize,
             Reserve(c, size) \/ ReserveFrame(c, size)
      PROVE  HeapInv'
  BY <1>2, ReserveKeeps, ReserveFrameKeeps
<1>3. ASSUME NEW c \in Caller, WriteHeader(c) \/ Release(c)
      PROVE  HeapInv'
  BY <1>3, WriteHeaderKeeps, ReleaseKeeps
<1>4. ASSUME NEW a \in live, Fill(a)
      PROVE  HeapInv'
  BY <1>4, FillKeeps
<1>5. ASSUME NEW c \in Caller, NEW a \in live,
             ClearHeader(c, a) \/ ReleaseFrame(c, a)
      PROVE  HeapInv'
  BY <1>5, ClearHeaderKeeps, ReleaseFrameKeeps
<1>. QED  BY <1>1, <1>2, <1>3, <1>4, <1>5 DEF Next

THEOREM HeapInvariant == Spec => []HeapInv
BY HeapInvInit, HeapInvStep, PTL DEF Spec

\* kfree()'s ASSERT finds the magic that kmalloc() wrote, on every pointer into
\* the pool that a caller holds, and the number of blocks the run has.
THEOREM HeadersSurvive == Spec => []HeaderIntact
<1>1. HeapInv => HeaderIntact
  BY DEF HeapInv
<1>. QED  BY HeapInvariant, <1>1, PTL

-----------------------------------------------------------------------------
(* From the invariant to the accounts of the pool.                         *)

\* As many runs as owners: two owners do not share a run.
LEMMA DistinctRuns ==
  ASSUME NEW S, NEW run \in [S -> SUBSET Index],
         \A s \in S : run[s] # {},
         \A s, t \in S : s # t => run[s] \cap run[t] = {}
  PROVE  LET T == {run[s] : s \in S}
         IN  /\ IsFiniteSet(S) /\ IsFiniteSet(T)
             /\ Cardinality(T) = Cardinality(S)
<1>. DEFINE T == {run[s] : s \in S}
<1>1. IsFiniteSet(T)
  <2>1. IsFiniteSet(Index)
    BY FS_Interval DEF Index
  <2>2. IsFiniteSet(SUBSET Index)
    BY <2>1, FS_SUBSET
  <2>3. T \in SUBSET (SUBSET Index)
    OBVIOUS
  <2>. QED  BY <2>2, <2>3, FS_Subset
<1>2. run \in [S -> T]
  OBVIOUS
<1>3. \A s, t \in S : run[s] = run[t] => s = t
  OBVIOUS
<1>4. \A r \in T : \E s \in S : run[s] = r
  OBVIOUS
<1>. HIDE DEF T
<1>5. run \in Injection(S, T)
  BY <1>2, <1>3, Fun_IsInj
<1>6. run \in Surjection(S, T)
  BY <1>2, <1>4, Fun_IsSurj
<1>7. IsFiniteSet(S) /\ Cardinality(S) = Cardinality(T)
  BY <1>1, <1>5, <1>6, FS_Injection
<1>. QED  BY <1>1, <1>7 DEF T

\* PoolExact: for any number of callers the bits that are set are the blocks of
\* the runs in somebody's hands, each run in the hands of one.
THEOREM PoolAccounted == Spec => []PoolExact
<1>1. HeapInv => PoolExact
  <2>. SUFFICES ASSUME HeapInv
                PROVE  PoolExact
    OBVIOUS
  <2>. DEFINE A == {AllocRun(a) : a \in Pooled}
              B == {CallRun(c) : c \in Busy}
              allocRun == [a \in Pooled |-> AllocRun(a)]
              callRun  == [c \in Busy |-> CallRun(c)]
  <2>0. HeldRuns = A \cup B
    BY DEF HeldRuns, AllocRun, CallRun, Busy
  <2>1. \A a \in Pooled : AllocRun(a) # {} /\ AllocRun(a) \subseteq Index
    BY PooledRun DEF HeapInv
  <2>2. \A c \in Busy : CallRun(c) # {} /\ CallRun(c) \subseteq Index
    BY BusyRun DEF HeapInv
  <2>3. SetBits = UNION HeldRuns
    BY <2>0, <2>1, <2>2 DEF SetBits, HeapInv, Accounted
  <2>4. \A r, s \in HeldRuns : r # s => r \cap s = {}
    BY <2>0 DEF HeapInv, Apart
  <2>5. A \cap B = {}
    BY <2>1, <2>2 DEF HeapInv, Apart
  <2>6. /\ IsFiniteSet(A) /\ Cardinality(A) = Cardinality(Pooled)
    <3>1. allocRun \in [Pooled -> SUBSET Index]
      BY <2>1
    <3>2. \A a \in Pooled : allocRun[a] # {}
      BY <2>1
    <3>3. \A a, b \in Pooled : a # b => allocRun[a] \cap allocRun[b] = {}
      BY DEF HeapInv, Apart
    <3>4. A = {allocRun[a] : a \in Pooled}
      OBVIOUS
    <3>. HIDE DEF allocRun, A
    <3>. QED  BY <3>1, <3>2, <3>3, <3>4, DistinctRuns
  <2>7. /\ IsFiniteSet(B) /\ Cardinality(B) = Cardinality(Busy)
    <3>1. callRun \in [Busy -> SUBSET Index]
      BY <2>2
    <3>2. \A c \in Busy : callRun[c] # {}
      BY <2>2
    <3>3. \A c, d \in Busy : c # d => callRun[c] \cap callRun[d] = {}
      BY DEF HeapInv, Apart
    <3>4. B = {callRun[c] : c \in Busy}
      OBVIOUS
    <3>. HIDE DEF callRun, B
    <3>. QED  BY <3>1, <3>2, <3>3, <3>4, DistinctRuns
  <2>8. Cardinality(HeldRuns) = Cardinality(Pooled) + Cardinality(Busy)
    <3>1. Cardinality(A \cup B) = Cardinality(A) + Cardinality(B) - Cardinality({})
      BY <2>5, <2>6, <2>7, FS_Union
    <3>2. Cardinality(A) \in Nat /\ Cardinality(B) \in Nat
      BY <2>6, <2>7, FS_CardinalityType
    <3>. HIDE DEF A, B
    <3>. QED  BY <2>0, <2>6, <2>7, <3>1, <3>2, FS_EmptySet
  <2>. QED  BY <2>3, <2>4, <2>8 DEF PoolExact, Busy
<1>. QED  BY HeapInvariant, <1>1, PTL

=============================================================================
