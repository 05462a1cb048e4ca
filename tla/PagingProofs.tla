---------------------------- MODULE PagingProofs ----------------------------
(***************************************************************************)
(* Virtual memory areas stay well formed and disjoint, every page frame    *)
(* has one holder, page tables map what was asked for and a fork copies    *)
(* all of it, for every size of the tables, of memory and of the address   *)
(* space.                                                                  *)
(***************************************************************************)
EXTENDS Paging, FiniteSetTheorems, FunctionTheorems, WellFoundedInduction,
        TLAPS

-----------------------------------------------------------------------------
(* The areas.                                                              *)

IInv == TypeOK /\ Disjoint

\* A table with one entry taken out, as vma_remove() does it, keeps every
\* property of pairs of entries: it is the old table read through the
\* injection that skips the place i.
LEMMA ShiftedReads ==
  ASSUME NEW S, NEW t \in Seq(S), NEW i \in 1..Len(t)
  PROVE  /\ Shifted(t, i) \in Seq(S)
         /\ Len(Shifted(t, i)) = Len(t) - 1
         /\ \A j \in 1..Len(t)-1 :
              Shifted(t, i)[j] = t[IF j < i THEN j ELSE j+1]
<1>1. Len(t) \in Nat /\ Len(t) - 1 \in Nat
  OBVIOUS
<1>2. \A j \in 1..Len(t)-1 : t[j] \in S /\ t[j+1] \in S
  OBVIOUS
<1>3. Shifted(t, i) \in [1..Len(t)-1 -> S]
  BY <1>2 DEF Shifted
<1>4. Shifted(t, i) \in Seq(S)
  BY <1>1, <1>3
<1>5. Len(Shifted(t, i)) = Len(t) - 1
  BY <1>1, <1>3, <1>4
<1> QED
  BY <1>4, <1>5 DEF Shifted

\* The empty table satisfies the invariant.
LEMMA InitIInv == Init => IInv
  BY VmaAssumption DEF Init, IInv, TypeOK, Disjoint, Area

\* vma_add() appends only an area that overlaps none of those in the table.
LEMMA AddKeeps ==
  ASSUME IInv, NEW start \in 0..Pages, NEW end \in 0..Pages,
         NEW flags \in Flags, vma_add(start, end, flags)
  PROVE  IInv'
<1>1. CASE UNCHANGED vmas
  BY <1>1 DEF IInv, TypeOK, Disjoint
<1>2. CASE ~UNCHANGED vmas
  <2> DEFINE new == [virt_start |-> start, virt_end |-> end, flags |-> flags]
  <2>1. /\ vmas' = Append(vmas, new)
        /\ ~TableFull
        /\ start < end
        /\ \A i \in 1..Len(vmas) : ~Overlaps(vmas[i], start, end)
    BY <1>2 DEF vma_add
  <2>2. vmas \in Seq(Area) /\ new \in Area /\ Len(vmas) \in Nat
    BY DEF IInv, TypeOK, Area
  <2>3. /\ vmas' \in Seq(Area)
        /\ Len(vmas') = Len(vmas) + 1
        /\ \A i \in 1..Len(vmas) : vmas'[i] = vmas[i]
        /\ vmas'[Len(vmas) + 1] = new
    BY <2>1, <2>2
  <2>4. TypeOK'
    <3>1. Len(vmas') <= MaxVmaCount
      BY <2>1, <2>2, <2>3, VmaAssumption DEF TableFull, IInv, TypeOK
    <3>2. ASSUME NEW i \in 1..Len(vmas')
          PROVE  vmas'[i].virt_start < vmas'[i].virt_end
      <4>1. CASE i = Len(vmas) + 1
        BY <2>1, <2>3, <4>1
      <4>2. CASE i \in 1..Len(vmas)
        BY <2>3, <4>2 DEF IInv, TypeOK
      <4> QED
        BY <2>2, <2>3, <4>1, <4>2
    <3> QED
      BY <2>3, <3>1, <3>2 DEF TypeOK
  <2>5. Disjoint'
    <3> SUFFICES ASSUME NEW i \in 1..Len(vmas'), NEW j \in 1..Len(vmas'), i # j
                 PROVE  \/ vmas'[i].virt_end <= vmas'[j].virt_start
                        \/ vmas'[j].virt_end <= vmas'[i].virt_start
      BY DEF Disjoint
    <3>1. ASSUME NEW k \in 1..Len(vmas)
          PROVE  \/ vmas[k].virt_end <= new.virt_start
                 \/ new.virt_end <= vmas[k].virt_start
      <4>1. vmas[k] \in Area
        BY <2>2
      <4> QED
        BY <2>1, <4>1 DEF Overlaps, Area
    <3>2. CASE i \in 1..Len(vmas) /\ j \in 1..Len(vmas)
      BY <2>3, <3>2 DEF IInv, Disjoint
    <3>3. CASE i = Len(vmas) + 1 /\ j \in 1..Len(vmas)
      BY <2>3, <3>1, <3>3
    <3>4. CASE j = Len(vmas) + 1 /\ i \in 1..Len(vmas)
      BY <2>3, <3>1, <3>4
    <3> QED
      BY <2>2, <2>3, <3>2, <3>3, <3>4
  <2> QED
    BY <2>4, <2>5 DEF IInv
<1> QED
  BY <1>1, <1>2

\* vma_remove() leaves a part of the table.
LEMMA RemoveKeeps ==
  ASSUME IInv, NEW start \in 0..Pages, vma_remove(start)
  PROVE  IInv'
<1>1. CASE UNCHANGED vmas
  BY <1>1 DEF IInv, TypeOK, Disjoint
<1>2. CASE ~UNCHANGED vmas
  <2>1. PICK i \in 1..Len(vmas) : vmas' = Shifted(vmas, i)
    BY <1>2 DEF vma_remove
  <2>2. vmas \in Seq(Area) /\ Len(vmas) \in Nat
    BY DEF IInv, TypeOK
  <2> DEFINE from(j) == IF j < i THEN j ELSE j + 1
  <2>3. /\ vmas' \in Seq(Area)
        /\ Len(vmas') = Len(vmas) - 1
        /\ \A j \in 1..Len(vmas') : vmas'[j] = vmas[from(j)]
    BY <2>1, <2>2, ShiftedReads
  <2>4. \A j \in 1..Len(vmas') : from(j) \in 1..Len(vmas)
    BY <2>2, <2>3
  <2>5. \A j, k \in 1..Len(vmas') : j # k => from(j) # from(k)
    BY <2>2, <2>3
  <2>6. TypeOK'
    BY <2>2, <2>3, <2>4, VmaAssumption DEF IInv, TypeOK
  <2>7. Disjoint'
    BY <2>3, <2>4, <2>5 DEF IInv, Disjoint
  <2> QED
    BY <2>6, <2>7 DEF IInv
<1> QED
  BY <1>1, <1>2

\* Every step of the table's users keeps the invariant.
LEMMA NextKeeps == IInv /\ [Next]_vars => IInv'
<1> SUFFICES ASSUME IInv, [Next]_vars PROVE IInv'
  OBVIOUS
<1>1. CASE \E start, end \in 0..Pages, flags \in Flags : vma_add(start, end, flags)
  BY <1>1, AddKeeps
<1>2. CASE \E start \in 0..Pages : vma_remove(start)
  BY <1>2, RemoveKeeps
<1>3. CASE \E addr \in 0..Pages : vma_find(addr)
  BY <1>3 DEF vma_find, IInv, TypeOK, Disjoint
<1>4. CASE UNCHANGED vars
  BY <1>4 DEF vars, IInv, TypeOK, Disjoint
<1> QED
  BY <1>1, <1>2, <1>3, <1>4 DEF Next

\* After any sequence of vma_add() and vma_remove() no two areas share a page:
\* the first match of vma_find() is the only one.
THEOREM AreasDisjoint == Spec => []Disjoint
<1>1. IInv => Disjoint
  BY DEF IInv
<1> QED
  BY <1>1, InitIInv, NextKeeps, PTL DEF Spec

\* The table never outgrows its array and holds no empty area.
THEOREM TableWellFormed == Spec => []TypeOK
<1>1. IInv => TypeOK
  BY DEF IInv
<1> QED
  BY <1>1, InitIInv, NextKeeps, PTL DEF Spec

-----------------------------------------------------------------------------
(* What the calls do to the pages that are mapped.                         *)

\* Of two areas that do not overlap, neither starts at the other's start.
LEMMA ApartIs ==
  ASSUME NEW a \in Area, NEW b \in Area,
         a.virt_start < a.virt_end, b.virt_start < b.virt_end,
         a.virt_end <= b.virt_start \/ b.virt_end <= a.virt_start
  PROVE  /\ a.virt_start # b.virt_start
         /\ \A p \in Int : ~(Holds(a, p) /\ Holds(b, p))
BY DEF Area, Holds

\* An area starts nowhere but at its own start, and no page is in two areas.
LEMMA OneAreaEach ==
  ASSUME IInv, NEW i \in 1..Len(vmas), NEW j \in 1..Len(vmas), i # j
  PROVE  /\ vmas[i].virt_start # vmas[j].virt_start
         /\ \A p \in Int : ~(Holds(vmas[i], p) /\ Holds(vmas[j], p))
<1>1. vmas[i] \in Area /\ vmas[j] \in Area
  BY DEF IInv, TypeOK
<1>2. vmas[i].virt_start < vmas[i].virt_end /\ vmas[j].virt_start < vmas[j].virt_end
  BY DEF IInv, TypeOK
<1>3. \/ vmas[i].virt_end <= vmas[j].virt_start
      \/ vmas[j].virt_end <= vmas[i].virt_start
  BY DEF IInv, Disjoint
<1> QED
  BY <1>1, <1>2, <1>3, ApartIs

\* The places that vma_remove() keeps are all but the one it takes out.
LEMMA KeptPlaces ==
  ASSUME NEW S, NEW t \in Seq(S), NEW i \in 1..Len(t), NEW k \in 1..Len(t), k # i
  PROVE  \E j \in 1..Len(Shifted(t, i)) : Shifted(t, i)[j] = t[k]
<1>1. Len(t) \in Nat
  OBVIOUS
<1> DEFINE j == IF k < i THEN k ELSE k - 1
<1>2. j \in 1..Len(t)-1 /\ (IF j < i THEN j ELSE j + 1) = k
  BY <1>1
<1>3. Shifted(t, i)[j] = t[k] /\ j \in 1..Len(Shifted(t, i))
  BY <1>1, <1>2, ShiftedReads
<1> QED
  BY <1>3

\* vma_remove() takes away the pages of one area.
LEMMA RemoveTakesOne ==
  ASSUME IInv, NEW start \in 0..Pages, vma_remove(start)
  PROVE  Mapped(vmas') = {p \in Mapped(vmas) :
           \A i \in 1..Len(vmas) :
             vmas[i].virt_start = start => ~Holds(vmas[i], p)}
<1>1. CASE UNCHANGED vmas /\ \A i \in 1..Len(vmas) : vmas[i].virt_start # start
  BY <1>1
<1>2. ASSUME NEW i \in 1..Len(vmas),
             vmas[i].virt_start = start, vmas' = Shifted(vmas, i)
      PROVE  Mapped(vmas') = {p \in Mapped(vmas) :
               \A k \in 1..Len(vmas) :
                 vmas[k].virt_start = start => ~Holds(vmas[k], p)}
  <2>1. vmas \in Seq(Area) /\ Len(vmas) \in Nat
    BY DEF IInv, TypeOK
  <2>2. \A k \in 1..Len(vmas) : vmas[k].virt_start = start <=> k = i
    BY <1>2, OneAreaEach
  <2>3. ASSUME NEW p \in 0..Pages-1
        PROVE  (\E j \in 1..Len(vmas') : Holds(vmas'[j], p)) <=>
                 /\ \E k \in 1..Len(vmas) : Holds(vmas[k], p)
                 /\ ~Holds(vmas[i], p)
    <3>1. ASSUME NEW j \in 1..Len(vmas'), Holds(vmas'[j], p)
          PROVE  /\ \E k \in 1..Len(vmas) : Holds(vmas[k], p)
                 /\ ~Holds(vmas[i], p)
      <4>1. j \in 1..Len(vmas)-1
        BY <1>2, <2>1, <3>1, ShiftedReads
      <4> DEFINE from == IF j < i THEN j ELSE j + 1
      <4>a. Shifted(vmas, i)[j] = vmas[from]
        BY <2>1, <4>1, ShiftedReads
      <4>b. from \in 1..Len(vmas) /\ from # i
        BY <2>1, <4>1
      <4>2. PICK k \in 1..Len(vmas) : k # i /\ vmas'[j] = vmas[k]
        BY <1>2, <4>a, <4>b
      <4>3. p \in Int
        OBVIOUS
      <4> QED
        BY <3>1, <4>2, <4>3, OneAreaEach
    <3>2. ASSUME NEW k \in 1..Len(vmas), Holds(vmas[k], p), ~Holds(vmas[i], p)
          PROVE  \E j \in 1..Len(vmas') : Holds(vmas'[j], p)
      <4>1. k # i
        BY <3>2
      <4>2. PICK j \in 1..Len(vmas') : vmas'[j] = vmas[k]
        BY <1>2, <2>1, <4>1, KeptPlaces
      <4> QED
        BY <3>2, <4>2
    <3> QED
      BY <3>1, <3>2
  <2> QED
    BY <2>2, <2>3 DEF Mapped
<1> QED
  BY <1>1, <1>2 DEF vma_remove

\* vma_add() takes none away.
LEMMA AddUnmapsNothing ==
  ASSUME IInv, NEW start \in 0..Pages, NEW end \in 0..Pages, NEW flags \in Flags,
         vma_add(start, end, flags)
  PROVE  Mapped(vmas) \subseteq Mapped(vmas')
<1>1. CASE UNCHANGED vmas
  BY <1>1
<1>2. CASE ~UNCHANGED vmas
  <2> DEFINE new == [virt_start |-> start, virt_end |-> end, flags |-> flags]
  <2>1. vmas' = Append(vmas, new)
    BY <1>2 DEF vma_add
  <2>2. vmas \in Seq(Area) /\ Len(vmas) \in Nat
    BY DEF IInv, TypeOK
  <2>3. /\ Len(vmas') = Len(vmas) + 1
        /\ \A i \in 1..Len(vmas) : i \in 1..Len(vmas') /\ vmas'[i] = vmas[i]
    BY <2>1, <2>2
  <2> QED
    BY <2>3 DEF Mapped
<1> QED
  BY <1>1, <1>2

\* RemovesOneArea, of one step.
OneAreaOnly ==
  \A start \in 0..Pages :
    /\ vma_remove(start) =>
         Mapped(vmas') = {p \in Mapped(vmas) :
           \A i \in 1..Len(vmas) :
             vmas[i].virt_start = start => ~Holds(vmas[i], p)}
    /\ ret' # <<"void">> => Mapped(vmas) \subseteq Mapped(vmas')

\* Every call of the three does to the pages what RemovesOneArea says.
LEMMA NextUnmaps ==
  ASSUME IInv, Next
  PROVE  OneAreaOnly
<1>1. \A start \in 0..Pages : vma_remove(start) =>
        Mapped(vmas') = {p \in Mapped(vmas) :
          \A i \in 1..Len(vmas) :
            vmas[i].virt_start = start => ~Holds(vmas[i], p)}
  BY RemoveTakesOne
<1>2. ret' # <<"void">> => Mapped(vmas) \subseteq Mapped(vmas')
  <2>1. CASE \E start, end \in 0..Pages, flags \in Flags : vma_add(start, end, flags)
    BY <2>1, AddUnmapsNothing
  <2>2. CASE \E start \in 0..Pages : vma_remove(start)
    BY <2>2 DEF vma_remove
  <2>3. CASE \E addr \in 0..Pages : vma_find(addr)
    BY <2>3 DEF vma_find
  <2> QED
    BY <2>1, <2>2, <2>3 DEF Next
<1> QED
  BY <1>1, <1>2 DEF OneAreaOnly

\* vma_remove() unmaps the pages of the area that starts there and no others,
\* wherever it stands in the array, and no other call unmaps a page.
THEOREM UnmapsOneArea == Spec => RemovesOneArea
<1>1. IInv /\ [Next]_vars =>
        [\A start \in 0..Pages :
           /\ vma_remove(start) =>
                Mapped(vmas') = {p \in Mapped(vmas) :
                  \A i \in 1..Len(vmas) :
                    vmas[i].virt_start = start => ~Holds(vmas[i], p)}
           /\ ret' # <<"void">> => Mapped(vmas) \subseteq Mapped(vmas')]_vars
  BY NextUnmaps DEF OneAreaOnly
<1> QED
  BY <1>1, InitIInv, NextKeeps, PTL DEF Spec, RemovesOneArea

-----------------------------------------------------------------------------
(* Induction over the naturals, without an operator as a parameter.        *)

\* The library's minimum of a well-founded relation.
LEMMA MinimalElement ==
  ASSUME NEW R, NEW N, IsWellFoundedOn(R, N), NEW S, S \subseteq N, S # {}
  PROVE  \E m \in S : \A n \in S : <<n, m>> \notin R
BY WFMin

\* A set of naturals that is not empty has a least element.
LEMMA LeastNumber ==
  ASSUME NEW S, S \subseteq Nat, S # {}
  PROVE  \E m \in S : \A n \in S : m <= n
<1>1. PICK R : /\ IsWellFoundedOn(R, Nat)
               /\ \A x, y \in Nat : x < y => <<x, y>> \in R
  <2>1. IsWellFoundedOn(OpToRel(<, Nat), Nat)
    BY NatLessThanWellFounded, Zenon
  <2>2. \A x, y \in Nat : x < y => <<x, y>> \in OpToRel(<, Nat)
    BY SMT DEF OpToRel
  <2>. QED  BY <2>1, <2>2, Zenon
<1>2. IsWellFoundedOn(R, Nat)
  BY <1>1
<1>3. PICK m \in S : \A n \in S : <<n, m>> \notin R
  BY <1>2, MinimalElement
<1>4. ASSUME NEW n \in S
      PROVE  m <= n
  <2>1. m \in Nat /\ n \in Nat
    OBVIOUS
  <2>2. ~ (n < m)
    BY <1>1, <1>3, <2>1, Zenon
  <2>. QED  BY <2>1, <2>2
<1>. QED  BY <1>4

\* What holds at 0 and is kept by one step up to n holds up to n.
LEMMA UpTo ==
  ASSUME NEW n \in Nat, NEW S, 0 \in S,
         \A i \in 1..n : i-1 \in S => i \in S
  PROVE  0..n \subseteq S
<1>. SUFFICES ASSUME ~ (0..n \subseteq S)
              PROVE  FALSE
  OBVIOUS
<1>. DEFINE Bad == (0..n) \ S
<1>0. Bad \subseteq Nat /\ Bad # {}
  OBVIOUS
<1>1. PICK m \in Bad : \A k \in Bad : m <= k
  <2>. HIDE DEF Bad
  <2>. QED  BY <1>0, LeastNumber
<1>2. m \in 1..n /\ m-1 \in 0..n
  BY <1>1
<1>3. m-1 \in S
  BY <1>1, <1>2
<1>. QED  BY <1>1, <1>2, <1>3

\* f is the function whose value at i is a step from its value at i-1.
IsRecursive(f, n, V, base, step) ==
  /\ f \in [0..n -> V]
  /\ f[0] = base
  /\ \A i \in 1..n : f[i] = step[i][f[i-1]]

\* There is such a function.
LEMMA RecursiveFunctionExists ==
  ASSUME NEW n, n \in Nat, NEW V, NEW base, base \in V,
         NEW step, step \in [1..n -> [V -> V]]
  PROVE  \E f : IsRecursive(f, n, V, base, step)
<1>. DEFINE Ok(f, m) == f[0] = base /\ \A i \in 1..m : f[i] = step[i][f[i-1]]
            S == {m \in 0..n : \E f \in [0..n -> V] : Ok(f, m)}
<1>1. 0 \in S
  <2>. DEFINE g == [i \in 0..n |-> base]
  <2>1. g \in [0..n -> V] /\ g[0] = base /\ \A i \in 1..0 : FALSE
    OBVIOUS
  <2>2. Ok(g, 0)
    BY <2>1
  <2>. HIDE DEF g, Ok
  <2>. QED  BY <2>1, <2>2
<1>2. ASSUME NEW m \in 1..n, m-1 \in S
      PROVE  m \in S
  <2>1. PICK f \in [0..n -> V] : Ok(f, m-1)
    BY <1>2
  <2>. DEFINE g == [f EXCEPT ![m] = step[m][f[m-1]]]
  <2>2. step[m][f[m-1]] \in V /\ m-1 \in 0..n /\ m \in 0..n
    OBVIOUS
  <2>3. g \in [0..n -> V]
    BY <2>2
  <2>4. g[m] = step[m][f[m-1]] /\ \A i \in 0..m-1 : g[i] = f[i]
    BY <2>2
  <2>5. \A i \in 1..m-1 : f[i] = step[i][f[i-1]]
    BY <2>1
  <2>. HIDE DEF g
  <2>6. \A i \in 1..m : g[i] = step[i][g[i-1]]
    BY <2>4, <2>5
  <2>7. g[0] = base
    BY <2>1, <2>4
  <2>8. Ok(g, m)
    BY <2>6, <2>7
  <2>. HIDE DEF Ok
  <2>. QED  BY <2>3, <2>8
<1>3. n \in S
  <2>. HIDE DEF S
  <2>1. \A m \in 1..n : m-1 \in S => m \in S
    BY <1>2
  <2>2. 0..n \subseteq S
    BY ONLY <1>1, <2>1, n \in Nat, UpTo
  <2>. QED  BY <2>2
<1>. QED  BY <1>3 DEF IsRecursive

-----------------------------------------------------------------------------
(* The bits of an address.                                                 *)

Level == -1..Top
Slot  == 0..Fanout-1
Word  == 0..NumFrames
Words == [Frame -> [Slot -> Word]]

\* The quotient and the remainder give the number back.
LEMMA Division ==
  ASSUME NEW n \in Nat, NEW d \in Nat \ {0}
  PROVE  /\ n \div d \in Nat /\ n % d \in 0..d-1
         /\ n = d * (n \div d) + (n % d)
BY SMT

\* The recursive function Upper exists and shifts by one index at a time.
LEMMA UpperIs ==
  /\ \A va \in Addr : Upper[0][va] = va
  /\ \A l \in 0..Top+1, va \in Addr : Upper[l][va] \in Nat
  /\ \A l \in 0..Top, va \in Addr : Upper[l+1][va] = Upper[l][va] \div Fanout
<1>. DEFINE Shift(f) == [level \in 0..Top+1 |->
              [va \in Addr |-> IF level = 0 THEN va
                               ELSE f[level-1][va] \div Fanout]]
<1>0. /\ Top \in Nat /\ Top+1 \in Nat /\ Fanout \in Nat \ {0}
      /\ \A va \in Addr : va \in Nat
  BY PagingAssumption, VmaAssumption DEF Addr
<1>1. \E f : f = Shift(f)
  <2>. DEFINE V == [Addr -> Nat]
              base == [va \in Addr |-> va]
              step == [l \in 1..Top+1 |-> [h \in V |-> [va \in Addr |-> h[va] \div Fanout]]]
  <2>1. base \in V
    BY <1>0
  <2>2. step \in [1..Top+1 -> [V -> V]]
    <3>1. \A h \in V : [va \in Addr |-> h[va] \div Fanout] \in V
      BY <1>0, Division
    <3>. HIDE DEF V
    <3>. QED  BY <3>1
  <2>3. PICK f : IsRecursive(f, Top+1, V, base, step)
    <3>. HIDE DEF V, base, step
    <3>. QED  BY <1>0, <2>1, <2>2, RecursiveFunctionExists
  <2>4. ASSUME NEW l \in 0..Top+1
        PROVE  f[l] = Shift(f)[l]
    <3>1. CASE l = 0
      BY <2>3, <3>1, <1>0 DEF IsRecursive
    <3>2. CASE l # 0
      <4>1. l \in 1..Top+1 /\ l-1 \in 0..Top+1
        BY <3>2, <1>0
      <4>2. f[l-1] \in V /\ f[l] = step[l][f[l-1]]
        BY <2>3, <4>1 DEF IsRecursive
      <4>. QED  BY <3>2, <4>1, <4>2
    <3>. QED  BY <3>1, <3>2
  <2>5. f = Shift(f)
    BY <2>3, <2>4 DEF IsRecursive
  <2>. QED  BY <2>5
<1>2. Upper = Shift(Upper)
  <2>1. Upper = CHOOSE f : f = Shift(f)
    BY Zenon DEF Upper
  <2>. HIDE DEF Shift
  <2>. QED  BY <1>1, <2>1
<1>3. \A va \in Addr : Upper[0][va] = va
  <2>1. \A va \in Addr : Shift(Upper)[0][va] = va
    BY <1>0
  <2>. HIDE DEF Shift
  <2>. QED  BY <1>2, <2>1
<1>4. ASSUME NEW l \in 1..Top+1, NEW va \in Addr
      PROVE  Upper[l][va] = Upper[l-1][va] \div Fanout
  <2>1. Shift(Upper)[l][va] = Upper[l-1][va] \div Fanout
    BY <1>0
  <2>. HIDE DEF Shift
  <2>. QED  BY <1>2, <2>1
<1>5. ASSUME NEW va \in Addr
      PROVE  \A l \in 0..Top+1 : Upper[l][va] \in Nat
  <2>. DEFINE S == {l \in 0..Top+1 : Upper[l][va] \in Nat}
  <2>1. 0 \in S
    BY <1>0, <1>3
  <2>2. ASSUME NEW l \in 1..Top+1, l-1 \in S
        PROVE  l \in S
    <3>1. Upper[l-1][va] \in Nat
      BY <2>2
    <3>2. Upper[l-1][va] \div Fanout \in Nat
      BY <1>0, <3>1, Division
    <3>3. l \in 0..Top+1
      OBVIOUS
    <3>. QED  BY <1>4, <3>2, <3>3
  <2>. HIDE DEF S
  <2>3. 0..Top+1 \subseteq S
    BY ONLY <1>0, <2>1, <2>2, UpTo
  <2>. QED  BY <2>3 DEF S
<1>6. ASSUME NEW l \in 0..Top, NEW va \in Addr
      PROVE  Upper[l+1][va] = Upper[l][va] \div Fanout
  <2>1. \A k \in 1..Top+1 : k = l+1 => Upper[k][va] = Upper[k-1][va] \div Fanout
    BY <1>4
  <2>2. l+1 \in 1..Top+1 /\ l+1-1 = l
    BY <1>0
  <2>. QED  BY <2>1, <2>2
<1>. QED  BY <1>3, <1>5, <1>6

\* An index is a slot of a table, and the bits above it and the index together
\* are the bits from it on.
LEMMA IndexIs ==
  ASSUME NEW l \in 0..Top, NEW va \in Addr
  PROVE  /\ Index(va, l) \in Slot
         /\ \A vb \in Addr : Upper[l][va] = Upper[l][vb] <=>
              Upper[l+1][va] = Upper[l+1][vb] /\ Index(va, l) = Index(vb, l)
<1>1. Fanout \in Nat \ {0} /\ l \in 0..Top+1
  BY PagingAssumption
<1>2. \A v \in Addr : /\ Upper[l][v] \in Nat
                      /\ Upper[l+1][v] = Upper[l][v] \div Fanout
  BY <1>1, UpperIs
<1>3. \A v \in Addr : /\ Index(v, l) \in Slot
                      /\ Upper[l][v] = Fanout * Upper[l+1][v] + Index(v, l)
  BY <1>1, <1>2, Division DEF Index, Indices, Slot
<1>4. ASSUME NEW vb \in Addr
      PROVE  Upper[l][va] = Upper[l][vb] <=>
               Upper[l+1][va] = Upper[l+1][vb] /\ Index(va, l) = Index(vb, l)
  <2>1. CASE Upper[l][va] = Upper[l][vb]
    BY <1>2, <2>1 DEF Index, Indices
  <2>2. CASE Upper[l+1][va] = Upper[l+1][vb] /\ Index(va, l) = Index(vb, l)
    BY <1>3, <2>2
  <2>. QED  BY <2>1, <2>2
<1>. QED  BY <1>3, <1>4

-----------------------------------------------------------------------------
(* The way of an address through tables: words m, from the table r.        *)

\* What holds at Top and is handed down from level to level holds everywhere.
LEMMA DownTo ==
  ASSUME NEW S, Top \in S,
         \A l \in -1..Top-1 : l+1 \in S => l \in S
  PROVE  Level \subseteq S
<1>. DEFINE T == {k \in 0..Top+1 : Top-k \in S}
<1>0. Top \in Nat /\ Top+1 \in Nat
  BY PagingAssumption
<1>1. 0 \in T
  BY <1>0
<1>2. ASSUME NEW k \in 1..Top+1, k-1 \in T
      PROVE  k \in T
  <2>1. Top-k \in -1..Top-1 /\ (Top-k)+1 = Top-(k-1) /\ k \in 0..Top+1
    BY <1>0
  <2>2. Top-(k-1) \in S
    BY <1>2
  <2>. QED  BY <2>1, <2>2
<1>3. 0..Top+1 \subseteq T
  <2>. HIDE DEF T
  <2>. QED  BY ONLY <1>0, <1>1, <1>2, UpTo
<1>4. ASSUME NEW l \in Level
      PROVE  l \in S
  <2>1. Top-l \in 0..Top+1 /\ Top-(Top-l) = l
    BY <1>0 DEF Level
  <2>2. \A k \in 0..Top+1 : Top-k \in S
    BY <1>3
  <2>3. Top-(Top-l) \in S
    BY <2>1, <2>2
  <2>. QED  BY <2>1, <2>3
<1>. QED  BY <1>4

Entry(m, node, va, l) == IF node = 0 THEN 0 ELSE m[node][Index(va, l)]

\* An entry is a word.
LEMMA EntryIs ==
  ASSUME NEW m \in Words, NEW node \in Word, NEW va \in Addr, NEW l \in 0..Top
  PROVE  Entry(m, node, va, l) \in Word
<1>1. Index(va, l) \in Slot /\ 0 \in Word
  BY IndexIs, PagingAssumption DEF Word
<1>2. CASE node # 0
  <2>1. node \in Frame
    BY <1>2, PagingAssumption DEF Word, Frame
  <2>. QED  BY <1>1, <1>2, <2>1 DEF Entry, Words
<1>. QED  BY <1>1, <1>2 DEF Entry

\* The recursive function of TreeNodes() exists and is the walk.
LEMMA TreeIs ==
  ASSUME NEW m \in Words, NEW r \in Word, NEW va \in Addr
  PROVE  /\ TreeNodes(m, r, va) \in [Level -> Word]
         /\ TreeNodes(m, r, va)[Top] = r
         /\ \A l \in -1..Top-1 : TreeNodes(m, r, va)[l] =
              Entry(m, TreeNodes(m, r, va)[l+1], va, l+1)
<1>. DEFINE Walk(f) == [l \in -1..Top |->
              IF l = Top THEN r
              ELSE IF f[l+1] = 0 THEN 0 ELSE m[f[l+1]][Index(va, l+1)]]
            node == CHOOSE f : f = Walk(f)
<1>0. /\ Top \in Nat /\ Top+1 \in Nat /\ Top \in -1..Top
      /\ \A l \in -1..Top-1 : l # Top /\ l \in -1..Top /\ l+1 \in 0..Top /\ l+1 \in -1..Top
  BY PagingAssumption
<1>1. \E f : f = Walk(f)
  <2>. DEFINE step == [k \in 1..Top+1 |->
                [x \in Word |-> Entry(m, x, va, Top-k+1)]]
  <2>1. step \in [1..Top+1 -> [Word -> Word]]
    <3>1. \A k \in 1..Top+1 : Top-k+1 \in 0..Top
      BY <1>0
    <3>2. \A k \in 1..Top+1, x \in Word : Entry(m, x, va, Top-k+1) \in Word
      BY <3>1, EntryIs
    <3>. QED  BY <3>2
  <2>2. PICK g : IsRecursive(g, Top+1, Word, r, step)
    <3>. HIDE DEF step
    <3>. QED  BY <1>0, <2>1, RecursiveFunctionExists
  <2>3. ASSUME NEW k \in 1..Top+1
        PROVE  g[k] = Entry(m, g[k-1], va, Top-k+1)
    <3>1. k-1 \in 0..Top+1
      BY <1>0
    <3>2. g[k-1] \in Word /\ g[k] = step[k][g[k-1]]
      BY <2>2, <3>1 DEF IsRecursive
    <3>. QED  BY <3>2
  <2>. DEFINE f == [l \in -1..Top |-> g[Top-l]]
  <2>4. f[Top] = r
    <3>1. Top-Top = 0
      BY <1>0
    <3>. QED  BY <1>0, <2>2, <3>1 DEF IsRecursive
  <2>5. ASSUME NEW l \in -1..Top-1
        PROVE  f[l] = Entry(m, f[l+1], va, l+1)
    <3>1. Top-l \in 1..Top+1 /\ Top-l-1 = Top-(l+1) /\ Top-(Top-l)+1 = l+1
      BY <1>0
    <3>2. g[Top-l] = Entry(m, g[Top-l-1], va, Top-(Top-l)+1)
      BY <2>3, <3>1
    <3>3. f[l] = g[Top-l] /\ f[l+1] = g[Top-(l+1)]
      BY <1>0
    <3>. HIDE DEF f
    <3>. QED  BY <3>1, <3>2, <3>3
  <2>6. ASSUME NEW l \in -1..Top
        PROVE  f[l] = Walk(f)[l]
    <3>1. CASE l = Top
      <4>1. Walk(f)[Top] = r
        BY <1>0
      <4>. QED  BY <2>4, <3>1, <4>1
    <3>2. CASE l # Top
      <4>1. l \in -1..Top-1
        BY <1>0, <3>2
      <4>2. Walk(f)[l] = Entry(m, f[l+1], va, l+1)
        <5>. HIDE DEF f
        <5>. QED  BY <3>2 DEF Entry
      <4>. QED  BY <2>5, <4>1, <4>2
    <3>. QED  BY <3>1, <3>2
  <2>7. f = Walk(f)
    <3>1. f = [l \in -1..Top |-> f[l]]
      OBVIOUS
    <3>. HIDE DEF f
    <3>. QED  BY <2>6, <3>1
  <2>. HIDE DEF f
  <2>. QED  BY <2>7
<1>2. node = Walk(node)
  <2>. HIDE DEF Walk
  <2>. QED  BY <1>1
<1>3. TreeNodes(m, r, va) = node
  BY Zenon DEF TreeNodes
<1>. HIDE DEF node
<1>4. node[Top] = r
  <2>1. Walk(node)[Top] = r
    BY <1>0
  <2>. HIDE DEF Walk
  <2>. QED  BY <1>2, <2>1
<1>5. ASSUME NEW l \in -1..Top-1
      PROVE  node[l] = Entry(m, node[l+1], va, l+1)
  <2>1. Walk(node)[l] = Entry(m, node[l+1], va, l+1)
    BY <1>0 DEF Entry
  <2>. HIDE DEF Walk
  <2>. QED  BY <1>2, <2>1
<1>6. Level \subseteq {l \in Level : node[l] \in Word}
  <2>. DEFINE S == {l \in Level : node[l] \in Word}
  <2>1. Top \in S
    BY <1>0, <1>4 DEF Level
  <2>2. ASSUME NEW l \in -1..Top-1, l+1 \in S
        PROVE  l \in S
    <3>1. node[l+1] \in Word /\ l \in Level
      BY <1>0, <2>2 DEF Level
    <3>2. Entry(m, node[l+1], va, l+1) \in Word
      BY <1>0, <3>1, EntryIs
    <3>. QED  BY <1>5, <3>1, <3>2
  <2>. HIDE DEF S
  <2>. QED  BY <2>1, <2>2, DownTo DEF S
<1>7. node \in [Level -> Word]
  <2>1. node = [l \in Level |-> node[l]]
    BY <1>2 DEF Level
  <2>. QED  BY <1>6, <2>1
<1>. QED  BY <1>3, <1>4, <1>5, <1>7

\* Addresses with the same bits above level l come to the same node there.
LEMMA SamePath ==
  ASSUME NEW m \in Words, NEW r \in Word, NEW va \in Addr, NEW vb \in Addr,
         NEW l \in Level, Upper[l+1][va] = Upper[l+1][vb]
  PROVE  TreeNodes(m, r, va)[l] = TreeNodes(m, r, vb)[l]
<1>. DEFINE N(v) == TreeNodes(m, r, v)
            S == {k \in Level : Upper[k+1][va] = Upper[k+1][vb] => N(va)[k] = N(vb)[k]}
<1>0. /\ Top \in Level
      /\ \A k \in -1..Top-1 : k \in Level /\ k+1 \in 0..Top
  BY PagingAssumption DEF Level
<1>1. Top \in S
  BY <1>0, TreeIs
<1>2. ASSUME NEW k \in -1..Top-1, k+1 \in S
      PROVE  k \in S
  <2>. SUFFICES ASSUME Upper[k+1][va] = Upper[k+1][vb]
                PROVE  N(va)[k] = N(vb)[k]
    BY <1>0
  <2>1. Upper[k+1+1][va] = Upper[k+1+1][vb] /\ Index(va, k+1) = Index(vb, k+1)
    BY <1>0, IndexIs
  <2>2. N(va)[k+1] = N(vb)[k+1]
    BY <1>2, <2>1
  <2>3. /\ N(va)[k] = Entry(m, N(va)[k+1], va, k+1)
        /\ N(vb)[k] = Entry(m, N(vb)[k+1], vb, k+1)
    BY TreeIs
  <2>. HIDE DEF N
  <2>. QED  BY <2>1, <2>2, <2>3 DEF Entry
<1>3. Level \subseteq S
  <2>. HIDE DEF S
  <2>. QED  BY <1>1, <1>2, DownTo
<1>. QED  BY <1>3

\* Below a node that is missing there is none.
LEMMA NoneBelow ==
  ASSUME NEW m \in Words, NEW r \in Word, NEW va \in Addr,
         NEW k \in Level, TreeNodes(m, r, va)[k] = 0
  PROVE  \A l \in Level : l <= k => TreeNodes(m, r, va)[l] = 0
<1>. DEFINE N == TreeNodes(m, r, va)
            S == {l \in Level : l <= k => N[l] = 0}
<1>0. Top \in Level /\ \A l \in -1..Top-1 : l \in Level
  BY PagingAssumption DEF Level
<1>1. Top \in S
  BY <1>0, PagingAssumption DEF Level
<1>2. ASSUME NEW l \in -1..Top-1, l+1 \in S
      PROVE  l \in S
  <2>1. N[l] = Entry(m, N[l+1], va, l+1)
    BY TreeIs
  <2>2. CASE l+1 <= k
    <3>1. N[l+1] = 0
      BY <1>2, <2>2
    <3>. HIDE DEF N
    <3>. QED  BY <1>0, <2>1, <3>1 DEF Entry
  <2>3. CASE ~(l+1 <= k)
    BY <1>0, <2>3 DEF Level
  <2>. QED  BY <2>2, <2>3
<1>3. Level \subseteq S
  <2>. HIDE DEF S
  <2>. QED  BY <1>1, <1>2, DownTo
<1>. QED  BY <1>3

\* The words m and m2 agree where the way of va passes with its nodes N.
Agree(m, m2, N, va, levels) ==
  \A l \in levels : N[l] # 0 => m2[N[l]][Index(va, l)] = m[N[l]][Index(va, l)]

\* Where the words on its way are the same, the way is the same.
LEMMA TreeSame ==
  ASSUME NEW m \in Words, NEW m2 \in Words, NEW r \in Word, NEW va \in Addr,
         Agree(m, m2, TreeNodes(m, r, va), va, 0..Top)
  PROVE  TreeNodes(m2, r, va) = TreeNodes(m, r, va)
<1>. DEFINE N  == TreeNodes(m, r, va)
            N2 == TreeNodes(m2, r, va)
            S  == {l \in Level : N2[l] = N[l]}
<1>0. /\ Top \in Level
      /\ \A k \in -1..Top-1 : k \in Level /\ k+1 \in 0..Top
  BY PagingAssumption DEF Level
<1>1. Top \in S
  BY <1>0, TreeIs
<1>2. ASSUME NEW l \in -1..Top-1, l+1 \in S
      PROVE  l \in S
  <2>1. /\ N[l] = Entry(m, N[l+1], va, l+1)
        /\ N2[l] = Entry(m2, N2[l+1], va, l+1)
    BY TreeIs
  <2>2. N2[l+1] = N[l+1]
    BY <1>2
  <2>3. \A k \in 0..Top : N[k] # 0 => m2[N[k]][Index(va, k)] = m[N[k]][Index(va, k)]
    BY DEF Agree
  <2>. HIDE DEF N, N2
  <2>. QED  BY <1>0, <2>1, <2>2, <2>3 DEF Entry
<1>3. Level \subseteq S
  <2>. HIDE DEF S
  <2>. QED  BY <1>1, <1>2, DownTo
<1>4. N \in [Level -> Word] /\ N2 \in [Level -> Word]
  BY TreeIs
<1>. HIDE DEF N, N2
<1>. QED  BY <1>3, <1>4 DEF N, N2

\* A node f with no entries is hung below level k, in an entry that was missing
\* or, for k the level above the PGD, as the PGD.
HungInto(m2, r, r2, N, va, k, f) ==
  /\ N[k-1] = 0
  /\ IF k = Top+1 THEN r2 = f
     ELSE r2 = r /\ N[k] # 0 /\ m2[N[k]][Index(va, k)] = f
  /\ k # 0 => \A i \in Slot : m2[f][i] = 0

\* Then it is there, and the rest of the way is the same.
LEMMA TreeLinked ==
  ASSUME NEW m \in Words, NEW m2 \in Words, NEW r \in Word, NEW r2 \in Word,
         NEW va \in Addr, NEW k \in 0..Top+1, NEW f \in Word, f # 0,
         HungInto(m2, r, r2, TreeNodes(m, r, va), va, k, f),
         Agree(m, m2, TreeNodes(m, r, va), va, k+1..Top)
  PROVE  TreeNodes(m2, r2, va) = [TreeNodes(m, r, va) EXCEPT ![k-1] = f]
<1>. DEFINE N  == TreeNodes(m, r, va)
            N2 == TreeNodes(m2, r2, va)
            S  == {l \in Level : N2[l] = IF l = k-1 THEN f ELSE N[l]}
<1>0. /\ Top \in Nat /\ Top \in Level
      /\ \A l \in -1..Top-1 : l \in Level /\ l+1 \in 0..Top
  BY PagingAssumption DEF Level
<1>1. Top \in S
  <2>1. N[Top] = r /\ N2[Top] = r2
    BY TreeIs
  <2>2. IF k = Top+1 THEN r2 = f ELSE r2 = r
    BY DEF HungInto
  <2>. HIDE DEF N, N2
  <2>. QED  BY <1>0, <2>1, <2>2
<1>2. ASSUME NEW l \in -1..Top-1, l+1 \in S
      PROVE  l \in S
  <2>1. /\ N[l] = Entry(m, N[l+1], va, l+1)
        /\ N2[l] = Entry(m2, N2[l+1], va, l+1)
    BY TreeIs
  <2>2. N2[l+1] = IF l+1 = k-1 THEN f ELSE N[l+1]
    BY <1>2
  <2>3. /\ \A j \in k+1..Top : N[j] # 0 => m2[N[j]][Index(va, j)] = m[N[j]][Index(va, j)]
        /\ N[k-1] = 0
        /\ k # Top+1 => N[k] # 0 /\ m2[N[k]][Index(va, k)] = f
        /\ k # 0 => \A i \in Slot : m2[f][i] = 0
    BY DEF HungInto, Agree
  <2>4. \A j \in Level : j <= k-1 => N[j] = 0
    <3>1. k-1 \in Level
      BY PagingAssumption DEF Level
    <3>. QED  BY <2>3, <3>1, NoneBelow
  <2>5. Index(va, l+1) \in Slot
    BY <1>0, IndexIs
  <2>. HIDE DEF N, N2
  <2>6. CASE l >= k
    <3>1. N2[l+1] = N[l+1] /\ l+1 \in k+1..Top
      BY <1>0, <2>2, <2>6
    <3>. QED  BY <1>0, <2>1, <2>3, <2>6, <3>1 DEF Entry
  <2>7. CASE l = k-1
    <3>1. l+1 = k /\ k # Top+1 /\ k # k-1
      BY <1>0, <2>7
    <3>. QED  BY <1>0, <2>1, <2>2, <2>3, <2>7, <3>1 DEF Entry
  <2>8. CASE l+1 = k-1
    <3>1. N[l] = 0 /\ N2[l+1] = f /\ k # 0 /\ l # k-1
      BY <1>0, <2>2, <2>4, <2>8
    <3>. QED  BY <1>0, <2>1, <2>3, <2>5, <3>1 DEF Entry
  <2>9. CASE l+1 < k-1
    <3>1. l+1 \in Level
      BY <1>0 DEF Level
    <3>2. N[l] = 0 /\ N[l+1] = 0 /\ l+1 # k-1 /\ l # k-1
      BY <1>0, <2>4, <2>9, <3>1
    <3>. QED  BY <1>0, <2>1, <2>2, <3>2 DEF Entry
  <2>. QED  BY <2>6, <2>7, <2>8, <2>9
<1>3. Level \subseteq S
  <2>. HIDE DEF S
  <2>. QED  BY <1>1, <1>2, DownTo
<1>4. N \in [Level -> Word] /\ N2 \in [Level -> Word]
  BY TreeIs
<1>. HIDE DEF N, N2
<1>5. N2 = [N EXCEPT ![k-1] = f]
  BY <1>3, <1>4
<1>. QED  BY <1>5 DEF N, N2

-----------------------------------------------------------------------------
(* The inductive invariant.                                                *)

Flag == {"FREE", "KERNEL", "USER", "PAGETABLE"}

CallType == [at : {"idle", "user", "map", "link"}, dst : Task, va : Nat,
             page : Word, new : Word]

PagingTypeOK ==
  /\ mem_map \in [Frame -> Flag]
  /\ memory \in Words
  /\ pgd \in [Task -> Word]
  /\ kernel_pages \in [Task -> Seq(Frame)]
  /\ fork \in {"unborn", "copying", "E_OK", "E_NOMEM"}
  /\ todo \subseteq Addr
  /\ call \in [Task -> CallType]

\* A word that is not 0 is in one place, and the frames in places are those in
\* use.
Owned(held, used) ==
  /\ \A p, q \in Place : held[p] = held[q] /\ held[p] # 0 => p = q
  /\ \A p \in Place : held[p] # 0 => held[p] \in used
  /\ \A f \in used : \E p \in Place : held[p] = f

HeldBy == [p \in Place |-> Held(p)]
Used == Frame \ Free

\* A task maps pages for itself, except for the parent while it forks; then the
\* child does not run.
Active(t) == call[t].at # "idle"
DstOf(t) == IF t = "parent" /\ fork = "copying" THEN "child" ELSE t

CallOK ==
  \A t \in Task :
    /\ ~Active(t) => call[t] = Idle
    /\ Active(t) => /\ call[t].dst = DstOf(t)
                    /\ call[t].va \in Addr
                    /\ call[t].page # 0
                    /\ t = "child" => fork \in {"E_OK", "E_NOMEM"}
    /\ call[t].new # 0 <=> call[t].at = "link"

\* The page that is being mapped is not mapped yet, and a table that is about to
\* be linked is empty.
CallFor(t, d, va) == Active(t) /\ call[t].dst = d /\ call[t].va = va

Unmapped ==
  \A t, d \in Task, va \in Addr : CallFor(t, d, va) =>
    /\ pt_walk(d, va) = 0
    /\ call[t].at = "link" =>
         /\ pgd[d] # 0
         /\ Nodes(d, va)[0] = 0
         /\ \A i \in Slot : memory[call[t].new][i] = 0

\* A frame is marked as a page before it is mapped.
CallFlags ==
  \A t \in Task : call[t].at \in {"map", "link"} => mem_map[call[t].page] = "USER"

Flagged == FlagsTellUse /\ CallFlags

\* While the parent forks, the pages it has in its areas are those the child has,
\* the one under way and those still to come.
UnderWay == {v \in Addr : Active("parent") /\ call["parent"].va = v}

CopiedSoFar ==
  /\ \A va \in todo : pt_walk("child", va) = 0
  /\ todo \cap UnderWay = {}
  /\ \A va \in Addr : InArea(vmas, va) /\ pt_walk("parent", va) # 0 <=>
       pt_walk("child", va) # 0 \/ va \in todo \/ va \in UnderWay

Copying ==
  /\ fork = "unborn" => pgd["child"] = 0
  /\ fork = "copying" => CopiedSoFar

FramesInv == PagingTypeOK /\ Owned(HeldBy, Used) /\ CallOK /\ Unmapped
PagingInv == IInv /\ FramesInv /\ Flagged /\ KernelPagesExact /\ Copying

-----------------------------------------------------------------------------
(* Who holds what.                                                         *)

Plain == {"pgd", "page", "new"} \X Task \X {0}

\* The places: those of the tasks and their calls, and the entries.
LEMMA PlacesAre ==
  /\ \A t \in Task : /\ <<"pgd", t, 0>> \in Plain
                     /\ <<"page", t, 0>> \in Plain
                     /\ <<"new", t, 0>> \in Plain
  /\ \A g \in Frame, i \in Slot : /\ <<"entry", g, i>> \in Place
                                  /\ <<"entry", g, i>> \notin Plain
  /\ Plain \subseteq Place
  /\ \A p \in Place : p \in Plain \/ \E g \in Frame, i \in Slot : p = <<"entry", g, i>>
  /\ \A p \in Plain : \E t \in Task :
       p \in {<<"pgd", t, 0>>, <<"page", t, 0>>, <<"new", t, 0>>}
BY DEF Plain, Place, Slot

\* What they hold,
LEMMA HeldIs ==
  /\ \A t \in Task : /\ Held(<<"pgd", t, 0>>) = pgd[t]
                     /\ Held(<<"page", t, 0>>) = call[t].page
                     /\ Held(<<"new", t, 0>>) = call[t].new
  /\ \A g \in Frame, i \in Slot :
       Held(<<"entry", g, i>>) = IF g \in Free THEN 0 ELSE memory[g][i]
BY DEF Held, Free

\* what they hold after a step,
LEMMA HeldNext ==
  /\ \A t \in Task : /\ Held(<<"pgd", t, 0>>)' = pgd'[t]
                     /\ Held(<<"page", t, 0>>)' = call'[t].page
                     /\ Held(<<"new", t, 0>>)' = call'[t].new
  /\ \A g \in Frame, i \in Slot :
       Held(<<"entry", g, i>>)' = IF g \in Free' THEN 0 ELSE memory'[g][i]
BY DEF Held, Free

\* and the same as a function.
LEMMA HeldByIs ==
  /\ \A p \in Place : HeldBy[p] = Held(p) /\ HeldBy'[p] = Held(p)'
  /\ HeldBy = [p \in Place |-> HeldBy[p]] /\ HeldBy' = [p \in Place |-> HeldBy'[p]]
BY DEF HeldBy

\* Giving a free frame to a place that held none keeps the accounts,
LEMMA TakeKeeps ==
  ASSUME NEW held, NEW held2, NEW used, NEW f, f \notin used, f # 0,
         0 \notin used,
         Owned(held, used), NEW p \in Place, held[p] = 0,
         \A q \in Place : held2[q] = IF q = p THEN f ELSE held[q]
  PROVE  Owned(held2, used \cup {f})
<1>1. held2[p] = f /\ \A q \in Place : q # p => held2[q] = held[q]
  OBVIOUS
<1>2. \A q \in Place : q # p => held[q] # f
  BY DEF Owned
<1>3. ASSUME NEW q \in Place, NEW r \in Place, held2[q] = held2[r], held2[q] # 0
      PROVE  q = r
  BY <1>1, <1>2, <1>3 DEF Owned
<1>4. \A q \in Place : held2[q] # 0 => held2[q] \in used \cup {f}
  BY <1>1 DEF Owned
<1>5. ASSUME NEW g \in used \cup {f}
      PROVE  \E q \in Place : held2[q] = g
  <2>1. CASE g = f
    BY <1>1, <2>1
  <2>2. CASE g \in used
    <3>1. PICK q \in Place : held[q] = g
      BY <2>2 DEF Owned
    <3>. QED  BY <1>1, <2>2, <3>1
  <2>. QED  BY <2>1, <2>2
<1>. QED  BY <1>3, <1>4, <1>5 DEF Owned

\* and so does moving one from a place to a place that held none.
LEMMA MoveKeeps ==
  ASSUME NEW held, NEW held2, NEW used, Owned(held, used),
         NEW p \in Place, NEW q \in Place, held[p] # 0, held[q] = 0,
         \A r \in Place : held2[r] = IF r = p THEN 0
                                     ELSE IF r = q THEN held[p] ELSE held[r]
  PROVE  Owned(held2, used)
<1>0. p # q
  OBVIOUS
<1>1. \A r \in Place : held2[r] # 0 =>
        held2[r] = held[IF r = q THEN p ELSE r] /\ r # p
  BY <1>0
<1>2. ASSUME NEW r \in Place, NEW s \in Place, held2[r] = held2[s], held2[r] # 0
      PROVE  r = s
  BY <1>0, <1>1, <1>2 DEF Owned
<1>3. \A r \in Place : held2[r] # 0 => held2[r] \in used
  BY <1>1 DEF Owned
<1>4. ASSUME NEW f \in used
      PROVE  \E r \in Place : held2[r] = f
  <2>1. PICK r \in Place : held[r] = f
    BY DEF Owned
  <2>2. CASE r = p
    BY <1>0, <2>1, <2>2
  <2>3. CASE r = q
    <3>1. f = 0
      BY <2>1, <2>3
    <3>2. held2[p] = 0
      OBVIOUS
    <3>. QED  BY <3>1, <3>2
  <2>4. CASE r # p /\ r # q
    BY <2>1, <2>4
  <2>. QED  BY <2>2, <2>3, <2>4
<1>. QED  BY <1>2, <1>3, <1>4 DEF Owned

\* A frame is free or in use.
LEMMA FreeIs ==
  /\ \A f \in Frame : f \in Used <=> mem_map[f] # "FREE"
  /\ \A f \in Frame : f \in Used' <=> mem_map'[f] # "FREE"
  /\ \A f \in Frame : f \in Free <=> mem_map[f] = "FREE"
  /\ \A f \in Frame : f \in Free' <=> mem_map'[f] = "FREE"
  /\ Used \subseteq Frame /\ Used' \subseteq Frame /\ Free \subseteq Frame
BY DEF Used, Free

\* get_free_page() returns a frame that is free.
LEMMA FirstFreeIs ==
  ASSUME FirstFree # 0
  PROVE  FirstFree \in Free
<1>1. Free # {} /\ FirstFree = Min(Free)
  BY DEF FirstFree
<1>2. Free \subseteq Nat
  BY PagingAssumption DEF Free, Frame
<1>3. \E m \in Free : \A n \in Free : m <= n
  BY <1>1, <1>2, LeastNumber
<1>4. Min(Free) \in Free
  BY ONLY <1>3, Zenon DEF Min
<1>. QED  BY <1>1, <1>4

\* A frame is taken into a PGD or a call,
LEMMA TakeOwned ==
  ASSUME PagingTypeOK, Owned(HeldBy, Used), NEW f \in Free, Take(f),
         NEW p \in Plain, Held(p) = 0,
         \A q \in Plain : Held(q)' = IF q = p THEN f ELSE Held(q)
  PROVE  Owned(HeldBy', Used')
<1>0. f \in Frame /\ f # 0 /\ f \notin Used /\ 0 \notin Used
  BY PagingAssumption DEF Free, Frame, Used
<1>1. /\ mem_map' = [mem_map EXCEPT ![f] = "KERNEL"]
      /\ memory' = [memory EXCEPT ![f] = [i \in Slot |-> 0]]
  BY DEF Take, Zeroed, Slot
<1>2. Used' = Used \cup {f} /\ \A g \in Frame : g \in Free' <=> g \in Free /\ g # f
  BY <1>0, <1>1, FreeIs DEF PagingTypeOK
<1>3. ASSUME NEW g \in Frame, NEW i \in Slot
      PROVE  Held(<<"entry", g, i>>)' = Held(<<"entry", g, i>>)
  <2>1. /\ Held(<<"entry", g, i>>)  = IF g \in Free  THEN 0 ELSE memory[g][i]
        /\ Held(<<"entry", g, i>>)' = IF g \in Free' THEN 0 ELSE memory'[g][i]
    BY HeldIs, HeldNext
  <2>2. CASE g = f
    <3>1. memory'[g][i] = 0
      BY <1>0, <1>1, <2>2 DEF PagingTypeOK, Words
    <3>. QED  BY <2>1, <2>2, <3>1
  <2>3. CASE g # f
    <3>1. memory'[g] = memory[g]
      BY <1>1, <2>3 DEF PagingTypeOK, Words
    <3>. QED  BY <1>2, <2>1, <2>3, <3>1
  <2>. QED  BY <2>2, <2>3
<1>4. \A q \in Place : Held(q)' = IF q = p THEN f ELSE Held(q)
  BY <1>3, PlacesAre
<1>5. \A q \in Place : HeldBy'[q] = IF q = p THEN f ELSE HeldBy[q]
  BY <1>4, HeldByIs
<1>6. p \in Place /\ HeldBy[p] = 0
  BY PlacesAre, HeldByIs
<1>7. Owned(HeldBy', Used \cup {f})
  BY <1>0, <1>5, <1>6, TakeKeeps
<1>. QED  BY <1>2, <1>7

\* and from there into an entry.
LEMMA MoveOwned ==
  ASSUME PagingTypeOK, Owned(HeldBy, Used), Used' = Used,
         NEW n \in Used, NEW i \in Slot, memory[n][i] = 0,
         NEW p \in Plain, Held(p) # 0,
         memory' = [memory EXCEPT ![n][i] = Held(p)],
         \A q \in Plain : Held(q)' = IF q = p THEN 0 ELSE Held(q)
  PROVE  Owned(HeldBy', Used')
<1>. DEFINE e == <<"entry", n, i>>
<1>0. n \in Frame /\ e \in Place /\ e \notin Plain /\ p \in Place
  BY FreeIs, PlacesAre
<1>1. \A g \in Frame : g \in Free' <=> g \in Free
  BY FreeIs
<1>2. ASSUME NEW g \in Frame, NEW j \in Slot
      PROVE  Held(<<"entry", g, j>>)' = IF <<"entry", g, j>> = e THEN Held(p)
                                        ELSE Held(<<"entry", g, j>>)
  <2>1. /\ Held(<<"entry", g, j>>)  = IF g \in Free THEN 0 ELSE memory[g][j]
        /\ Held(<<"entry", g, j>>)' = IF g \in Free THEN 0 ELSE memory'[g][j]
    BY <1>1, HeldIs, HeldNext
  <2>2. CASE g = n /\ j = i
    <3>1. memory'[n][i] = Held(p) /\ n \notin Free
      BY <1>0 DEF PagingTypeOK, Words, Used
    <3>. QED  BY <2>1, <2>2, <3>1
  <2>3. CASE ~(g = n /\ j = i)
    <3>1. memory'[g][j] = memory[g][j]
      BY <1>0, <2>3 DEF PagingTypeOK, Words
    <3>. QED  BY <2>1, <2>3, <3>1
  <2>. QED  BY <2>2, <2>3
<1>3. \A q \in Place : Held(q)' = IF q = p THEN 0 ELSE IF q = e THEN Held(p) ELSE Held(q)
  <2>. HIDE DEF e
  <2>. QED  BY <1>0, <1>2, PlacesAre
<1>4. Held(e) = 0
  BY <1>0, HeldIs
<1>. HIDE DEF e
<1>5. /\ \A q \in Place : HeldBy'[q] = IF q = p THEN 0
                                       ELSE IF q = e THEN HeldBy[p] ELSE HeldBy[q]
      /\ HeldBy[p] # 0 /\ HeldBy[e] = 0
  BY <1>0, <1>3, <1>4, HeldByIs
<1>6. Owned(HeldBy', Used)
  BY <1>0, <1>5, MoveKeeps
<1>. QED  BY <1>6

\* Nothing is taken or moved.
LEMMA SameOwned ==
  ASSUME Owned(HeldBy, Used), Used' = Used, UNCHANGED memory,
         \A q \in Plain : Held(q)' = Held(q)
  PROVE  Owned(HeldBy', Used')
<1>1. \A g \in Frame : g \in Free' <=> g \in Free
  BY FreeIs
<1>2. ASSUME NEW g \in Frame, NEW i \in Slot
      PROVE  Held(<<"entry", g, i>>)' = Held(<<"entry", g, i>>)
  <2>1. /\ Held(<<"entry", g, i>>)  = IF g \in Free  THEN 0 ELSE memory[g][i]
        /\ Held(<<"entry", g, i>>)' = IF g \in Free' THEN 0 ELSE memory'[g][i]
    BY HeldIs, HeldNext
  <2>. QED  BY <1>1, <2>1
<1>3. \A q \in Place : HeldBy'[q] = HeldBy[q]
  BY <1>2, PlacesAre, HeldByIs
<1>4. HeldBy' = HeldBy
  BY <1>3, HeldByIs
<1>. QED  BY <1>4

-----------------------------------------------------------------------------
(* The nodes of the two tasks.                                             *)

\* The nodes on the way of an address, before a step,
LEMMA NodesAre ==
  ASSUME PagingTypeOK, NEW t \in Task, NEW va \in Addr
  PROVE  /\ Nodes(t, va) = TreeNodes(memory, pgd[t], va)
         /\ Nodes(t, va) \in [Level -> Word]
         /\ Nodes(t, va)[Top] = pgd[t]
         /\ \A l \in -1..Top-1 :
              Nodes(t, va)[l] = Entry(memory, Nodes(t, va)[l+1], va, l+1)
         /\ pt_walk(t, va) = Nodes(t, va)[-1]
<1>1. memory \in Words /\ pgd[t] \in Word
  BY DEF PagingTypeOK
<1>2. Nodes(t, va) = TreeNodes(memory, pgd[t], va)
  BY DEF Nodes
<1>3. pt_walk(t, va) = Nodes(t, va)[-1]
  BY DEF pt_walk
<1>. QED  BY <1>1, <1>2, <1>3, TreeIs

\* and after it.
LEMMA NodesNext ==
  ASSUME NEW t \in Task, NEW va \in Addr
  PROVE  /\ Nodes(t, va)' = TreeNodes(memory', pgd'[t], va)
         /\ pt_walk(t, va)' = Nodes(t, va)'[-1]
BY DEF Nodes, pt_walk

LevelsAre ==
  /\ Top \in Nat /\ Top \in Level /\ -1 \in Level /\ 0 \in Level
  /\ \A l \in -1..Top-1 : l \in Level /\ l+1 \in Level /\ l+1 \in 0..Top
  /\ \A l \in Level : l # Top => l \in -1..Top-1
  /\ \A l \in 0..Top : l \in Level
  /\ \A l \in 0..Top+1 : l-1 \in Level

\* The arithmetic of the levels.
LEMMA Levels == LevelsAre
BY PagingAssumption DEF Level, LevelsAre

\* The place that holds the node of level l.
PlaceOf(t, va, l) ==
  IF l = Top THEN <<"pgd", t, 0>>
  ELSE <<"entry", Nodes(t, va)[l+1], Index(va, l+1)>>

\* A node is held where the way passes, so that it is in use.
LEMMA NodeHeld ==
  ASSUME PagingTypeOK, Owned(HeldBy, Used), NEW t \in Task, NEW va \in Addr,
         NEW l \in Level, Nodes(t, va)[l] # 0
  PROVE  /\ PlaceOf(t, va, l) \in Place
         /\ HeldBy[PlaceOf(t, va, l)] = Nodes(t, va)[l]
         /\ Nodes(t, va)[l] \in Used
<1>. DEFINE N == Nodes(t, va)
            Ok(k) == /\ PlaceOf(t, va, k) \in Place
                     /\ HeldBy[PlaceOf(t, va, k)] = N[k]
                     /\ N[k] \in Used
            S == {k \in Level : N[k] # 0 => Ok(k)}
<1>1. Top \in S
  <2>1. PlaceOf(t, va, Top) = <<"pgd", t, 0>> /\ N[Top] = pgd[t]
    BY NodesAre DEF PlaceOf
  <2>2. /\ <<"pgd", t, 0>> \in Place
        /\ HeldBy[<<"pgd", t, 0>>] = pgd[t]
    BY PlacesAre, HeldIs, HeldByIs
  <2>3. pgd[t] # 0 => pgd[t] \in Used
    BY <2>2 DEF Owned
  <2>. QED  BY <2>1, <2>2, <2>3, Levels DEF LevelsAre
<1>2. ASSUME NEW k \in -1..Top-1, k+1 \in S
      PROVE  k \in S
  <2>. SUFFICES ASSUME N[k] # 0
                PROVE  Ok(k)
    BY Levels DEF LevelsAre
  <2>. DEFINE g == N[k+1]
              i == Index(va, k+1)
  <2>1. k+1 \in 0..Top /\ k # Top
    BY Levels DEF LevelsAre
  <2>2. N[k] = Entry(memory, g, va, k+1)
    BY NodesAre
  <2>3. g # 0 /\ N[k] = memory[g][i]
    BY <2>2 DEF Entry
  <2>4. g \in Used
    BY <1>2, <2>3
  <2>5. g \in Frame /\ g \notin Free /\ i \in Slot
    BY <2>1, <2>4, IndexIs DEF Used
  <2>6. PlaceOf(t, va, k) = <<"entry", g, i>>
    BY <2>1 DEF PlaceOf
  <2>. HIDE DEF g, i
  <2>7. /\ <<"entry", g, i>> \in Place
        /\ HeldBy[<<"entry", g, i>>] = memory[g][i]
    BY <2>5, PlacesAre, HeldIs, HeldByIs
  <2>8. memory[g][i] # 0 => memory[g][i] \in Used
    BY <2>7 DEF Owned
  <2>. QED  BY <2>3, <2>6, <2>7, <2>8
<1>3. Level \subseteq S
  <2>. HIDE DEF S
  <2>. QED  BY <1>1, <1>2, DownTo
<1>. QED  BY <1>3

\* No node is on the way of two addresses that part above it, of two levels or of
\* two tasks.
LEMMA UniquePath ==
  ASSUME PagingTypeOK, Owned(HeldBy, Used),
         NEW t \in Task, NEW va \in Addr, NEW l \in Level,
         NEW u \in Task, NEW vb \in Addr, NEW k \in Level,
         Nodes(t, va)[l] = Nodes(u, vb)[k], Nodes(t, va)[l] # 0
  PROVE  t = u /\ l = k /\ Upper[l+1][va] = Upper[l+1][vb]
<1>. DEFINE Same(j) == \A i \in Level :
              Nodes(t, va)[j] = Nodes(u, vb)[i] /\ Nodes(t, va)[j] # 0 =>
                t = u /\ j = i /\ Upper[j+1][va] = Upper[j+1][vb]
            S == {j \in Level : Same(j)}
<1>0. ASSUME NEW j \in Level, NEW i \in Level,
             Nodes(t, va)[j] = Nodes(u, vb)[i], Nodes(t, va)[j] # 0
      PROVE  PlaceOf(t, va, j) = PlaceOf(u, vb, i)
  <2>1. /\ PlaceOf(t, va, j) \in Place
        /\ HeldBy[PlaceOf(t, va, j)] = Nodes(t, va)[j]
    BY <1>0, NodeHeld
  <2>2. /\ PlaceOf(u, vb, i) \in Place
        /\ HeldBy[PlaceOf(u, vb, i)] = Nodes(u, vb)[i]
    BY <1>0, NodeHeld
  <2>. QED  BY <1>0, <2>1, <2>2 DEF Owned
<1>1. Top \in S
  <2>1. ASSUME NEW i \in Level,
               Nodes(t, va)[Top] = Nodes(u, vb)[i], Nodes(t, va)[Top] # 0
        PROVE  t = u /\ Top = i /\ Upper[Top+1][va] = Upper[Top+1][vb]
    <3>1. PlaceOf(t, va, Top) = PlaceOf(u, vb, i)
      BY <1>0, <2>1, Levels DEF LevelsAre
    <3>2. Top = i /\ t = u
      BY <3>1 DEF PlaceOf
    <3>. QED  BY <3>2, AddressesFit
  <2>. QED  BY <2>1, Levels DEF LevelsAre
<1>2. ASSUME NEW j \in -1..Top-1, j+1 \in S
      PROVE  j \in S
  <2>1. ASSUME NEW i \in Level,
               Nodes(t, va)[j] = Nodes(u, vb)[i], Nodes(t, va)[j] # 0
        PROVE  t = u /\ j = i /\ Upper[j+1][va] = Upper[j+1][vb]
    <3>1. j \in Level /\ j # Top /\ j+1 \in 0..Top
      BY Levels DEF LevelsAre
    <3>2. PlaceOf(t, va, j) = PlaceOf(u, vb, i)
      BY <1>0, <2>1, <3>1
    <3>3. /\ i # Top
          /\ Nodes(t, va)[j+1] = Nodes(u, vb)[i+1]
          /\ Index(va, j+1) = Index(vb, i+1)
      BY <3>1, <3>2 DEF PlaceOf
    <3>4. i+1 \in Level /\ j+1 \in Level
      BY <3>1, <3>3, Levels DEF LevelsAre
    <3>5. Nodes(t, va)[j+1] # 0
      <4>1. Nodes(t, va)[j] = Entry(memory, Nodes(t, va)[j+1], va, j+1)
        BY NodesAre
      <4>. QED  BY <2>1, <4>1 DEF Entry
    <3>6. t = u /\ j+1 = i+1 /\ Upper[j+1+1][va] = Upper[j+1+1][vb]
      BY <1>2, <3>3, <3>4, <3>5
    <3>7. j = i
      BY <3>1, <3>6 DEF Level
    <3>8. Upper[j+1][va] = Upper[j+1][vb]
      BY <3>1, <3>3, <3>6, <3>7, IndexIs
    <3>. QED  BY <3>6, <3>7, <3>8
  <2>. QED  BY <2>1, Levels DEF LevelsAre
<1>3. Level \subseteq S
  <2>. HIDE DEF S
  <2>. QED  BY <1>1, <1>2, DownTo
<1>. QED  BY <1>3

\* What a call holds is not a node.
LEMMA CallsAreNoNodes ==
  ASSUME PagingTypeOK, Owned(HeldBy, Used), NEW u \in Task,
         NEW t \in Task, NEW va \in Addr, NEW l \in Level, Nodes(t, va)[l] # 0
  PROVE  Nodes(t, va)[l] # call[u].page /\ Nodes(t, va)[l] # call[u].new
<1>1. /\ PlaceOf(t, va, l) \in Place
      /\ HeldBy[PlaceOf(t, va, l)] = Nodes(t, va)[l]
  BY NodeHeld
<1>2. PlaceOf(t, va, l) # <<"page", u, 0>> /\ PlaceOf(t, va, l) # <<"new", u, 0>>
  BY DEF PlaceOf
<1>3. /\ <<"page", u, 0>> \in Place /\ HeldBy[<<"page", u, 0>>] = call[u].page
      /\ <<"new", u, 0>> \in Place /\ HeldBy[<<"new", u, 0>>] = call[u].new
  BY PlacesAre, HeldIs, HeldByIs
<1>. QED  BY <1>1, <1>2, <1>3 DEF Owned

-----------------------------------------------------------------------------
(* What a step does to the nodes: nothing, or it hangs f below level k of   *)
(* the way of va in task d.                                                *)

SameNodes == \A t \in Task, va \in Addr : Nodes(t, va)' = Nodes(t, va)

Hung(d, a, k, f) ==
  \A t \in Task, va \in Addr :
    Nodes(t, va)' = IF t = d /\ Upper[k][va] = Upper[k][a]
                    THEN [Nodes(t, va) EXCEPT ![k-1] = f] ELSE Nodes(t, va)

\* Where neither words nor PGDs change, no way does.
LEMMA UntouchedNodes ==
  ASSUME PagingTypeOK, UNCHANGED <<memory, pgd>>
  PROVE  SameNodes
BY DEF SameNodes, Nodes

\* A free frame that is zeroed is on nobody's way.
LEMMA TakeNodes ==
  ASSUME PagingTypeOK, Owned(HeldBy, Used), NEW f \in Free, Take(f),
         NEW t \in Task, pgd'[t] = pgd[t], NEW va \in Addr
  PROVE  Nodes(t, va)' = Nodes(t, va)
<1>1. /\ memory \in Words /\ pgd[t] \in Word
      /\ memory' = [memory EXCEPT ![f] = [i \in Slot |-> 0]]
  BY DEF PagingTypeOK, Take, Zeroed, Slot
<1>2. memory' \in Words
  <2>1. 0 \in Word
    BY PagingAssumption DEF Word
  <2>. QED  BY <1>1, <2>1 DEF Words
<1>3. ASSUME NEW l \in 0..Top, Nodes(t, va)[l] # 0
      PROVE  memory'[Nodes(t, va)[l]] = memory[Nodes(t, va)[l]]
  <2>1. Nodes(t, va)[l] \in Used
    BY <1>3, NodeHeld, Levels DEF LevelsAre
  <2>2. Nodes(t, va)[l] # f
    BY <2>1 DEF Used
  <2>. QED  BY <1>1, <2>1, <2>2 DEF Words, Used
<1>4. Nodes(t, va) = TreeNodes(memory, pgd[t], va)
  BY DEF Nodes
<1>5. Agree(memory, memory', TreeNodes(memory, pgd[t], va), va, 0..Top)
  BY <1>3, <1>4 DEF Agree
<1>6. TreeNodes(memory', pgd[t], va) = TreeNodes(memory, pgd[t], va)
  BY <1>1, <1>2, <1>5, TreeSame
<1>. QED  BY <1>4, <1>6, NodesNext

\* Then all ways are the same if no PGD changes.
LEMMA TakeSameNodes ==
  ASSUME PagingTypeOK, Owned(HeldBy, Used), NEW f \in Free, Take(f), UNCHANGED pgd
  PROVE  SameNodes
BY TakeNodes DEF SameNodes

\* A PGD that comes with the first page.
LEMMA PgdNodes ==
  ASSUME PagingTypeOK, Owned(HeldBy, Used), NEW f \in Free, Take(f),
         NEW d \in Task, pgd[d] = 0, pgd' = [pgd EXCEPT ![d] = f],
         NEW a \in Addr, NEW k, k = Top+1
  PROVE  Hung(d, a, k, f)
<1>. SUFFICES ASSUME NEW t \in Task, NEW va \in Addr
              PROVE  Nodes(t, va)' = IF t = d /\ Upper[k][va] = Upper[k][a]
                                     THEN [Nodes(t, va) EXCEPT ![k-1] = f]
                                     ELSE Nodes(t, va)
  BY DEF Hung
<1>1. Upper[k][va] = Upper[k][a]
  BY AddressesFit
<1>2. CASE t # d
  <2>1. pgd'[t] = pgd[t]
    BY <1>2 DEF PagingTypeOK
  <2>. QED  BY <1>2, <2>1, TakeNodes
<1>3. CASE t = d
  <2>1. /\ memory \in Words /\ pgd[d] \in Word /\ pgd'[d] = f
        /\ memory' = [memory EXCEPT ![f] = [i \in Slot |-> 0]]
    BY DEF PagingTypeOK, Take, Zeroed, Slot
  <2>2. f \in Frame /\ f \in Word /\ f # 0 /\ 0 \in Word
    BY PagingAssumption DEF Free, Frame, Word
  <2>3. memory' \in Words /\ \A i \in Slot : memory'[f][i] = 0
    BY <2>1, <2>2 DEF Words
  <2>4. Nodes(d, va)[Top] = 0 /\ Nodes(d, va) = TreeNodes(memory, pgd[d], va)
    BY NodesAre
  <2>5. Nodes(d, va)' = TreeNodes(memory', f, va)
    <3>1. Nodes(d, va)' = TreeNodes(memory', pgd'[d], va)
      BY NodesNext
    <3>. QED  BY <2>1, <3>1
  <2>6. k \in 0..Top+1 /\ k-1 = Top /\ k+1..Top = {} /\ k # 0
    BY PagingAssumption
  <2>7. HungInto(memory', pgd[d], f, TreeNodes(memory, pgd[d], va), va, k, f)
    BY <2>3, <2>4, <2>6 DEF HungInto
  <2>8. Agree(memory, memory', TreeNodes(memory, pgd[d], va), va, k+1..Top)
    BY <2>6 DEF Agree
  <2>9. TreeNodes(memory', f, va) = [TreeNodes(memory, pgd[d], va) EXCEPT ![k-1] = f]
    BY <2>1, <2>2, <2>3, <2>6, <2>7, <2>8, TreeLinked
  <2>. QED  BY <1>1, <1>3, <2>4, <2>5, <2>9
<1>. QED  BY <1>2, <1>3

\* A node that is entered in a table where the entry was missing.
LEMMA EntryNodes ==
  ASSUME PagingTypeOK, Owned(HeldBy, Used), UNCHANGED pgd,
         NEW d \in Task, NEW a \in Addr, NEW k \in 0..Top,
         Nodes(d, a)[k] # 0, Nodes(d, a)[k-1] = 0,
         NEW f \in Word, f # 0, f # Nodes(d, a)[k],
         k # 0 => \A i \in Slot : memory[f][i] = 0,
         memory' = [memory EXCEPT ![Nodes(d, a)[k]][Index(a, k)] = f]
  PROVE  Hung(d, a, k, f)
<1>. DEFINE n == Nodes(d, a)[k]
<1>0. k \in Level /\ k-1 \in Level /\ k \in 0..Top+1
  BY Levels DEF LevelsAre
<1>1. memory \in Words /\ n \in Frame /\ Index(a, k) \in Slot
  BY <1>0, NodeHeld, IndexIs DEF PagingTypeOK, Used
<1>2. f \in Frame
  BY PagingAssumption DEF Word, Frame
<1>3. memory' \in Words
  <2>. HIDE DEF n
  <2>. QED  BY <1>1 DEF n, Words
<1>4. \A g \in Frame, i \in Slot : ~(g = n /\ i = Index(a, k)) =>
        memory'[g][i] = memory[g][i]
  BY <1>1 DEF Words
<1>5. memory'[n][Index(a, k)] = f
  BY <1>1 DEF Words
<1>. SUFFICES ASSUME NEW t \in Task, NEW va \in Addr
              PROVE  Nodes(t, va)' = IF t = d /\ Upper[k][va] = Upper[k][a]
                                     THEN [Nodes(t, va) EXCEPT ![k-1] = f]
                                     ELSE Nodes(t, va)
  BY DEF Hung
<1>. DEFINE N == Nodes(t, va)
<1>6. N = TreeNodes(memory, pgd[t], va) /\ N' = TreeNodes(memory', pgd[t], va)
  BY DEF Nodes
<1>7. pgd[t] \in Word
  BY DEF PagingTypeOK
\* Where the way of va in t meets the table that is written.
<1>8. ASSUME NEW l \in 0..Top, N[l] # 0,
             ~(t = d /\ l = k /\ Upper[k][va] = Upper[k][a])
      PROVE  memory'[N[l]][Index(va, l)] = memory[N[l]][Index(va, l)]
  <2>1. N[l] \in Frame /\ Index(va, l) \in Slot /\ l \in Level
    BY <1>8, NodeHeld, IndexIs, Levels DEF Used, LevelsAre
  <2>2. CASE N[l] # n
    <3>. HIDE DEF N, n
    <3>. QED  BY <1>4, <2>1, <2>2
  <2>3. CASE N[l] = n
    <3>1. t = d /\ l = k /\ Upper[k+1][va] = Upper[k+1][a]
      BY <1>0, <1>8, <2>1, <2>3, UniquePath
    <3>2. Index(va, l) # Index(a, k)
      BY <1>8, <3>1, IndexIs
    <3>. HIDE DEF N, n
    <3>. QED  BY <1>4, <2>1, <3>2
  <2>. QED  BY <2>2, <2>3
<1>9. CASE t = d /\ Upper[k][va] = Upper[k][a]
  <2>1. Upper[k+1][va] = Upper[k+1][a] /\ Index(va, k) = Index(a, k)
    BY <1>9, IndexIs
  <2>2. N[k] = n
    BY <1>0, <1>1, <1>6, <1>7, <1>9, <2>1, SamePath, NodesAre
  <2>3. N[k-1] = 0
    <3>1. \A j \in Level : j+1 = k => Upper[j+1][va] = Upper[j+1][a]
      BY <1>9
    <3>2. k-1+1 = k
      BY PagingAssumption
    <3>3. Upper[(k-1)+1][va] = Upper[(k-1)+1][a]
      BY <1>0, <3>1, <3>2
    <3>4. TreeNodes(memory, pgd[t], va)[k-1] = TreeNodes(memory, pgd[t], a)[k-1]
      BY <1>0, <1>1, <1>7, <3>3, SamePath
    <3>5. Nodes(d, a)[k-1] = 0 /\ Nodes(d, a) = TreeNodes(memory, pgd[t], a)
      BY <1>9 DEF Nodes
    <3>. QED  BY <1>6, <3>4, <3>5
  <2>4. Agree(memory, memory', N, va, k+1..Top)
    <3>1. \A l \in k+1..Top : l \in 0..Top /\ l # k
      OBVIOUS
    <3>. QED  BY <1>8, <3>1 DEF Agree
  <2>5. HungInto(memory', pgd[t], pgd[t], N, va, k, f)
    <3>1. k # 0 => \A i \in Slot : memory'[f][i] = 0
      BY <1>2, <1>4
    <3>2. memory'[N[k]][Index(va, k)] = f /\ N[k] # 0 /\ k # Top+1
      BY <1>5, <2>1, <2>2, PagingAssumption
    <3>. QED  BY <2>3, <3>1, <3>2 DEF HungInto
  <2>6. TreeNodes(memory', pgd[t], va) = [TreeNodes(memory, pgd[t], va) EXCEPT ![k-1] = f]
    BY <1>0, <1>1, <1>3, <1>6, <1>7, <2>4, <2>5, TreeLinked
  <2>. QED  BY <1>6, <1>9, <2>6
<1>10. CASE ~(t = d /\ Upper[k][va] = Upper[k][a])
  <2>1. Agree(memory, memory', TreeNodes(memory, pgd[t], va), va, 0..Top)
    BY <1>6, <1>8, <1>10 DEF Agree
  <2>2. TreeNodes(memory', pgd[t], va) = TreeNodes(memory, pgd[t], va)
    BY <1>1, <1>3, <1>6, <1>7, <2>1, TreeSame
  <2>. QED  BY <1>6, <1>10, <2>2
<1>. QED  BY <1>9, <1>10

-----------------------------------------------------------------------------
(* The steps keep the accounts of the frames.                              *)

\* What the plain places hold, when one of them changes to w.
LEMMA PlainHeld ==
  ASSUME NEW p \in Plain, NEW w,
         \A t \in Task :
           /\ pgd'[t] = IF p = <<"pgd", t, 0>> THEN w ELSE pgd[t]
           /\ call'[t].page = IF p = <<"page", t, 0>> THEN w ELSE call[t].page
           /\ call'[t].new = IF p = <<"new", t, 0>> THEN w ELSE call[t].new
  PROVE  \A q \in Plain : Held(q)' = IF q = p THEN w ELSE Held(q)
<1>. SUFFICES ASSUME NEW q \in Plain
              PROVE  Held(q)' = IF q = p THEN w ELSE Held(q)
  OBVIOUS
<1>1. PICK t \in Task : q \in {<<"pgd", t, 0>>, <<"page", t, 0>>, <<"new", t, 0>>}
  BY PlacesAre
<1>2. CASE q = <<"pgd", t, 0>>
  <2>1. Held(q) = pgd[t] /\ Held(q)' = pgd'[t]
    BY <1>2, HeldIs, HeldNext
  <2>. QED  BY <1>2, <2>1
<1>3. CASE q = <<"page", t, 0>>
  <2>1. Held(q) = call[t].page /\ Held(q)' = call'[t].page
    BY <1>3, HeldIs, HeldNext
  <2>. QED  BY <1>3, <2>1
<1>4. CASE q = <<"new", t, 0>>
  <2>1. Held(q) = call[t].new /\ Held(q)' = call'[t].new
    BY <1>4, HeldIs, HeldNext
  <2>. QED  BY <1>4, <2>1
<1>. QED  BY <1>1, <1>2, <1>3, <1>4

\* What they hold when none of them changes.
LEMMA PlainSame ==
  ASSUME \A t \in Task : /\ pgd'[t] = pgd[t]
                         /\ call'[t].page = call[t].page
                         /\ call'[t].new = call[t].new
  PROVE  \A q \in Plain : Held(q)' = Held(q)
<1>. SUFFICES ASSUME NEW q \in Plain
              PROVE  Held(q)' = Held(q)
  OBVIOUS
<1>1. PICK t \in Task : q \in {<<"pgd", t, 0>>, <<"page", t, 0>>, <<"new", t, 0>>}
  BY PlacesAre
<1>2. CASE q = <<"pgd", t, 0>>
  <2>1. Held(q) = pgd[t] /\ Held(q)' = pgd'[t]
    BY <1>2, HeldIs, HeldNext
  <2>. QED  BY <2>1
<1>3. CASE q = <<"page", t, 0>>
  <2>1. Held(q) = call[t].page /\ Held(q)' = call'[t].page
    BY <1>3, HeldIs, HeldNext
  <2>. QED  BY <2>1
<1>4. CASE q = <<"new", t, 0>>
  <2>1. Held(q) = call[t].new /\ Held(q)' = call'[t].new
    BY <1>4, HeldIs, HeldNext
  <2>. QED  BY <2>1
<1>. QED  BY <1>1, <1>2, <1>3, <1>4

\* The calls of two tasks are for different address spaces.
LEMMA CallsApart ==
  ASSUME CallOK, NEW t \in Task, NEW u \in Task, t # u, Active(t), Active(u)
  PROVE  call[t].dst # call[u].dst
BY DEF CallOK, DstOf, Task

\* What a frame just taken is to the others.
LEMMA TakenIs ==
  ASSUME PagingTypeOK, Owned(HeldBy, Used), NEW f \in Free, Take(f)
  PROVE  /\ f \in Frame /\ f \in Word /\ f # 0
         /\ mem_map' = [mem_map EXCEPT ![f] = "KERNEL"]
         /\ mem_map' \in [Frame -> Flag]
         /\ memory' \in Words
         /\ \A i \in Slot : memory'[f][i] = 0
         /\ \A u \in Task : /\ call[u].page # f /\ call[u].new # f /\ pgd[u] # f
                            /\ call[u].new # 0 =>
                                 memory'[call[u].new] = memory[call[u].new]
<1>1. /\ f \in Frame /\ f \in Word /\ f # 0 /\ f \notin Used /\ 0 \in Word
  BY PagingAssumption DEF Free, Frame, Word, Used
<1>2. /\ mem_map' = [mem_map EXCEPT ![f] = "KERNEL"]
      /\ memory' = [memory EXCEPT ![f] = [i \in Slot |-> 0]]
  BY DEF Take, Zeroed, Slot
<1>3. mem_map' \in [Frame -> Flag] /\ memory' \in Words /\ memory \in Words
  BY <1>1, <1>2 DEF PagingTypeOK, Flag, Words
<1>4. \A i \in Slot : memory'[f][i] = 0
  BY <1>1, <1>2, <1>3 DEF Words
<1>5. ASSUME NEW u \in Task
      PROVE  call[u].page # f /\ call[u].new # f /\ pgd[u] # f
  <2>1. /\ <<"page", u, 0>> \in Place /\ HeldBy[<<"page", u, 0>>] = call[u].page
        /\ <<"new", u, 0>> \in Place /\ HeldBy[<<"new", u, 0>>] = call[u].new
        /\ <<"pgd", u, 0>> \in Place /\ HeldBy[<<"pgd", u, 0>>] = pgd[u]
    BY PlacesAre, HeldIs, HeldByIs
  <2>. QED  BY <1>1, <2>1 DEF Owned
<1>6. ASSUME NEW u \in Task, call[u].new # 0
      PROVE  memory'[call[u].new] = memory[call[u].new]
  <2>1. call[u].new \in Frame
    <3>1. call[u].new \in Word
      BY DEF PagingTypeOK, CallType
    <3>. QED  BY <1>6, <3>1, PagingAssumption DEF Word, Frame
  <2>. QED  BY <1>2, <1>3, <1>5, <2>1 DEF Words
<1>. QED  BY <1>1, <1>2, <1>3, <1>4, <1>5, <1>6

\* A call that begins with a frame taken, for a page that is not mapped.
Begins(t, f, a) ==
  /\ Take(f)
  /\ call' = [call EXCEPT ![t] = Begun(DstOf(t), a, f)]
  /\ UNCHANGED <<pgd, kernel_pages, fork, vmas>>
  /\ todo' \subseteq todo

\* do_mem_abort() and allocate_user_page() up to the mark keep the accounts,
LEMMA BeginKeeps ==
  ASSUME FramesInv, NEW t \in Task, NEW f \in Free, NEW a \in Addr, Begins(t, f, a),
         ~Active(t), t = "child" => fork \in {"E_OK", "E_NOMEM"},
         pt_walk(DstOf(t), a) = 0
  PROVE  FramesInv' /\ SameNodes
<1>. USE DEF Active
<1>0. PagingTypeOK /\ Owned(HeldBy, Used) /\ CallOK /\ Unmapped
  BY DEF FramesInv
<1>1. DstOf(t) \in Task /\ call[t] = Idle /\ a \in Nat
  BY <1>0, VmaAssumption DEF DstOf, Task, CallOK, Addr
<1>. DEFINE c == Begun(DstOf(t), a, f)
<1>a. Take(f) /\ UNCHANGED <<pgd, kernel_pages, fork>> /\ todo' \subseteq todo
  BY DEF Begins
<1>b. call' = [call EXCEPT ![t] = c]
  BY DEF Begins
<1>c. call'[t] = c /\ \A u \in Task : u # t => call'[u] = call[u]
  BY <1>0, <1>b DEF PagingTypeOK
<1>d. /\ c.at = "user" /\ c.dst = DstOf(t) /\ c.va = a /\ c.page = f /\ c.new = 0
      /\ c \in CallType
      /\ call[t].at = "idle" /\ call[t].page = 0 /\ call[t].new = 0
  <2>1. f \in Word /\ 0 \in Word
    BY PagingAssumption DEF Free, Frame, Word
  <2>. QED  BY <1>1, <2>1 DEF Begun, Idle, CallType
<1>. HIDE DEF c
<1>2. /\ Take(f) /\ UNCHANGED <<pgd, kernel_pages, fork>> /\ todo' \subseteq todo
      /\ /\ call'[t].at = "user" /\ call'[t].dst = DstOf(t) /\ call'[t].va = a
         /\ call'[t].page = f /\ call'[t].new = 0
      /\ \A u \in Task : u # t => call'[u] = call[u]
  BY <1>a, <1>c, <1>d
<1>3. PagingTypeOK'
  <2>1. call' \in [Task -> CallType]
    BY <1>0, <1>b, <1>d DEF PagingTypeOK
  <2>2. mem_map' \in [Frame -> Flag] /\ memory' \in Words
    BY <1>0, <1>2, TakenIs
  <2>. QED  BY <1>0, <1>2, <2>1, <2>2 DEF PagingTypeOK
<1>4. SameNodes
  BY <1>0, <1>2, TakeSameNodes
<1>5. Owned(HeldBy', Used')
  <2>. DEFINE p == <<"page", t, 0>>
  <2>1. p \in Plain /\ Held(p) = 0
    BY <1>d, PlacesAre, HeldIs
  <2>2. \A u \in Task :
          /\ pgd'[u] = IF p = <<"pgd", u, 0>> THEN f ELSE pgd[u]
          /\ call'[u].page = IF p = <<"page", u, 0>> THEN f ELSE call[u].page
          /\ call'[u].new = IF p = <<"new", u, 0>> THEN f ELSE call[u].new
    BY <1>2, <1>d
  <2>. HIDE DEF p
  <2>3. \A q \in Plain : Held(q)' = IF q = p THEN f ELSE Held(q)
    BY <2>1, <2>2, PlainHeld
  <2>. QED  BY <1>0, <1>2, <2>1, <2>3, TakeOwned
<1>6. CallOK'
  <2>1. \A u \in Task : DstOf(u)' = DstOf(u)
    BY <1>2 DEF DstOf
  <2>2. f # 0
    BY <1>0, <1>2, TakenIs
  <2>. SUFFICES ASSUME NEW u \in Task
                PROVE  /\ ~Active(u)' => call'[u] = Idle
                       /\ Active(u)' => /\ call'[u].dst = DstOf(u)
                                        /\ call'[u].va \in Addr
                                        /\ call'[u].page # 0
                                        /\ u = "child" => fork' \in {"E_OK", "E_NOMEM"}
                       /\ call'[u].new # 0 <=> call'[u].at = "link"
    BY <2>1 DEF CallOK
  <2>3. CASE u = t
    BY <1>2, <2>2, <2>3
  <2>4. CASE u # t
    BY <1>0, <1>2, <2>4 DEF CallOK
  <2>. QED  BY <2>3, <2>4
<1>7. Unmapped'
  <2>. SUFFICES ASSUME NEW u \in Task, NEW d \in Task, NEW va \in Addr, CallFor(u, d, va)'
                PROVE  /\ pt_walk(d, va)' = 0
                       /\ call'[u].at = "link" =>
                            /\ pgd'[d] # 0
                            /\ Nodes(d, va)'[0] = 0
                            /\ \A i \in Slot : memory'[call'[u].new][i] = 0
    BY DEF Unmapped
  <2>1. Nodes(d, va)' = Nodes(d, va) /\ pt_walk(d, va)' = pt_walk(d, va)
    BY <1>0, <1>4, NodesAre, NodesNext DEF SameNodes
  <2>2. CASE u = t
    BY <1>2, <2>1, <2>2 DEF CallFor
  <2>3. CASE u # t
    <3>1. CallFor(u, d, va) /\ call'[u] = call[u]
      BY <1>2, <2>3 DEF CallFor
    <3>2. call[u].new # 0 => memory'[call[u].new] = memory[call[u].new]
      BY <1>0, <1>2, TakenIs
    <3>. QED  BY <1>0, <1>2, <2>1, <3>1, <3>2 DEF Unmapped, CallOK
  <2>. QED  BY <2>2, <2>3
<1>. QED  BY <1>3, <1>4, <1>5, <1>6, <1>7 DEF FramesInv

\* A step that changes neither frames nor calls; the parent forks, or its fork
\* ends, between two of its calls.
LEMMA RestKeeps ==
  ASSUME FramesInv, UNCHANGED <<mem_map, memory, pgd, kernel_pages, call>>,
         fork' \in {"unborn", "copying", "E_OK", "E_NOMEM"}, todo' \subseteq Addr,
         fork' = fork \/ (~Active("parent") /\ fork \in {"unborn", "copying"})
  PROVE  FramesInv' /\ SameNodes
<1>. USE DEF Active
<1>0. PagingTypeOK /\ Owned(HeldBy, Used) /\ CallOK /\ Unmapped
  BY DEF FramesInv
<1>1. mem_map' = mem_map /\ memory' = memory /\ pgd' = pgd /\ call' = call
  OBVIOUS
<1>2. PagingTypeOK'
  BY <1>0 DEF PagingTypeOK
<1>3. SameNodes
  BY <1>0, UntouchedNodes
<1>4. Owned(HeldBy', Used')
  <2>1. Used' = Used
    BY <1>1 DEF Used, Free
  <2>2. \A q \in Plain : Held(q)' = Held(q)
    BY <1>1, PlainSame
  <2>. QED  BY <1>0, <1>1, <2>1, <2>2, SameOwned
<1>5. CallOK'
  <2>1. CASE fork' = fork
    BY <1>0, <1>1, <2>1 DEF CallOK, DstOf
  <2>2. CASE ~Active("parent") /\ fork \in {"unborn", "copying"}
    <3>1. \A t \in Task : ~Active(t)
      BY <1>0, <2>2 DEF CallOK, Task
    <3>. QED  BY <1>0, <1>1, <3>1 DEF CallOK
  <2>. QED  BY <2>1, <2>2
<1>6. Unmapped'
  <2>. SUFFICES ASSUME NEW u \in Task, NEW d \in Task, NEW va \in Addr, CallFor(u, d, va)'
                PROVE  /\ pt_walk(d, va)' = 0
                       /\ call'[u].at = "link" =>
                            /\ pgd'[d] # 0
                            /\ Nodes(d, va)'[0] = 0
                            /\ \A i \in Slot : memory'[call'[u].new][i] = 0
    BY DEF Unmapped
  <2>1. Nodes(d, va)' = Nodes(d, va) /\ pt_walk(d, va)' = pt_walk(d, va)
    BY <1>0, <1>3, NodesAre, NodesNext DEF SameNodes
  <2>2. CallFor(u, d, va)
    BY <1>1 DEF CallFor
  <2>. QED  BY <1>0, <1>1, <2>1, <2>2 DEF Unmapped
<1>. QED  BY <1>2, <1>3, <1>4, <1>5, <1>6 DEF FramesInv

\* and so does the mark.
LEMMA MarkKeeps ==
  ASSUME FramesInv, NEW t \in Task, mark_user(t)
  PROVE  /\ FramesInv' /\ SameNodes
         /\ call[t].page \in Used
         /\ mem_map' = [mem_map EXCEPT ![call[t].page] = "USER"]
<1>. USE DEF Active
<1>0. PagingTypeOK /\ Owned(HeldBy, Used) /\ CallOK /\ Unmapped
  BY DEF FramesInv
<1>1. /\ call[t].at = "user"
      /\ mem_map' = [mem_map EXCEPT ![call[t].page] = "USER"]
      /\ call' = [call EXCEPT ![t].at = "map"]
      /\ UNCHANGED <<memory, pgd, kernel_pages, fork, todo>>
  BY DEF mark_user, Marked
<1>2. /\ call'[t] = [call[t] EXCEPT !.at = "map"]
      /\ \A u \in Task : u # t => call'[u] = call[u]
  BY <1>0, <1>1 DEF PagingTypeOK
<1>3. /\ call'[t].at = "map" /\ call'[t].dst = call[t].dst /\ call'[t].va = call[t].va
      /\ call'[t].page = call[t].page /\ call'[t].new = call[t].new
  BY <1>0, <1>2 DEF PagingTypeOK, CallType
<1>4. call[t].page \in Used
  <2>1. /\ <<"page", t, 0>> \in Place /\ HeldBy[<<"page", t, 0>>] = call[t].page
    BY PlacesAre, HeldIs, HeldByIs
  <2>2. call[t].page # 0
    BY <1>0, <1>1 DEF CallOK
  <2>. QED  BY <1>0, <2>1, <2>2 DEF Owned
<1>5. PagingTypeOK'
  <2>1. mem_map' \in [Frame -> Flag]
    BY <1>0, <1>1 DEF PagingTypeOK, Flag
  <2>2. call' \in [Task -> CallType]
    <3>1. call[t] \in CallType
      BY <1>0 DEF PagingTypeOK
    <3>2. [call[t] EXCEPT !.at = "map"] \in CallType
      BY <3>1 DEF CallType
    <3>. QED  BY <1>0, <1>1, <3>2 DEF PagingTypeOK
  <2>. QED  BY <1>0, <1>1, <2>1, <2>2 DEF PagingTypeOK
<1>6. SameNodes
  BY <1>0, <1>1, UntouchedNodes
<1>7. Owned(HeldBy', Used')
  <2>1. Used' = Used
    <3>1. call[t].page \in Frame /\ mem_map[call[t].page] # "FREE"
      BY <1>4, FreeIs
    <3>2. \A f \in Frame : mem_map'[f] = "FREE" <=> mem_map[f] = "FREE"
      BY <1>0, <1>1, <3>1 DEF PagingTypeOK
    <3>. QED  BY <3>2 DEF Used, Free
  <2>2. \A u \in Task : /\ pgd'[u] = pgd[u]
                        /\ call'[u].page = call[u].page
                        /\ call'[u].new = call[u].new
    BY <1>1, <1>2, <1>3
  <2>3. \A q \in Plain : Held(q)' = Held(q)
    BY <2>2, PlainSame
  <2>. QED  BY <1>0, <1>1, <2>1, <2>3, SameOwned
<1>8. CallOK'
  <2>1. \A u \in Task : DstOf(u)' = DstOf(u)
    BY <1>1 DEF DstOf
  <2>. SUFFICES ASSUME NEW u \in Task
                PROVE  /\ ~Active(u)' => call'[u] = Idle
                       /\ Active(u)' => /\ call'[u].dst = DstOf(u)
                                        /\ call'[u].va \in Addr
                                        /\ call'[u].page # 0
                                        /\ u = "child" => fork' \in {"E_OK", "E_NOMEM"}
                       /\ call'[u].new # 0 <=> call'[u].at = "link"
    BY <2>1 DEF CallOK
  <2>2. CASE u = t
    BY <1>0, <1>1, <1>3, <2>2 DEF CallOK
  <2>3. CASE u # t
    BY <1>0, <1>1, <1>2, <2>3 DEF CallOK
  <2>. QED  BY <2>2, <2>3
<1>9. Unmapped'
  <2>. SUFFICES ASSUME NEW u \in Task, NEW d \in Task, NEW va \in Addr, CallFor(u, d, va)'
                PROVE  /\ pt_walk(d, va)' = 0
                       /\ call'[u].at = "link" =>
                            /\ pgd'[d] # 0
                            /\ Nodes(d, va)'[0] = 0
                            /\ \A i \in Slot : memory'[call'[u].new][i] = 0
    BY DEF Unmapped
  <2>1. Nodes(d, va)' = Nodes(d, va) /\ pt_walk(d, va)' = pt_walk(d, va)
    BY <1>0, <1>6, NodesAre, NodesNext DEF SameNodes
  <2>2. CallFor(u, d, va)
    BY <1>1, <1>2, <1>3 DEF CallFor
  <2>3. call'[u].at = "link" => call'[u] = call[u]
    BY <1>2, <1>3
  <2>. QED  BY <1>0, <1>1, <2>1, <2>2, <2>3 DEF Unmapped
<1>. QED  BY <1>1, <1>4, <1>5, <1>6, <1>7, <1>8, <1>9 DEF FramesInv

\* The lowest table that is there for the page of a call; the entry in it that
\* leads to the page is missing.
LEMMA ReachedIs ==
  ASSUME FramesInv, NEW t \in Task, Active(t), pgd[call[t].dst] # 0
  PROVE  /\ call[t].dst \in Task /\ call[t].va \in Addr
         /\ Reached(t) \in 0..Top
         /\ Nodes(call[t].dst, call[t].va)[Reached(t)] # 0
         /\ Nodes(call[t].dst, call[t].va)[Reached(t)-1] = 0
         /\ Reached(t) > 0 => Nodes(call[t].dst, call[t].va)[0] = 0
         /\ pt_walk(call[t].dst, call[t].va) = 0
<1>. DEFINE d == call[t].dst
            a == call[t].va
            S == {l \in 0..Top : Nodes(d, a)[l] # 0}
<1>0. PagingTypeOK /\ CallOK /\ Unmapped
  BY DEF FramesInv
<1>1. d \in Task /\ a \in Addr
  BY <1>0 DEF PagingTypeOK, CallType, CallOK
<1>2. Nodes(d, a)[-1] = 0 /\ pt_walk(d, a) = 0 /\ Nodes(d, a)[Top] # 0
  BY <1>0, <1>1, NodesAre DEF Unmapped, CallFor
<1>3. Top \in S /\ S \subseteq Nat
  BY <1>2, Levels DEF LevelsAre
<1>4. Reached(t) = Min(S)
  BY DEF Reached
<1>. HIDE DEF S
<1>5. \E k \in S : \A l \in S : k <= l
  BY <1>3, LeastNumber
<1>6. Min(S) \in S /\ \A l \in S : Min(S) <= l
  BY ONLY <1>5, Zenon DEF Min
<1>7. PICK k \in S : k = Reached(t) /\ \A l \in S : k <= l
  BY <1>4, <1>6
<1>. USE DEF S
<1>8. k \in 0..Top /\ Nodes(d, a)[k] # 0
  BY <1>7
<1>9. Nodes(d, a)[k-1] = 0
  <2>1. CASE k = 0
    BY <1>2, <2>1
  <2>2. CASE k # 0
    <3>1. k-1 \in 0..Top /\ ~(k <= k-1)
      BY <1>8, <2>2, PagingAssumption
    <3>2. k-1 \notin S
      BY <1>7, <3>1
    <3>. QED  BY <3>1, <3>2
  <2>. QED  BY <2>1, <2>2
<1>10. k > 0 => Nodes(d, a)[0] = 0
  <2>. SUFFICES ASSUME k > 0, 0 \in S
                PROVE  FALSE
    BY Levels, PagingAssumption
  <2>. QED  BY <1>7
<1>. QED  BY <1>1, <1>2, <1>7, <1>8, <1>9, <1>10

\* The calls after a step of map_page() by t for address a of task d.
LEMMA MapCallOK ==
  ASSUME FramesInv, NEW t \in Task, Active(t), fork' = fork,
         \A u \in Task : u # t => call'[u] = call[u],
         \/ call'[t] = Idle
         \/ /\ call'[t].at # "idle" /\ call'[t].dst = call[t].dst
            /\ call'[t].va = call[t].va /\ call'[t].page = call[t].page
            /\ call'[t].new # 0 <=> call'[t].at = "link"
  PROVE  CallOK'
<1>. USE DEF Active
<1>0. CallOK
  BY DEF FramesInv
<1>1. \A u \in Task : DstOf(u)' = DstOf(u)
  BY DEF DstOf
<1>. SUFFICES ASSUME NEW u \in Task
              PROVE  /\ ~Active(u)' => call'[u] = Idle
                     /\ Active(u)' => /\ call'[u].dst = DstOf(u)
                                      /\ call'[u].va \in Addr
                                      /\ call'[u].page # 0
                                      /\ u = "child" => fork' \in {"E_OK", "E_NOMEM"}
                     /\ call'[u].new # 0 <=> call'[u].at = "link"
  BY <1>1 DEF CallOK
<1>2. CASE u # t
  BY <1>0, <1>2 DEF CallOK
<1>3. CASE u = t /\ call'[t] = Idle
  <2>1. call'[t].at = "idle" /\ call'[t].new = 0
    BY <1>3 DEF Idle
  <2>. QED  BY <1>3, <2>1
<1>4. CASE u = t /\ call'[t] # Idle
  BY <1>0, <1>4 DEF CallOK
<1>. QED  BY <1>2, <1>3, <1>4

\* map_page() hangs a table, or the page, on the way of its address.
LEMMA HangKeeps ==
  ASSUME FramesInv, NEW t \in Task, Active(t),
         NEW k \in 0..Top+1, NEW f, Hung(call[t].dst, call[t].va, k, f),
         PagingTypeOK', Owned(HeldBy', Used'), fork' = fork,
         \A u \in Task : u # t => call'[u] = call[u],
         \A d \in Task : d # call[t].dst => pgd'[d] = pgd[d],
         IF k = 0 THEN call'[t] = Idle
         ELSE /\ call'[t].at = "map" /\ call'[t].dst = call[t].dst
              /\ call'[t].va = call[t].va /\ call'[t].page = call[t].page
              /\ call'[t].new = 0,
         \A u \in Task : u # t /\ call[u].new # 0 =>
           memory'[call[u].new] = memory[call[u].new]
  PROVE  FramesInv'
<1>. USE DEF Active
<1>0. PagingTypeOK /\ Owned(HeldBy, Used) /\ CallOK /\ Unmapped
  BY DEF FramesInv
<1>1. CallOK'
  BY MapCallOK
<1>2. Unmapped'
  <2>. SUFFICES ASSUME NEW u \in Task, NEW d \in Task, NEW va \in Addr, CallFor(u, d, va)'
                PROVE  /\ pt_walk(d, va)' = 0
                       /\ call'[u].at = "link" =>
                            /\ pgd'[d] # 0
                            /\ Nodes(d, va)'[0] = 0
                            /\ \A i \in Slot : memory'[call'[u].new][i] = 0
    BY DEF Unmapped
  <2>1. pt_walk(d, va) = Nodes(d, va)[-1] /\ pt_walk(d, va)' = Nodes(d, va)'[-1]
    BY <1>0, NodesAre, NodesNext
  <2>2. CASE u # t
    <3>1. CallFor(u, d, va) /\ call'[u] = call[u]
      BY <2>2 DEF CallFor
    <3>2. d # call[t].dst
      BY <1>0, <2>2, <3>1, CallsApart DEF CallFor
    <3>3. Nodes(d, va)' = Nodes(d, va) /\ pgd'[d] = pgd[d]
      BY <3>2 DEF Hung
    <3>4. call[u].new # 0 => memory'[call[u].new] = memory[call[u].new]
      BY <2>2
    <3>. QED  BY <1>0, <2>1, <3>1, <3>3, <3>4 DEF Unmapped, CallOK
  <2>3. CASE u = t
    <3>1. k # 0
      BY <2>3 DEF CallFor, Idle
    <3>2. d = call[t].dst /\ va = call[t].va /\ call'[u].at = "map"
      BY <2>3, <3>1 DEF CallFor
    <3>3. pt_walk(d, va) = 0
      BY <1>0, <3>2 DEF Unmapped, CallFor
    <3>4. Nodes(d, va)' = [Nodes(d, va) EXCEPT ![k-1] = f]
      BY <3>2 DEF Hung
    <3>5. Nodes(d, va) \in [Level -> Word] /\ -1 \in Level /\ k-1 # -1
      BY <1>0, <3>1, NodesAre, Levels, PagingAssumption DEF LevelsAre
    <3>6. Nodes(d, va)'[-1] = Nodes(d, va)[-1]
      BY <3>4, <3>5
    <3>. QED  BY <2>1, <3>2, <3>3, <3>6
  <2>. QED  BY <2>2, <2>3
<1>. QED  BY <1>1, <1>2 DEF FramesInv

\* A step that leaves the arrays changes nothing else.
Stops == wild' /\ UNCHANGED <<mem_map, memory, pgd, kernel_pages, call, fork, todo>>

\* Where nothing changes, nothing is lost.
LEMMA StopKeeps ==
  ASSUME FramesInv, UNCHANGED <<mem_map, memory, pgd, kernel_pages, call, fork, todo>>
  PROVE  FramesInv' /\ SameNodes
BY RestKeeps DEF FramesInv, PagingTypeOK

\* map_table() before it links the table.
LEMMA TableKeeps ==
  ASSUME FramesInv, NEW t \in Task, map_table(t), ~Stops
  PROVE  /\ FramesInv' /\ SameNodes
         /\ FirstFree \in Free /\ Take(FirstFree)
         /\ call[t].at = "map"
         /\ call'[t].at = "link" /\ call'[t].page = call[t].page
         /\ call'[t].dst = call[t].dst /\ call'[t].va = call[t].va
         /\ \A u \in Task : u # t => call'[u] = call[u]
         /\ UNCHANGED <<pgd, kernel_pages, fork, todo>>
<1>. USE DEF Active
<1>. DEFINE d == call[t].dst
            a == call[t].va
            f == FirstFree
<1>0. PagingTypeOK /\ Owned(HeldBy, Used) /\ CallOK /\ Unmapped
  BY DEF FramesInv
<1>1. /\ call[t].at = "map" /\ pgd[d] # 0 /\ Reached(t) > 0
      /\ f # 0 /\ Take(f)
      /\ call' = [call EXCEPT ![t].at = "link", ![t].new = f]
      /\ UNCHANGED <<pgd, kernel_pages, fork, todo>>
  BY DEF map_table, Stops, GoWild
<1>2. f \in Free
  BY <1>1, FirstFreeIs
<1>3. /\ f \in Word /\ f # 0
      /\ mem_map' \in [Frame -> Flag] /\ memory' \in Words
      /\ \A i \in Slot : memory'[f][i] = 0
      /\ \A u \in Task : call[u].new # 0 => memory'[call[u].new] = memory[call[u].new]
  BY <1>0, <1>1, <1>2, TakenIs
<1>4. /\ call'[t] = [call[t] EXCEPT !.at = "link", !.new = f]
      /\ \A u \in Task : u # t => call'[u] = call[u]
  BY <1>0, <1>1 DEF PagingTypeOK
<1>5. /\ call'[t].at = "link" /\ call'[t].dst = d /\ call'[t].va = a
      /\ call'[t].page = call[t].page /\ call'[t].new = f
  BY <1>0, <1>4 DEF PagingTypeOK, CallType
<1>6. PagingTypeOK'
  <2>1. call[t] \in CallType
    BY <1>0 DEF PagingTypeOK
  <2>2. [call[t] EXCEPT !.at = "link", !.new = f] \in CallType
    BY <1>3, <2>1 DEF CallType
  <2>3. call' \in [Task -> CallType]
    BY <1>0, <1>1, <1>4, <2>2 DEF PagingTypeOK
  <2>. QED  BY <1>0, <1>1, <1>3, <2>3 DEF PagingTypeOK
<1>7. SameNodes
  BY <1>0, <1>1, <1>2, TakeSameNodes
<1>8. Owned(HeldBy', Used')
  <2>. DEFINE p == <<"new", t, 0>>
  <2>1. p \in Plain /\ Held(p) = 0
    BY <1>0, <1>1, PlacesAre, HeldIs DEF CallOK
  <2>2. \A u \in Task :
          /\ pgd'[u] = IF p = <<"pgd", u, 0>> THEN f ELSE pgd[u]
          /\ call'[u].page = IF p = <<"page", u, 0>> THEN f ELSE call[u].page
          /\ call'[u].new = IF p = <<"new", u, 0>> THEN f ELSE call[u].new
    <3>. SUFFICES ASSUME NEW u \in Task
                  PROVE  /\ pgd'[u] = IF p = <<"pgd", u, 0>> THEN f ELSE pgd[u]
                         /\ call'[u].page = IF p = <<"page", u, 0>> THEN f
                                            ELSE call[u].page
                         /\ call'[u].new = IF p = <<"new", u, 0>> THEN f
                                           ELSE call[u].new
      OBVIOUS
    <3>1. pgd' = pgd
      BY <1>1
    <3>2. u # t => call'[u] = call[u]
      BY <1>4
    <3>. HIDE DEF f, d, a
    <3>3. CASE u = t
      BY <1>5, <3>1, <3>3
    <3>4. CASE u # t
      BY <3>1, <3>2, <3>4
    <3>. QED  BY <3>3, <3>4
  <2>. HIDE DEF p
  <2>3. \A q \in Plain : Held(q)' = IF q = p THEN f ELSE Held(q)
    BY <2>1, <2>2, PlainHeld
  <2>. QED  BY <1>0, <1>1, <1>2, <2>1, <2>3, TakeOwned
<1>9. CallOK'
  BY <1>1, <1>3, <1>4, <1>5, MapCallOK
<1>10. Unmapped'
  <2>. SUFFICES ASSUME NEW u \in Task, NEW e \in Task, NEW va \in Addr, CallFor(u, e, va)'
                PROVE  /\ pt_walk(e, va)' = 0
                       /\ call'[u].at = "link" =>
                            /\ pgd'[e] # 0
                            /\ Nodes(e, va)'[0] = 0
                            /\ \A i \in Slot : memory'[call'[u].new][i] = 0
    BY DEF Unmapped
  <2>1. Nodes(e, va)' = Nodes(e, va) /\ pt_walk(e, va)' = pt_walk(e, va)
    BY <1>0, <1>7, NodesAre, NodesNext DEF SameNodes
  <2>2. CASE u = t
    <3>1. e = d /\ va = a
      BY <1>5, <2>2 DEF CallFor
    <3>2. pt_walk(d, a) = 0 /\ Nodes(d, a)[0] = 0
      BY <1>1, ReachedIs
    <3>. QED  BY <1>1, <1>3, <1>5, <2>1, <2>2, <3>1, <3>2
  <2>3. CASE u # t
    <3>1. CallFor(u, e, va) /\ call'[u] = call[u]
      BY <1>4, <2>3 DEF CallFor
    <3>2. call[u].new # 0 => memory'[call[u].new] = memory[call[u].new]
      BY <1>3
    <3>3. pgd' = pgd
      BY <1>1
    <3>4. call[u].at = "link" => call[u].new # 0
      BY <1>0 DEF CallOK
    <3>. QED  BY <1>0, <2>1, <3>1, <3>2, <3>3, <3>4 DEF Unmapped
  <2>. QED  BY <2>2, <2>3
<1>. QED  BY <1>1, <1>2, <1>4, <1>5, <1>6, <1>7, <1>8, <1>9, <1>10 DEF FramesInv


\* map_page() without a PGD.
LEMMA PgdKeeps ==
  ASSUME FramesInv, NEW t \in Task, map_page_pgd(t), ~Stops
  PROVE  /\ FramesInv'
         /\ FirstFree \in Free /\ Take(FirstFree)
         /\ call[t].at = "map" /\ call[t].dst \in Task /\ call[t].va \in Addr
         /\ pgd[call[t].dst] = 0
         /\ Hung(call[t].dst, call[t].va, Top+1, FirstFree)
         /\ kernel_pages' = [kernel_pages EXCEPT ![call[t].dst] = Append(@, FirstFree)]
         /\ UNCHANGED <<call, fork, todo>>
<1>. USE DEF Active
<1>. DEFINE d == call[t].dst
            a == call[t].va
            f == FirstFree
            k == Top+1
<1>0. PagingTypeOK /\ Owned(HeldBy, Used) /\ CallOK /\ Unmapped
  BY DEF FramesInv
<1>1. /\ call[t].at = "map" /\ pgd[d] = 0
      /\ f # 0 /\ Take(f)
      /\ pgd' = [pgd EXCEPT ![d] = f]
      /\ kernel_pages' = [kernel_pages EXCEPT ![d] = Append(@, f)]
      /\ UNCHANGED <<call, fork, todo>>
  BY DEF map_page_pgd, Stops, GoWild, Recorded
<1>2. f \in Free
  BY <1>1, FirstFreeIs
<1>3. /\ f \in Frame /\ f \in Word /\ f # 0
      /\ mem_map' \in [Frame -> Flag] /\ memory' \in Words
      /\ \A u \in Task : call[u].new # 0 => memory'[call[u].new] = memory[call[u].new]
  BY <1>0, <1>1, <1>2, TakenIs
<1>4. d \in Task /\ a \in Addr /\ call[t].new = 0
  BY <1>0, <1>1 DEF PagingTypeOK, CallType, CallOK
<1>5. pgd'[d] = f /\ \A u \in Task : u # d => pgd'[u] = pgd[u]
  BY <1>0, <1>1, <1>4 DEF PagingTypeOK
<1>6. PagingTypeOK'
  BY <1>0, <1>1, <1>3, <1>4 DEF PagingTypeOK
<1>7. Owned(HeldBy', Used')
  <2>. DEFINE p == <<"pgd", d, 0>>
  <2>1. p \in Plain /\ Held(p) = 0
    BY <1>1, <1>4, PlacesAre, HeldIs
  <2>2. \A u \in Task :
          /\ pgd'[u] = IF p = <<"pgd", u, 0>> THEN f ELSE pgd[u]
          /\ call'[u].page = IF p = <<"page", u, 0>> THEN f ELSE call[u].page
          /\ call'[u].new = IF p = <<"new", u, 0>> THEN f ELSE call[u].new
    <3>. HIDE DEF f, d
    <3>. SUFFICES ASSUME NEW u \in Task
                  PROVE  pgd'[u] = IF d = u THEN f ELSE pgd[u]
      BY <1>1
    <3>. QED  BY <1>5
  <2>. HIDE DEF p
  <2>3. \A q \in Plain : Held(q)' = IF q = p THEN f ELSE Held(q)
    BY <2>1, <2>2, PlainHeld
  <2>. QED  BY <1>0, <1>1, <1>2, <2>1, <2>3, TakeOwned
<1>8. Hung(d, a, k, f)
  BY <1>0, <1>1, <1>2, <1>4, PgdNodes
<1>9. k \in 0..Top+1 /\ k # 0
  BY PagingAssumption
<1>10. FramesInv'
  <2>. HIDE DEF k, f
  <2>1. \A u \in Task : u # t => call'[u] = call[u]
    BY <1>1
  <2>2. /\ call'[t].at = "map" /\ call'[t].dst = call[t].dst
        /\ call'[t].va = call[t].va /\ call'[t].page = call[t].page
        /\ call'[t].new = 0
    BY <1>1, <1>4
  <2>. QED  BY <1>1, <1>3, <1>5, <1>6, <1>7, <1>8, <1>9, <2>1, <2>2, HangKeeps
<1>. QED  BY <1>1, <1>2, <1>4, <1>8, <1>10

\* Where map_page() goes on: the entry of the lowest table that is there.
LEMMA NextEntry ==
  ASSUME FramesInv, NEW t \in Task, Active(t), pgd[call[t].dst] # 0,
         NEW k \in 0..Top, k = Reached(t)
  PROVE  /\ Nodes(call[t].dst, call[t].va)[k] \in Used
         /\ Nodes(call[t].dst, call[t].va)[k] \in Frame
         /\ Index(call[t].va, k) \in Slot
         /\ memory[Nodes(call[t].dst, call[t].va)[k]][Index(call[t].va, k)] = 0
         /\ \A u \in Task :
              /\ call[u].page # Nodes(call[t].dst, call[t].va)[k]
              /\ call[u].new # Nodes(call[t].dst, call[t].va)[k]
<1>. DEFINE d == call[t].dst
            a == call[t].va
<1>0. PagingTypeOK /\ Owned(HeldBy, Used)
  BY DEF FramesInv
<1>1. /\ d \in Task /\ a \in Addr
      /\ Nodes(d, a)[k] # 0 /\ Nodes(d, a)[k-1] = 0
  BY ReachedIs
<1>2. k \in Level /\ k-1 \in -1..Top-1 /\ k-1+1 = k
  BY PagingAssumption DEF Level
<1>. HIDE DEF d, a
<1>3. Nodes(d, a)[k] \in Used
  BY <1>0, <1>1, <1>2, NodeHeld
<1>4. memory[Nodes(d, a)[k]][Index(a, k)] = 0
  <2>1. Nodes(d, a)[k-1] = Entry(memory, Nodes(d, a)[k], a, k)
    BY <1>0, <1>1, <1>2, NodesAre
  <2>. QED  BY <1>1, <2>1 DEF Entry
<1>5. Index(a, k) \in Slot
  BY <1>1, IndexIs
<1>6. \A u \in Task : call[u].page # Nodes(d, a)[k] /\ call[u].new # Nodes(d, a)[k]
  BY <1>0, <1>1, <1>2, CallsAreNoNodes
<1>7. Nodes(d, a)[k] \in Frame
  BY <1>3, FreeIs
<1>. QED  BY <1>3, <1>4, <1>5, <1>6, <1>7 DEF d, a


\* map_table() links the table, which nobody else knows.
LEMMA LinkKeeps ==
  ASSUME FramesInv, NEW t \in Task, map_table_link(t), ~Stops
  PROVE  /\ FramesInv'
         /\ call[t].at = "link" /\ call[t].dst \in Task /\ call[t].va \in Addr
         /\ call[t].new \in Used /\ call[t].new \in Frame
         /\ \E k \in 1..Top : /\ Hung(call[t].dst, call[t].va, k, call[t].new)
                              /\ Nodes(call[t].dst, call[t].va)[k-1] = 0
         /\ mem_map' = [mem_map EXCEPT ![call[t].new] = "PAGETABLE"]
         /\ kernel_pages' = [kernel_pages EXCEPT ![call[t].dst] = Append(@, call[t].new)]
         /\ call'[t].at = "map" /\ call'[t].page = call[t].page
         /\ call'[t].dst = call[t].dst /\ call'[t].va = call[t].va
         /\ \A u \in Task : u # t => call'[u] = call[u]
         /\ UNCHANGED <<pgd, fork, todo>>
<1>. USE DEF Active
<1>. DEFINE d == call[t].dst
            a == call[t].va
            f == call[t].new
            n == Nodes(d, a)[Reached(t)]
            i == Index(a, Reached(t))
<1>0. PagingTypeOK /\ Owned(HeldBy, Used) /\ CallOK /\ Unmapped
  BY DEF FramesInv
<1>1. /\ call[t].at = "link"
      /\ mem_map' = [mem_map EXCEPT ![f] = "PAGETABLE"]
      /\ memory' = [memory EXCEPT ![n][i] = f]
      /\ kernel_pages' = [kernel_pages EXCEPT ![d] = Append(@, f)]
      /\ call' = [call EXCEPT ![t].at = "map", ![t].new = 0]
      /\ UNCHANGED <<pgd, fork, todo>>
  BY DEF map_table_link, Stops, GoWild, Recorded
<1>2. d \in Task /\ a \in Addr /\ pgd[d] # 0 /\ f \in Word /\ f # 0 /\ f \in Used
  <2>1. d \in Task /\ a \in Addr /\ pgd[d] # 0 /\ f \in Word /\ f # 0
    BY <1>0, <1>1 DEF PagingTypeOK, CallType, CallOK, Unmapped, CallFor
  <2>2. <<"new", t, 0>> \in Place /\ HeldBy[<<"new", t, 0>>] = f
    BY PlacesAre, HeldIs, HeldByIs
  <2>. QED  BY <1>0, <2>1, <2>2 DEF Owned
<1>3. PICK k \in 1..Top : k = Reached(t)
  <2>1. Reached(t) \in 0..Top /\ Nodes(d, a)[Reached(t)] # 0
    BY <1>1, <1>2, ReachedIs
  <2>2. Nodes(d, a)[0] = 0
    BY <1>0, <1>1, <1>2 DEF Unmapped, CallFor
  <2>. QED  BY <2>1, <2>2, PagingAssumption
<1>4. /\ k \in 0..Top /\ k \in 0..Top+1 /\ k # 0
      /\ Nodes(d, a)[k] # 0 /\ Nodes(d, a)[k-1] = 0
      /\ n = Nodes(d, a)[k] /\ i = Index(a, k)
      /\ n \in Used /\ n \in Frame /\ i \in Slot /\ memory[n][i] = 0
      /\ \A u \in Task : call[u].new # n
  BY <1>1, <1>2, <1>3, ReachedIs, NextEntry, PagingAssumption
<1>5. f \in Frame
  BY <1>2, FreeIs
<1>. HIDE DEF n, i
<1>6. /\ call'[t] = [call[t] EXCEPT !.at = "map", !.new = 0]
      /\ \A u \in Task : u # t => call'[u] = call[u]
  BY <1>0, <1>1 DEF PagingTypeOK
<1>7. /\ call'[t].at = "map" /\ call'[t].dst = d /\ call'[t].va = a
      /\ call'[t].page = call[t].page /\ call'[t].new = 0
  BY <1>0, <1>6 DEF PagingTypeOK, CallType
<1>8. PagingTypeOK'
  <2>1. call[t] \in CallType /\ 0 \in Word
    BY <1>0, PagingAssumption DEF PagingTypeOK, Word
  <2>2. [call[t] EXCEPT !.at = "map", !.new = 0] \in CallType
    BY <2>1 DEF CallType
  <2>3. call' \in [Task -> CallType]
    BY <1>0, <1>1, <2>2 DEF PagingTypeOK
  <2>4. memory' \in Words
    BY <1>0, <1>1, <1>2, <1>4 DEF PagingTypeOK, Words
  <2>5. mem_map' \in [Frame -> Flag]
    BY <1>0, <1>1 DEF PagingTypeOK, Flag
  <2>6. kernel_pages' \in [Task -> Seq(Frame)]
    BY <1>0, <1>1, <1>2, <1>5 DEF PagingTypeOK
  <2>. QED  BY <1>0, <1>1, <2>3, <2>4, <2>5, <2>6 DEF PagingTypeOK
<1>9. Owned(HeldBy', Used')
  <2>. DEFINE p == <<"new", t, 0>>
  <2>1. p \in Plain /\ Held(p) = f
    BY PlacesAre, HeldIs
  <2>2. \A u \in Task :
          /\ pgd'[u] = IF p = <<"pgd", u, 0>> THEN 0 ELSE pgd[u]
          /\ call'[u].page = IF p = <<"page", u, 0>> THEN 0 ELSE call[u].page
          /\ call'[u].new = IF p = <<"new", u, 0>> THEN 0 ELSE call[u].new
    <3>. SUFFICES ASSUME NEW u \in Task
                  PROVE  /\ pgd'[u] = IF p = <<"pgd", u, 0>> THEN 0 ELSE pgd[u]
                         /\ call'[u].page = IF p = <<"page", u, 0>> THEN 0
                                            ELSE call[u].page
                         /\ call'[u].new = IF p = <<"new", u, 0>> THEN 0
                                           ELSE call[u].new
      OBVIOUS
    <3>1. pgd' = pgd
      BY <1>1
    <3>2. u # t => call'[u] = call[u]
      BY <1>6
    <3>. HIDE DEF f, d, a
    <3>3. CASE u = t
      BY <1>7, <3>1, <3>3
    <3>4. CASE u # t
      BY <3>1, <3>2, <3>4
    <3>. QED  BY <3>3, <3>4
  <2>. HIDE DEF p
  <2>3. \A q \in Plain : Held(q)' = IF q = p THEN 0 ELSE Held(q)
    BY <2>1, <2>2, PlainHeld
  <2>4. Used' = Used
    <3>1. mem_map[f] # "FREE"
      BY <1>2, <1>5, FreeIs
    <3>2. \A g \in Frame : mem_map'[g] = "FREE" <=> mem_map[g] = "FREE"
      BY <1>0, <1>1, <1>5, <3>1 DEF PagingTypeOK
    <3>. QED  BY <3>2 DEF Used, Free
  <2>5. memory' = [memory EXCEPT ![n][i] = Held(p)] /\ Held(p) # 0
    BY <1>1, <1>2, <2>1
  <2>. QED  BY <1>0, <1>4, <2>1, <2>3, <2>4, <2>5, MoveOwned
<1>10. Hung(d, a, k, f)
  <2>1. k # 0 => \A j \in Slot : memory[f][j] = 0
    BY <1>0, <1>1, <1>2 DEF Unmapped, CallFor
  <2>2. f # Nodes(d, a)[k] /\ UNCHANGED pgd
        /\ memory' = [memory EXCEPT ![Nodes(d, a)[k]][Index(a, k)] = f]
    BY <1>1, <1>4
  <2>. QED  BY <1>0, <1>2, <1>4, <2>1, <2>2, EntryNodes
<1>11. FramesInv'
  <2>1. \A u \in Task : u # t /\ call[u].new # 0 => memory'[call[u].new] = memory[call[u].new]
    <3>. SUFFICES ASSUME NEW u \in Task, call[u].new # 0
                  PROVE  memory'[call[u].new] = memory[call[u].new]
      OBVIOUS
    <3>1. call[u].new \in Word /\ call[u].new # n
      BY <1>0, <1>4 DEF PagingTypeOK, CallType
    <3>2. call[u].new \in Frame
      BY <3>1, PagingAssumption DEF Word, Frame
    <3>. QED  BY <1>0, <1>1, <3>1, <3>2 DEF PagingTypeOK, Words
  <2>2. pgd' = pgd /\ fork' = fork
    BY <1>1
  <2>. QED  BY <1>1, <1>4, <1>6, <1>7, <1>8, <1>9, <1>10, <2>1, <2>2, HangKeeps
<1>12. Nodes(d, a)[k-1] = 0
  BY <1>4
<1>. QED  BY <1>1, <1>2, <1>5, <1>6, <1>7, <1>10, <1>11, <1>12

\* map_page() enters the page.
LEMMA PageKeeps ==
  ASSUME FramesInv, NEW t \in Task, map_table_entry(t)
  PROVE  /\ FramesInv'
         /\ call[t].at = "map" /\ call[t].dst \in Task /\ call[t].va \in Addr
         /\ call[t].page \in Used /\ call[t].page \in Frame
         /\ Hung(call[t].dst, call[t].va, 0, call[t].page)
         /\ call'[t] = Idle
         /\ \A u \in Task : u # t => call'[u] = call[u]
         /\ UNCHANGED <<mem_map, pgd, kernel_pages, fork, todo>>
<1>. USE DEF Active
<1>. DEFINE d == call[t].dst
            a == call[t].va
            f == call[t].page
            n == Nodes(d, a)[Reached(t)]
            i == Index(a, Reached(t))
<1>0. PagingTypeOK /\ Owned(HeldBy, Used) /\ CallOK /\ Unmapped
  BY DEF FramesInv
<1>1. /\ call[t].at = "map" /\ pgd[d] # 0 /\ Reached(t) = 0
      /\ memory' = [memory EXCEPT ![n][i] = f]
      /\ call' = [call EXCEPT ![t] = Idle]
      /\ UNCHANGED <<mem_map, pgd, kernel_pages, fork, todo>>
  BY DEF map_table_entry
<1>2. d \in Task /\ a \in Addr /\ f \in Word /\ f # 0 /\ f \in Used
  <2>1. d \in Task /\ a \in Addr /\ f \in Word /\ f # 0
    BY <1>0, <1>1 DEF PagingTypeOK, CallType, CallOK
  <2>2. <<"page", t, 0>> \in Place /\ HeldBy[<<"page", t, 0>>] = f
    BY PlacesAre, HeldIs, HeldByIs
  <2>. QED  BY <1>0, <2>1, <2>2 DEF Owned
<1>3. PICK k \in 0..Top+1 : k = Reached(t) /\ k = 0
  BY <1>1, PagingAssumption
<1>4. /\ k \in 0..Top
      /\ Nodes(d, a)[k] # 0 /\ Nodes(d, a)[k-1] = 0
      /\ n = Nodes(d, a)[k] /\ i = Index(a, k)
      /\ n \in Used /\ n \in Frame /\ i \in Slot /\ memory[n][i] = 0
      /\ \A u \in Task : call[u].new # n /\ call[u].page # n
  BY <1>1, <1>2, <1>3, ReachedIs, NextEntry, PagingAssumption
<1>5. f \in Frame
  BY <1>2, FreeIs
<1>. HIDE DEF n, i
<1>6. call'[t] = Idle /\ \A u \in Task : u # t => call'[u] = call[u]
  BY <1>0, <1>1 DEF PagingTypeOK
<1>7. /\ call'[t].page = 0 /\ call'[t].new = 0 /\ call[t].new = 0
  BY <1>0, <1>1, <1>6 DEF Idle, CallOK
<1>8. PagingTypeOK'
  <2>1. Idle \in CallType
    BY PagingAssumption DEF Idle, CallType, Word, Task
  <2>2. call' \in [Task -> CallType]
    BY <1>0, <1>1, <2>1 DEF PagingTypeOK
  <2>3. memory' \in Words
    BY <1>0, <1>1, <1>2, <1>4 DEF PagingTypeOK, Words
  <2>. QED  BY <1>0, <1>1, <2>2, <2>3 DEF PagingTypeOK
<1>9. Owned(HeldBy', Used')
  <2>. DEFINE p == <<"page", t, 0>>
  <2>1. p \in Plain /\ Held(p) = f
    BY PlacesAre, HeldIs
  <2>2. \A u \in Task :
          /\ pgd'[u] = IF p = <<"pgd", u, 0>> THEN 0 ELSE pgd[u]
          /\ call'[u].page = IF p = <<"page", u, 0>> THEN 0 ELSE call[u].page
          /\ call'[u].new = IF p = <<"new", u, 0>> THEN 0 ELSE call[u].new
    <3>. SUFFICES ASSUME NEW u \in Task
                  PROVE  /\ pgd'[u] = IF p = <<"pgd", u, 0>> THEN 0 ELSE pgd[u]
                         /\ call'[u].page = IF p = <<"page", u, 0>> THEN 0
                                            ELSE call[u].page
                         /\ call'[u].new = IF p = <<"new", u, 0>> THEN 0
                                           ELSE call[u].new
      OBVIOUS
    <3>1. pgd' = pgd
      BY <1>1
    <3>2. u # t => call'[u] = call[u]
      BY <1>6
    <3>. HIDE DEF f, d, a
    <3>3. CASE u = t
      BY <1>7, <3>1, <3>3
    <3>4. CASE u # t
      BY <3>1, <3>2, <3>4
    <3>. QED  BY <3>3, <3>4
  <2>. HIDE DEF p
  <2>3. \A q \in Plain : Held(q)' = IF q = p THEN 0 ELSE Held(q)
    BY <2>1, <2>2, PlainHeld
  <2>4. Used' = Used
    BY <1>1 DEF Used, Free
  <2>5. memory' = [memory EXCEPT ![n][i] = Held(p)] /\ Held(p) # 0
    BY <1>1, <1>2, <2>1
  <2>. QED  BY <1>0, <1>4, <2>1, <2>3, <2>4, <2>5, MoveOwned
<1>10. Hung(d, a, k, f)
  <2>1. k # 0 => \A j \in Slot : memory[f][j] = 0
    BY <1>3
  <2>2. f # Nodes(d, a)[k] /\ UNCHANGED pgd
        /\ memory' = [memory EXCEPT ![Nodes(d, a)[k]][Index(a, k)] = f]
    BY <1>1, <1>4
  <2>. QED  BY <1>0, <1>2, <1>4, <2>1, <2>2, EntryNodes
<1>11. FramesInv'
  <2>1. \A u \in Task : u # t /\ call[u].new # 0 => memory'[call[u].new] = memory[call[u].new]
    <3>. SUFFICES ASSUME NEW u \in Task, call[u].new # 0
                  PROVE  memory'[call[u].new] = memory[call[u].new]
      OBVIOUS
    <3>1. call[u].new \in Word /\ call[u].new # n
      BY <1>0, <1>4 DEF PagingTypeOK, CallType
    <3>2. call[u].new \in Frame
      BY <3>1, PagingAssumption DEF Word, Frame
    <3>. QED  BY <1>0, <1>1, <3>1, <3>2 DEF PagingTypeOK, Words
  <2>2. pgd' = pgd /\ fork' = fork
    BY <1>1
  <2>. QED  BY <1>1, <1>3, <1>6, <1>8, <1>9, <1>10, <2>1, <2>2, HangKeeps
<1>12. Hung(d, a, 0, f)
  BY <1>3, <1>10
<1>. QED  BY <1>1, <1>2, <1>5, <1>6, <1>11, <1>12


-----------------------------------------------------------------------------
(* The flags of the frames and the list of the tables.                     *)

\* No way leads through f.
NoNode(f) == \A t \in Task, va \in Addr, l \in Level : Nodes(t, va)[l] # f

\* A free frame is on no way,
LEMMA FreeIsNoNode ==
  ASSUME FramesInv, NEW f \in Free
  PROVE  NoNode(f)
<1>1. f # 0 /\ f \notin Used
  BY PagingAssumption DEF Free, Frame, Used
<1>. QED  BY <1>1, NodeHeld DEF FramesInv, NoNode

\* nor is one that a call holds.
LEMMA CallIsNoNode ==
  ASSUME FramesInv, NEW u \in Task
  PROVE  /\ call[u].page # 0 => NoNode(call[u].page)
         /\ call[u].new # 0 => NoNode(call[u].new)
BY CallsAreNoNodes DEF FramesInv, NoNode

\* Hung, level by level.
HungEach(d, a, k, f) ==
  \A t \in Task, va \in Addr, l \in Level :
    Nodes(t, va)'[l] = IF t = d /\ Upper[k][va] = Upper[k][a] /\ l = k-1
                       THEN f ELSE Nodes(t, va)[l]

\* From the whole way to its levels.
LEMMA HungNode ==
  ASSUME FramesInv, NEW d, NEW a, NEW k \in 0..Top+1, NEW f, Hung(d, a, k, f)
  PROVE  HungEach(d, a, k, f)
<1>. SUFFICES ASSUME NEW t \in Task, NEW va \in Addr, NEW l \in Level
              PROVE  Nodes(t, va)'[l] =
                       IF t = d /\ Upper[k][va] = Upper[k][a] /\ l = k-1
                       THEN f ELSE Nodes(t, va)[l]
  BY DEF HungEach
<1>1. Nodes(t, va) \in [Level -> Word] /\ k-1 \in Level
  BY NodesAre, Levels DEF FramesInv, LevelsAre
<1>. QED  BY <1>1 DEF Hung

\* The flags of nodes stay true when ways and flags are the same,
LEMMA FlagsSame ==
  ASSUME FramesInv, FlagsTellUse, SameNodes,
         \A t \in Task, va \in Addr, l \in Level : Nodes(t, va)[l] # 0 =>
           mem_map'[Nodes(t, va)[l]] = mem_map[Nodes(t, va)[l]]
  PROVE  FlagsTellUse'
<1>. SUFFICES ASSUME NEW t \in Task, NEW va \in Addr
              PROVE  /\ pt_walk(t, va)' # 0 => mem_map'[pt_walk(t, va)'] = "USER"
                     /\ \A l \in 0..Top-1 : Nodes(t, va)'[l] # 0 =>
                          mem_map'[Nodes(t, va)'[l]] = "PAGETABLE"
  BY DEF FlagsTellUse
<1>1. pt_walk(t, va) = Nodes(t, va)[-1] /\ pt_walk(t, va)' = Nodes(t, va)'[-1]
  BY NodesAre, NodesNext DEF FramesInv
<1>2. Nodes(t, va)' = Nodes(t, va)
  BY DEF SameNodes
<1>3. -1 \in Level /\ \A l \in 0..Top-1 : l \in Level
  BY Levels DEF LevelsAre
<1>. QED  BY <1>1, <1>2, <1>3 DEF FlagsTellUse

\* and when a node with the right flag is hung.
LEMMA FlagsHung ==
  ASSUME FramesInv, FlagsTellUse,
         NEW d, NEW a, NEW k \in 0..Top+1, NEW f, Hung(d, a, k, f),
         \A g \in Used : g # f => mem_map'[g] = mem_map[g], NoNode(f),
         k = 0 => mem_map'[f] = "USER",
         k \in 1..Top => mem_map'[f] = "PAGETABLE"
  PROVE  FlagsTellUse'
<1>. SUFFICES ASSUME NEW t \in Task, NEW va \in Addr
              PROVE  /\ pt_walk(t, va)' # 0 => mem_map'[pt_walk(t, va)'] = "USER"
                     /\ \A l \in 0..Top-1 : Nodes(t, va)'[l] # 0 =>
                          mem_map'[Nodes(t, va)'[l]] = "PAGETABLE"
  BY DEF FlagsTellUse
<1>1. pt_walk(t, va) = Nodes(t, va)[-1] /\ pt_walk(t, va)' = Nodes(t, va)'[-1]
  BY NodesAre, NodesNext DEF FramesInv
<1>2. -1 \in Level /\ \A l \in 0..Top-1 : l \in Level
  BY Levels DEF LevelsAre
<1>3. ASSUME NEW l \in Level, Nodes(t, va)[l] # 0
      PROVE  mem_map'[Nodes(t, va)[l]] = mem_map[Nodes(t, va)[l]]
  <2>1. Nodes(t, va)[l] \in Used
    BY <1>3, NodeHeld DEF FramesInv
  <2>2. Nodes(t, va)[l] # f
    BY DEF NoNode
  <2>. QED  BY <2>1, <2>2
<1>4. ASSUME NEW l \in Level
      PROVE  \/ Nodes(t, va)'[l] = Nodes(t, va)[l]
             \/ Nodes(t, va)'[l] = f /\ l = k-1
  <2>1. HungEach(d, a, k, f)
    BY HungNode
  <2>. QED  BY <2>1 DEF HungEach
<1>5. pt_walk(t, va)' # 0 => mem_map'[pt_walk(t, va)'] = "USER"
  <2>1. -1 = k-1 => k = 0
    OBVIOUS
  <2>. QED  BY <1>1, <1>2, <1>3, <1>4, <2>1 DEF FlagsTellUse
<1>6. ASSUME NEW l \in 0..Top-1, Nodes(t, va)'[l] # 0
      PROVE  mem_map'[Nodes(t, va)'[l]] = "PAGETABLE"
  <2>1. l = k-1 => k \in 1..Top
    BY PagingAssumption
  <2>. QED  BY <1>2, <1>3, <1>4, <1>6, <2>1 DEF FlagsTellUse
<1>. QED  BY <1>5, <1>6

\* The nodes of a task that are tables.
TablesOf(t) == {Nodes(t, va)[l] : va \in Addr, l \in 0..Top} \ {0}

\* What is listed, before a step
LEMMA ListIs ==
  KernelPagesExact <=>
    \A t \in Task : IsInjective(kernel_pages[t]) /\ ToSet(kernel_pages[t]) = TablesOf(t)
BY DEF KernelPagesExact, TablesOf

\* and after it.
LEMMA ListNext ==
  KernelPagesExact' <=>
    \A t \in Task : IsInjective(kernel_pages'[t]) /\ ToSet(kernel_pages'[t]) = TablesOf(t)'
BY DEF KernelPagesExact, TablesOf

\* The list stays exact when neither it nor a way changes,
LEMMA ListSame ==
  ASSUME KernelPagesExact, SameNodes, UNCHANGED kernel_pages
  PROVE  KernelPagesExact'
<1>1. \A t \in Task : TablesOf(t)' = TablesOf(t)
  BY DEF SameNodes, TablesOf
<1>. QED  BY <1>1, ListIs, ListNext

\* One more element at the end of a list without repetitions.
LEMMA OneMore ==
  ASSUME NEW S, NEW s \in Seq(S), NEW f \in S, IsInjective(s), f \notin ToSet(s)
  PROVE  IsInjective(Append(s, f)) /\ ToSet(Append(s, f)) = ToSet(s) \cup {f}
<1>. DEFINE s2 == Append(s, f)
<1>1. /\ Len(s) \in Nat /\ DOMAIN s = 1..Len(s)
      /\ DOMAIN s2 = 1..Len(s)+1
      /\ \A i \in 1..Len(s) : s2[i] = s[i]
      /\ s2[Len(s)+1] = f
  OBVIOUS
<1>. HIDE DEF s2
<1>2. \A i \in 1..Len(s) : s[i] # f
  BY <1>1 DEF ToSet
<1>3. IsInjective(s2)
  <2>. SUFFICES ASSUME NEW i \in 1..Len(s)+1, NEW j \in 1..Len(s)+1, s2[i] = s2[j]
                PROVE  i = j
    BY <1>1 DEF IsInjective
  <2>1. i \in 1..Len(s) \/ i = Len(s)+1
    BY <1>1
  <2>2. j \in 1..Len(s) \/ j = Len(s)+1
    BY <1>1
  <2>. QED  BY <1>1, <1>2, <2>1, <2>2 DEF IsInjective
<1>4. ToSet(s2) = ToSet(s) \cup {f}
  <2>1. \A i \in 1..Len(s) : i \in 1..Len(s)+1
    BY <1>1
  <2>2. Len(s)+1 \in 1..Len(s)+1
    BY <1>1
  <2>3. \A i \in 1..Len(s)+1 : i \in 1..Len(s) \/ i = Len(s)+1
    BY <1>1
  <2>. QED  BY <1>1, <2>1, <2>2, <2>3 DEF ToSet
<1>. QED  BY <1>3, <1>4 DEF s2

\* and when a table is hung and recorded, or a page hung.
LEMMA ListHung ==
  ASSUME FramesInv, KernelPagesExact,
         NEW d \in Task, NEW a \in Addr, NEW k \in 0..Top+1, NEW f \in Frame,
         Hung(d, a, k, f), NoNode(f), Nodes(d, a)[k-1] = 0,
         kernel_pages' = IF k = 0 THEN kernel_pages
                         ELSE [kernel_pages EXCEPT ![d] = Append(@, f)]
  PROVE  KernelPagesExact'
<1>0. f # 0 /\ \A l \in 0..Top : l \in Level
  BY PagingAssumption, Levels DEF Frame, LevelsAre
<1>1. HungEach(d, a, k, f)
  BY HungNode
<1>2. ASSUME NEW t \in Task, t # d \/ k = 0
      PROVE  kernel_pages'[t] = kernel_pages[t] /\ TablesOf(t)' = TablesOf(t)
  <2>1. kernel_pages'[t] = kernel_pages[t]
    BY <1>2 DEF FramesInv, PagingTypeOK
  <2>2. ASSUME NEW va \in Addr, NEW l \in 0..Top
        PROVE  Nodes(t, va)'[l] = Nodes(t, va)[l]
    <3>1. k = 0 => l # k-1
      BY PagingAssumption
    <3>. QED  BY <1>0, <1>2, <1>1, <3>1 DEF HungEach
  <2>3. TablesOf(t)' = TablesOf(t)
    BY <2>2 DEF TablesOf
  <2>. QED  BY <2>1, <2>3
<1>3. ASSUME k # 0
      PROVE  IsInjective(kernel_pages'[d]) /\ ToSet(kernel_pages'[d]) = TablesOf(d)'
  <2>1. kernel_pages[d] \in Seq(Frame) /\ kernel_pages'[d] = Append(kernel_pages[d], f)
    BY <1>3 DEF FramesInv, PagingTypeOK
  <2>2. IsInjective(kernel_pages[d]) /\ ToSet(kernel_pages[d]) = TablesOf(d)
    BY ListIs
  <2>3. f \notin TablesOf(d)
    BY <1>0 DEF NoNode, TablesOf
  <2>4. /\ IsInjective(kernel_pages'[d])
        /\ ToSet(kernel_pages'[d]) = TablesOf(d) \cup {f}
    BY <2>1, <2>2, <2>3, OneMore
  <2>5. k-1 \in 0..Top /\ k-1 \in Level /\ k-1+1 = k
    BY <1>3, Levels DEF LevelsAre
  <2>6. ASSUME NEW va \in Addr, Upper[k][va] = Upper[k][a]
        PROVE  Nodes(d, va)[k-1] = 0
    <3>1. memory \in Words /\ pgd[d] \in Word
      BY DEF FramesInv, PagingTypeOK
    <3>2. TreeNodes(memory, pgd[d], va)[k-1] = TreeNodes(memory, pgd[d], a)[k-1]
      BY <2>5, <2>6, <3>1, SamePath
    <3>. QED  BY <3>2 DEF Nodes
  <2>7. ASSUME NEW va \in Addr, NEW l \in 0..Top
        PROVE  Nodes(d, va)'[l] = IF Upper[k][va] = Upper[k][a] /\ l = k-1
                                  THEN f ELSE Nodes(d, va)[l]
    BY <1>0, <1>1 DEF HungEach
  <2>8. TablesOf(d)' \subseteq TablesOf(d) \cup {f}
    <3>. SUFFICES ASSUME NEW va \in Addr, NEW l \in 0..Top,
                         Nodes(d, va)'[l] # 0, Nodes(d, va)'[l] # f
                  PROVE  Nodes(d, va)'[l] \in TablesOf(d)
      BY DEF TablesOf
    <3>1. Nodes(d, va)'[l] = Nodes(d, va)[l]
      BY <2>7
    <3>. QED  BY <3>1 DEF TablesOf
  <2>9. TablesOf(d) \subseteq TablesOf(d)'
    <3>. SUFFICES ASSUME NEW va \in Addr, NEW l \in 0..Top, Nodes(d, va)[l] # 0
                  PROVE  Nodes(d, va)[l] \in TablesOf(d)'
      BY DEF TablesOf
    <3>1. Nodes(d, va)'[l] = Nodes(d, va)[l]
      BY <2>6, <2>7
    <3>. QED  BY <3>1 DEF TablesOf
  <2>10. f \in TablesOf(d)'
    <3>1. Nodes(d, a)'[k-1] = f
      BY <2>5, <2>7
    <3>. QED  BY <1>0, <2>5, <3>1 DEF TablesOf
  <2>. QED  BY <2>4, <2>8, <2>9, <2>10
<1>4. ASSUME NEW t \in Task
      PROVE  IsInjective(kernel_pages'[t]) /\ ToSet(kernel_pages'[t]) = TablesOf(t)'
  <2>1. CASE t # d \/ k = 0
    BY <1>2, <2>1, ListIs
  <2>2. CASE t = d /\ k # 0
    BY <1>3, <2>2
  <2>. QED  BY <2>1, <2>2
<1>. QED  BY <1>4, ListNext


-----------------------------------------------------------------------------
(* The steps keep the rest of the invariant.                               *)

\* MapsOnlyThatPage, of one step.
OnlyThatPage ==
  \A t \in Task, va \in Addr : pt_walk(t, va)' # pt_walk(t, va) =>
    /\ pt_walk(t, va) = 0
    /\ \E u \in Task : /\ call[u].dst = t /\ call[u].va = va
                       /\ pt_walk(t, va)' = call[u].page

SameWalks == \A t \in Task, va \in Addr : pt_walk(t, va)' = pt_walk(t, va)

\* pt_walk() finds the same pages when the ways are the same;
LEMMA WalkSame ==
  ASSUME FramesInv, SameNodes
  PROVE  SameWalks
BY NodesAre, NodesNext DEF FramesInv, SameNodes, SameWalks

\* a page that is hung it finds at its own address only,
LEMMA WalkHung ==
  ASSUME FramesInv, NEW d \in Task, NEW a \in Addr, NEW k \in 0..Top+1, NEW f,
         Hung(d, a, k, f), NEW t \in Task, NEW va \in Addr
  PROVE  pt_walk(t, va)' = IF k = 0 /\ t = d /\ va = a THEN f ELSE pt_walk(t, va)
<1>1. pt_walk(t, va) = Nodes(t, va)[-1] /\ pt_walk(t, va)' = Nodes(t, va)'[-1]
  BY NodesAre, NodesNext DEF FramesInv
<1>2. -1 \in Level /\ (-1 = k-1 <=> k = 0) /\ 0 \in 0..Top+1
  BY Levels, PagingAssumption DEF LevelsAre
<1>3. HungEach(d, a, k, f)
  BY HungNode
<1>4. Upper[0][va] = va /\ Upper[0][a] = a
  BY <1>2, UpperIs
<1>. QED  BY <1>1, <1>2, <1>3, <1>4 DEF HungEach

\* and a table that is hung changes nothing that it finds.
LEMMA WalksHung ==
  ASSUME FramesInv, NEW d \in Task, NEW a \in Addr, NEW k \in 1..Top+1, NEW f,
         Hung(d, a, k, f)
  PROVE  SameWalks
<1>1. k \in 0..Top+1 /\ k # 0
  OBVIOUS
<1>. QED  BY <1>1, WalkHung DEF SameWalks

\* A step that maps no page leaves the copy where it is.
LEMMA CopyingSame ==
  ASSUME FramesInv, Copying, SameWalks, UNCHANGED <<vmas, fork, todo>>, UnderWay' = UnderWay,
         fork = "unborn" => pgd'["child"] = pgd["child"]
  PROVE  Copying'
<1>1. "parent" \in Task /\ "child" \in Task
  BY DEF Task
<1>2. \A va : InArea(vmas, va)' = InArea(vmas, va)
  BY DEF InArea
<1>3. ASSUME fork = "copying"
      PROVE  CopiedSoFar'
  <2>1. CopiedSoFar /\ todo \subseteq Addr
    BY <1>3 DEF Copying, FramesInv, PagingTypeOK
  <2>2. \A va \in Addr : /\ pt_walk("parent", va)' = pt_walk("parent", va)
                         /\ pt_walk("child", va)' = pt_walk("child", va)
    BY <1>1 DEF SameWalks
  <2>3. todo' = todo
    OBVIOUS
  <2>. QED  BY <1>2, <2>1, <2>2, <2>3 DEF CopiedSoFar
<1>. QED  BY <1>3 DEF Copying

\* What a call or a node holds is in use, and a call's page is not its or another's
\* table.
LEMMA CallHolds ==
  ASSUME FramesInv, NEW t \in Task, call[t].page # 0
  PROVE  /\ call[t].page \in Used
         /\ \A u \in Task : call[u].new # call[t].page
<1>1. /\ <<"page", t, 0>> \in Place /\ HeldBy[<<"page", t, 0>>] = call[t].page
      /\ \A u \in Task : /\ <<"new", u, 0>> \in Place
                         /\ HeldBy[<<"new", u, 0>>] = call[u].new
                         /\ <<"new", u, 0>> # <<"page", t, 0>>
  BY PlacesAre, HeldIs, HeldByIs
<1>. QED  BY <1>1 DEF FramesInv, Owned

\* Flags of frames in use that stay are flags of nodes that stay.
LEMMA NodesInUse ==
  ASSUME FramesInv, \A g \in Used : mem_map'[g] = mem_map[g]
  PROVE  \A t \in Task, va \in Addr, l \in Level : Nodes(t, va)[l] # 0 =>
           mem_map'[Nodes(t, va)[l]] = mem_map[Nodes(t, va)[l]]
BY NodeHeld DEF FramesInv

\* get_free_page() touches the flag of no frame in use.
LEMMA TakeFlags ==
  ASSUME FramesInv, NEW f \in Free, Take(f)
  PROVE  \A g \in Used : mem_map'[g] = mem_map[g]
BY DEF FramesInv, PagingTypeOK, Take, Used, Free

\* A step after which the pages in calls are the same, and so are the flags of all
\* that was in use but for one table.
LEMMA CallFlagsSame ==
  ASSUME FramesInv, CallFlags, NEW t \in Task,
         \A g \in Used : g # call[t].new => mem_map'[g] = mem_map[g],
         \A u \in Task : u # t => call'[u] = call[u],
         call'[t].at \in {"map", "link"} =>
           call[t].at \in {"map", "link"} /\ call'[t].page = call[t].page
  PROVE  CallFlags'
<1>. SUFFICES ASSUME NEW u \in Task, call'[u].at \in {"map", "link"}
              PROVE  mem_map'[call'[u].page] = "USER"
  BY DEF CallFlags
<1>1. call[u].at \in {"map", "link"} /\ call'[u].page = call[u].page
  OBVIOUS
<1>2. call[u].page # 0
  BY <1>1 DEF FramesInv, CallOK, Active
<1>3. mem_map'[call[u].page] = mem_map[call[u].page]
  BY <1>2, CallHolds
<1>. QED  BY <1>1, <1>3 DEF CallFlags

\* The parts of the invariant, before a step and after it.
LEMMA PartsAre ==
  /\ PagingInv <=> /\ IInv /\ FramesInv /\ FlagsTellUse /\ CallFlags
                   /\ KernelPagesExact /\ Copying
  /\ PagingInv' <=> /\ IInv' /\ FramesInv' /\ FlagsTellUse' /\ CallFlags'
                    /\ KernelPagesExact' /\ Copying'
BY DEF PagingInv, Flagged

\* The areas' invariant, while they are the same.
LEMMA IInvSame ==
  ASSUME IInv, UNCHANGED vmas
  PROVE  IInv'
BY DEF IInv, TypeOK, Disjoint

\* A call begins.
LEMMA BeginStep ==
  ASSUME PagingInv, NEW t \in Task, NEW f \in Free, NEW a \in Addr, Begins(t, f, a),
         ~Active(t), t = "child" => fork \in {"E_OK", "E_NOMEM"},
         pt_walk(DstOf(t), a) = 0,
         \/ fork # "copying" /\ todo' = todo
         \/ t = "parent" /\ fork = "copying" /\ a \in todo /\ todo' = todo \ {a}
  PROVE  PagingInv' /\ OnlyThatPage
<1>0. IInv /\ FramesInv /\ FlagsTellUse /\ CallFlags /\ KernelPagesExact /\ Copying
  BY PartsAre
<1>1. /\ Take(f) /\ UNCHANGED <<pgd, kernel_pages, fork, vmas>>
      /\ call' = [call EXCEPT ![t] = Begun(DstOf(t), a, f)]
  BY DEF Begins
<1>2. /\ call'[t].at = "user" /\ call'[t].va = a
      /\ \A u \in Task : u # t => call'[u] = call[u]
  BY <1>0, <1>1 DEF FramesInv, PagingTypeOK, Begun
<1>3. FramesInv' /\ SameNodes
  BY <1>0, BeginKeeps
<1>4. SameWalks
  BY <1>0, <1>3, WalkSame
<1>5. \A g \in Used : mem_map'[g] = mem_map[g]
  BY <1>0, <1>1, TakeFlags
<1>6. FlagsTellUse'
  BY <1>0, <1>3, <1>5, NodesInUse, FlagsSame
<1>7. CallFlags'
  BY <1>0, <1>2, <1>5, CallFlagsSame
<1>8. KernelPagesExact'
  BY <1>0, <1>1, <1>3, ListSame
<1>9. Copying'
  <2>1. CASE fork # "copying"
    BY <1>0, <1>1, <2>1 DEF Copying
  <2>2. CASE t = "parent" /\ fork = "copying" /\ a \in todo /\ todo' = todo \ {a}
    <3>1. UnderWay = {} /\ UnderWay' = {a}
      BY <1>2, <2>2 DEF UnderWay, Active
    <3>2. \A va : InArea(vmas, va)' = InArea(vmas, va)
      BY <1>1 DEF InArea
    <3>3. \A va \in Addr : /\ pt_walk("parent", va)' = pt_walk("parent", va)
                           /\ pt_walk("child", va)' = pt_walk("child", va)
      BY <1>4 DEF SameWalks, Task
    <3>4. CopiedSoFar /\ todo \subseteq Addr
      BY <1>0, <2>2 DEF Copying, FramesInv, PagingTypeOK
    <3>5. \A va \in todo' : pt_walk("child", va)' = 0
      BY <2>2, <3>3, <3>4 DEF CopiedSoFar
    <3>6. todo' \cap UnderWay' = {}
      BY <2>2, <3>1
    <3>7. ASSUME NEW va \in Addr
          PROVE  InArea(vmas, va)' /\ pt_walk("parent", va)' # 0 <=>
                   pt_walk("child", va)' # 0 \/ va \in todo' \/ va \in UnderWay'
      <4>1. va \in todo \/ va \in UnderWay <=> va \in todo' \/ va \in UnderWay'
        BY <2>2, <3>1
      <4>. QED  BY <3>2, <3>3, <3>4, <4>1 DEF CopiedSoFar
    <3>8. CopiedSoFar'
      BY <3>5, <3>6, <3>7 DEF CopiedSoFar
    <3>. QED  BY <1>1, <2>2, <3>8 DEF Copying
  <2>. QED  BY <2>1, <2>2
<1>10. IInv'
  BY <1>0, <1>1, IInvSame
<1>11. OnlyThatPage
  BY <1>4 DEF SameWalks, OnlyThatPage
<1>. QED  BY <1>3, <1>6, <1>7, <1>8, <1>9, <1>10, <1>11, PartsAre


\* The page under way is the same until its call returns.
LEMMA UnderWaySame ==
  ASSUME NEW t \in Task, \A u \in Task : u # t => call'[u] = call[u],
         call[t].at # "idle", call'[t].at # "idle", call'[t].va = call[t].va
  PROVE  UnderWay' = UnderWay
<1>1. /\ call'["parent"].at # "idle" <=> call["parent"].at # "idle"
      /\ call'["parent"].at # "idle" => call'["parent"].va = call["parent"].va
  BY DEF Task
<1>. QED  BY <1>1 DEF UnderWay, Active

\* An access outside the arrays ends the run.
LEMMA StopStep ==
  ASSUME PagingInv, Stops, UNCHANGED vmas
  PROVE  PagingInv' /\ OnlyThatPage
<1>0. IInv /\ FramesInv /\ FlagsTellUse /\ CallFlags /\ KernelPagesExact /\ Copying
  BY PartsAre
<1>1. UNCHANGED <<mem_map, memory, pgd, kernel_pages, call, fork, todo, vmas>>
  BY DEF Stops
<1>2. FramesInv' /\ SameNodes
  BY <1>0, <1>1, StopKeeps
<1>3. SameWalks
  BY <1>0, <1>2, WalkSame
<1>4. FlagsTellUse'
  BY <1>0, <1>1, <1>2, FlagsSame
<1>5. CallFlags'
  BY <1>0, <1>1 DEF CallFlags
<1>6. KernelPagesExact'
  BY <1>0, <1>1, <1>2, ListSame
<1>7. Copying'
  <2>1. UnderWay' = UnderWay
    BY <1>1 DEF UnderWay, Active
  <2>. QED  BY <1>0, <1>1, <1>3, <2>1, CopyingSame
<1>8. IInv'
  BY <1>0, <1>1, IInvSame
<1>9. OnlyThatPage
  BY <1>3 DEF SameWalks, OnlyThatPage
<1>. QED  BY <1>2, <1>4, <1>5, <1>6, <1>7, <1>8, <1>9, PartsAre

\* mark_user() keeps the invariant.
LEMMA MarkStep ==
  ASSUME PagingInv, NEW t \in Task, mark_user(t), UNCHANGED vmas
  PROVE  PagingInv' /\ OnlyThatPage
<1>. DEFINE f == call[t].page
<1>0. IInv /\ FramesInv /\ FlagsTellUse /\ CallFlags /\ KernelPagesExact /\ Copying
  BY PartsAre
<1>1. /\ call[t].at = "user"
      /\ call' = [call EXCEPT ![t].at = "map"]
      /\ UNCHANGED <<memory, pgd, kernel_pages, fork, todo>>
  BY DEF mark_user
<1>2. /\ FramesInv' /\ SameNodes
      /\ f \in Used
      /\ mem_map' = [mem_map EXCEPT ![f] = "USER"]
  BY <1>0, MarkKeeps
<1>3. /\ call'[t].at = "map" /\ call'[t].va = call[t].va /\ call'[t].page = f
      /\ \A u \in Task : u # t => call'[u] = call[u]
  <2>1. /\ call'[t] = [call[t] EXCEPT !.at = "map"]
        /\ \A u \in Task : u # t => call'[u] = call[u]
    BY <1>0, <1>1 DEF FramesInv, PagingTypeOK
  <2>2. call[t] \in CallType
    BY <1>0 DEF FramesInv, PagingTypeOK
  <2>. QED  BY <2>1, <2>2 DEF CallType
<1>4. f \in Frame /\ f # 0 /\ f \notin Free
  BY <1>2, PagingAssumption DEF Used, Frame
<1>5. /\ mem_map'[f] = "USER"
      /\ \A g \in Frame : g # f => mem_map'[g] = mem_map[g]
  BY <1>0, <1>2, <1>4 DEF FramesInv, PagingTypeOK
<1>6. SameWalks
  BY <1>0, <1>2, WalkSame
<1>7. FlagsTellUse'
  <2>1. NoNode(f)
    BY <1>0, <1>4, CallIsNoNode
  <2>2. ASSUME NEW u \in Task, NEW va \in Addr, NEW l \in Level, Nodes(u, va)[l] # 0
        PROVE  mem_map'[Nodes(u, va)[l]] = mem_map[Nodes(u, va)[l]]
    <3>1. Nodes(u, va)[l] \in Used
      BY <1>0, <2>2, NodeHeld DEF FramesInv
    <3>2. Nodes(u, va)[l] \in Frame /\ Nodes(u, va)[l] # f
      BY <2>1, <3>1 DEF NoNode, Used
    <3>. QED  BY <1>5, <3>2
  <2>. QED  BY <1>0, <1>2, <2>2, FlagsSame
<1>8. CallFlags'
  <2>. SUFFICES ASSUME NEW u \in Task, call'[u].at \in {"map", "link"}
                PROVE  mem_map'[call'[u].page] = "USER"
    BY DEF CallFlags
  <2>1. CASE u = t
    BY <1>3, <1>5, <2>1
  <2>2. CASE u # t
    <3>1. call'[u] = call[u] /\ call[u].page # 0
      BY <1>0, <1>3, <2>2 DEF FramesInv, CallOK, Active
    <3>2. call[u].page \in Used
      BY <1>0, <3>1, CallHolds
    <3>3. call[u].page \in Frame /\ mem_map[call[u].page] = "USER"
      BY <1>0, <3>1, <3>2 DEF CallFlags, Used
    <3>. QED  BY <1>5, <3>1, <3>3
  <2>. QED  BY <2>1, <2>2
<1>9. KernelPagesExact'
  BY <1>0, <1>1, <1>2, ListSame
<1>10. Copying'
  <2>1. UnderWay' = UnderWay
    BY <1>1, <1>3, UnderWaySame
  <2>. QED  BY <1>0, <1>1, <1>6, <2>1, CopyingSame
<1>11. IInv'
  BY <1>0, IInvSame
<1>12. OnlyThatPage
  BY <1>6 DEF SameWalks, OnlyThatPage
<1>. QED  BY <1>2, <1>7, <1>8, <1>9, <1>10, <1>11, <1>12, PartsAre

\* So does a PGD that comes with the first page,
LEMMA PgdStep ==
  ASSUME PagingInv, NEW t \in Task, map_page_pgd(t), ~Stops, UNCHANGED vmas
  PROVE  PagingInv' /\ OnlyThatPage
<1>. DEFINE d == call[t].dst
            a == call[t].va
            f == FirstFree
            k == Top+1
<1>0. IInv /\ FramesInv /\ FlagsTellUse /\ CallFlags /\ KernelPagesExact /\ Copying
  BY PartsAre
<1>1. /\ FramesInv'
      /\ f \in Free /\ Take(f)
      /\ call[t].at = "map" /\ d \in Task /\ a \in Addr
      /\ pgd[d] = 0
      /\ Hung(d, a, k, f)
      /\ kernel_pages' = [kernel_pages EXCEPT ![d] = Append(@, f)]
      /\ UNCHANGED <<call, fork, todo>>
  BY <1>0, PgdKeeps
<1>2. pgd' = [pgd EXCEPT ![d] = f]
  BY DEF map_page_pgd, GoWild, Stops
<1>3. k \in 1..Top+1 /\ k \in 0..Top+1 /\ k # 0 /\ k \notin 1..Top /\ k-1 = Top
  BY PagingAssumption
<1>4. f \in Frame /\ NoNode(f) /\ \A g \in Used : mem_map'[g] = mem_map[g]
  BY <1>0, <1>1, FreeIsNoNode, TakeFlags DEF Free
<1>5. Nodes(d, a)[k-1] = 0
  BY <1>0, <1>1, <1>3, NodesAre DEF FramesInv
<1>. HIDE DEF f, k
<1>6. SameWalks
  BY <1>0, <1>1, <1>3, WalksHung
<1>7. FlagsTellUse'
  BY <1>0, <1>1, <1>3, <1>4, FlagsHung
<1>8. CallFlags'
  <2>1. call'[t] = call[t] /\ \A u \in Task : u # t => call'[u] = call[u]
    BY <1>1
  <2>. QED  BY <1>0, <1>4, <2>1, CallFlagsSame
<1>9. KernelPagesExact'
  BY <1>0, <1>1, <1>3, <1>4, <1>5, ListHung
<1>10. Copying'
  <2>1. UnderWay' = UnderWay
    BY <1>1 DEF UnderWay, Active
  <2>2. fork = "unborn" => d = "parent"
    BY <1>0, <1>1 DEF FramesInv, CallOK, Active, DstOf, Task
  <2>3. fork = "unborn" => pgd'["child"] = pgd["child"]
    BY <1>0, <1>2, <2>2 DEF FramesInv, PagingTypeOK, Task
  <2>. QED  BY <1>0, <1>1, <1>6, <2>1, <2>3, CopyingSame
<1>11. IInv'
  BY <1>0, IInvSame
<1>12. OnlyThatPage
  BY <1>6 DEF SameWalks, OnlyThatPage
<1>. QED  BY <1>1, <1>7, <1>8, <1>9, <1>10, <1>11, <1>12, PartsAre

\* a frame taken for a table,
LEMMA TableStep ==
  ASSUME PagingInv, NEW t \in Task, map_table(t), ~Stops, UNCHANGED vmas
  PROVE  PagingInv' /\ OnlyThatPage
<1>. DEFINE f == FirstFree
<1>0. IInv /\ FramesInv /\ FlagsTellUse /\ CallFlags /\ KernelPagesExact /\ Copying
  BY PartsAre
<1>1. /\ FramesInv' /\ SameNodes
      /\ f \in Free /\ Take(f)
      /\ call[t].at = "map"
      /\ call'[t].at = "link" /\ call'[t].page = call[t].page
      /\ call'[t].va = call[t].va
      /\ \A u \in Task : u # t => call'[u] = call[u]
      /\ UNCHANGED <<pgd, kernel_pages, fork, todo>>
  BY <1>0, TableKeeps
<1>2. \A g \in Used : mem_map'[g] = mem_map[g]
  BY <1>0, <1>1, TakeFlags
<1>. HIDE DEF f
<1>3. SameWalks
  BY <1>0, <1>1, WalkSame
<1>4. FlagsTellUse'
  BY <1>0, <1>1, <1>2, NodesInUse, FlagsSame
<1>5. CallFlags'
  BY <1>0, <1>1, <1>2, CallFlagsSame
<1>6. KernelPagesExact'
  BY <1>0, <1>1, ListSame
<1>7. Copying'
  <2>1. UnderWay' = UnderWay
    BY <1>1, UnderWaySame
  <2>. QED  BY <1>0, <1>1, <1>3, <2>1, CopyingSame
<1>8. IInv'
  BY <1>0, IInvSame
<1>9. OnlyThatPage
  BY <1>3 DEF SameWalks, OnlyThatPage
<1>. QED  BY <1>1, <1>4, <1>5, <1>6, <1>7, <1>8, <1>9, PartsAre

\* the table linked and recorded,
LEMMA LinkStep ==
  ASSUME PagingInv, NEW t \in Task, map_table_link(t), ~Stops, UNCHANGED vmas
  PROVE  PagingInv' /\ OnlyThatPage
<1>. DEFINE d == call[t].dst
            a == call[t].va
            f == call[t].new
<1>0. IInv /\ FramesInv /\ FlagsTellUse /\ CallFlags /\ KernelPagesExact /\ Copying
  BY PartsAre
<1>1. /\ FramesInv'
      /\ call[t].at = "link" /\ d \in Task /\ a \in Addr
      /\ f \in Used /\ f \in Frame
      /\ \E k \in 1..Top : Hung(d, a, k, f) /\ Nodes(d, a)[k-1] = 0
      /\ mem_map' = [mem_map EXCEPT ![f] = "PAGETABLE"]
      /\ kernel_pages' = [kernel_pages EXCEPT ![d] = Append(@, f)]
      /\ call'[t].at = "map" /\ call'[t].page = call[t].page
      /\ call'[t].va = call[t].va
      /\ \A u \in Task : u # t => call'[u] = call[u]
      /\ UNCHANGED <<pgd, fork, todo>>
  BY <1>0, LinkKeeps
<1>2. PICK k \in 1..Top : Hung(d, a, k, f) /\ Nodes(d, a)[k-1] = 0
  BY <1>1
<1>3. k \in 1..Top+1 /\ k \in 0..Top+1 /\ k # 0
  BY PagingAssumption
<1>4. /\ mem_map'[f] = "PAGETABLE"
      /\ \A g \in Used : g # f => mem_map'[g] = mem_map[g]
  BY <1>0, <1>1 DEF FramesInv, PagingTypeOK, Used
<1>5. f # 0 /\ NoNode(f)
  <2>1. f # 0
    BY <1>1, PagingAssumption DEF Frame
  <2>. QED  BY <1>0, <2>1, CallIsNoNode
<1>6. SameWalks
  BY <1>0, <1>1, <1>2, <1>3, WalksHung
<1>7. FlagsTellUse'
  BY <1>0, <1>1, <1>2, <1>3, <1>4, <1>5, FlagsHung
<1>8. CallFlags'
  BY <1>0, <1>1, <1>4, CallFlagsSame
<1>9. KernelPagesExact'
  BY <1>0, <1>1, <1>2, <1>3, <1>5, ListHung
<1>10. Copying'
  <2>1. UnderWay' = UnderWay
    BY <1>1, UnderWaySame
  <2>. QED  BY <1>0, <1>1, <1>6, <2>1, CopyingSame
<1>11. IInv'
  BY <1>0, IInvSame
<1>12. OnlyThatPage
  BY <1>6 DEF SameWalks, OnlyThatPage
<1>. QED  BY <1>1, <1>7, <1>8, <1>9, <1>10, <1>11, <1>12, PartsAre

\* and the page entered.
LEMMA PageStep ==
  ASSUME PagingInv, NEW t \in Task, map_table_entry(t), UNCHANGED vmas
  PROVE  PagingInv' /\ OnlyThatPage
<1>. DEFINE d == call[t].dst
            a == call[t].va
            f == call[t].page
<1>0. IInv /\ FramesInv /\ FlagsTellUse /\ CallFlags /\ KernelPagesExact /\ Copying
  BY PartsAre
<1>1. /\ FramesInv'
      /\ call[t].at = "map" /\ d \in Task /\ a \in Addr
      /\ f \in Used /\ f \in Frame
      /\ Hung(d, a, 0, f)
      /\ call'[t] = Idle
      /\ \A u \in Task : u # t => call'[u] = call[u]
      /\ UNCHANGED <<mem_map, pgd, kernel_pages, fork, todo>>
  BY <1>0, PageKeeps
<1>2. PICK k \in 0..Top+1 : k = 0
  BY PagingAssumption
<1>3. Hung(d, a, k, f) /\ k \notin 1..Top
  BY <1>1, <1>2
<1>4. f # 0 /\ NoNode(f) /\ mem_map[f] = "USER"
  <2>1. f # 0
    BY <1>1, PagingAssumption DEF Frame
  <2>. QED  BY <1>0, <1>1, <2>1, CallIsNoNode DEF CallFlags
<1>5. Nodes(d, a)[k-1] = 0 /\ pt_walk(d, a) = 0
  <2>1. pt_walk(d, a) = 0
    BY <1>0, <1>1 DEF FramesInv, Unmapped, CallFor, Active
  <2>. QED  BY <1>0, <1>1, <1>2, <2>1, NodesAre DEF FramesInv
<1>6. \A u \in Task, va \in Addr :
        pt_walk(u, va)' = IF u = d /\ va = a THEN f ELSE pt_walk(u, va)
  BY <1>0, <1>1, <1>2, <1>3, WalkHung
<1>7. FlagsTellUse'
  BY <1>0, <1>1, <1>2, <1>3, <1>4, FlagsHung
<1>8. CallFlags'
  <2>1. \A g \in Used : g # call[t].new => mem_map'[g] = mem_map[g]
    BY <1>1
  <2>2. call'[t].at \notin {"map", "link"}
    BY <1>1 DEF Idle
  <2>. QED  BY <1>0, <1>1, <2>1, <2>2, CallFlagsSame
<1>9. KernelPagesExact'
  BY <1>0, <1>1, <1>2, <1>3, <1>4, <1>5, ListHung
<1>10. Copying'
  <2>1. CASE fork # "copying"
    BY <1>0, <1>1, <2>1 DEF Copying
  <2>2. CASE fork = "copying"
    <3>1. t = "parent" /\ d = "child"
      BY <1>0, <1>1, <2>2 DEF FramesInv, CallOK, Active, DstOf, Task
    <3>2. UnderWay = {a} /\ UnderWay' = {}
      BY <1>1, <3>1 DEF UnderWay, Active, Idle
    <3>3. \A va : InArea(vmas, va)' = InArea(vmas, va)
      BY DEF InArea
    <3>4. \A va \in Addr :
            /\ pt_walk("parent", va)' = pt_walk("parent", va)
            /\ pt_walk("child", va)' = IF va = a THEN f ELSE pt_walk("child", va)
      BY <1>6, <3>1 DEF Task
    <3>5. CopiedSoFar /\ todo \subseteq Addr /\ todo' = todo
      BY <1>0, <1>1, <2>2 DEF Copying, FramesInv, PagingTypeOK
    <3>6. a \notin todo
      BY <3>2, <3>5 DEF CopiedSoFar
    <3>7. \A va \in todo' : pt_walk("child", va)' = 0
      BY <3>4, <3>5, <3>6 DEF CopiedSoFar
    <3>8. ASSUME NEW va \in Addr
          PROVE  InArea(vmas, va)' /\ pt_walk("parent", va)' # 0 <=>
                   pt_walk("child", va)' # 0 \/ va \in todo' \/ va \in UnderWay'
      BY <1>4, <3>2, <3>3, <3>4, <3>5 DEF CopiedSoFar
    <3>9. CopiedSoFar'
      BY <3>2, <3>7, <3>8 DEF CopiedSoFar
    <3>. QED  BY <1>1, <2>2, <3>9 DEF Copying
  <2>. QED  BY <2>1, <2>2
<1>11. IInv'
  BY <1>0, IInvSame
<1>12. OnlyThatPage
  BY <1>5, <1>6 DEF OnlyThatPage
<1>. QED  BY <1>1, <1>7, <1>8, <1>9, <1>10, <1>11, <1>12, PartsAre


\* The page at which the copy stands is one of those to be copied.
LEMMA NextIs ==
  ASSUME PagingInv, fork = "copying", todo # {}
  PROVE  NextToCopy \in todo
<1>. DEFINE Left(j) == todo \cap PagesOf(vmas[j])
            S == {j \in 1..Len(vmas) : Left(j) # {}}
<1>0. IInv /\ FramesInv /\ Copying
  BY PartsAre
<1>1. todo \subseteq Addr /\ todo \subseteq Nat
  BY <1>0, VmaAssumption DEF FramesInv, PagingTypeOK, Addr
<1>2. vmas \in Seq(Area) /\ Len(vmas) \in Nat
  BY <1>0 DEF IInv, TypeOK
<1>3. S # {}
  <2>1. PICK va \in todo : TRUE
    OBVIOUS
  <2>2. PICK j \in 1..Len(vmas) : Holds(vmas[j], va)
    BY <1>0, <1>1, <2>1 DEF Copying, CopiedSoFar, InArea
  <2>3. vmas[j] \in Area
    BY <1>2
  <2>4. va \in PagesOf(vmas[j])
    BY <1>1, <2>1, <2>2, <2>3, VmaAssumption DEF Holds, PagesOf, Area
  <2>. QED  BY <2>1, <2>4
<1>4. S \subseteq Nat
  BY <1>2
<1>5. NextToCopy = Min(Left(Min(S)))
  BY DEF NextToCopy
<1>6. Left(Min(S)) # {}
  <2>1. \A j \in S : Left(j) # {}
    OBVIOUS
  <2>. HIDE DEF S, Left
  <2>2. \E m \in S : \A n \in S : m <= n
    BY <1>3, <1>4, LeastNumber
  <2>3. Min(S) \in S
    BY ONLY <2>2, Zenon DEF Min
  <2>. QED  BY <2>1, <2>3
<1>7. PICK T : T = Left(Min(S)) /\ T # {} /\ T \subseteq Nat /\ T \subseteq todo
  BY <1>1, <1>6
<1>8. \E m \in T : \A n \in T : m <= n
  BY <1>7, LeastNumber
<1>9. Min(T) \in T
  BY ONLY <1>8, Zenon DEF Min
<1>. QED  BY <1>5, <1>7, <1>9

\* do_mem_abort() begins a call for the task itself,
LEMMA AbortStep ==
  ASSUME PagingInv, NEW t \in Task, NEW va \in Addr, do_mem_abort(t, va), UNCHANGED vmas
  PROVE  PagingInv' /\ OnlyThatPage
<1>1. FirstFree \in Free
  BY FirstFreeIs DEF do_mem_abort
<1>2. /\ ~Active(t) /\ DstOf(t) = t /\ fork # "copying"
      /\ t = "child" => fork \in {"E_OK", "E_NOMEM"}
  BY DEF do_mem_abort, Executes, Active, DstOf, Task
<1>3. Begins(t, FirstFree, va) /\ pt_walk(DstOf(t), va) = 0 /\ todo' = todo
  BY <1>2 DEF do_mem_abort, Begins
<1>. QED  BY <1>1, <1>2, <1>3, BeginStep

\* copy_virt_memory() one for the child.
LEMMA CopyStep ==
  ASSUME PagingInv, copy_page, FirstFree # 0, UNCHANGED vmas
  PROVE  PagingInv' /\ OnlyThatPage
<1>. DEFINE a == NextToCopy
<1>1. FirstFree \in Free /\ "parent" \in Task
  BY FirstFreeIs DEF Task
<1>2. /\ fork = "copying" /\ call["parent"].at = "idle" /\ todo # {}
      /\ Take(FirstFree)
      /\ call' = [call EXCEPT !["parent"] = Begun("child", a, FirstFree)]
      /\ todo' = todo \ {a}
      /\ UNCHANGED <<pgd, kernel_pages, fork>>
  BY DEF copy_page
<1>3. a \in todo
  BY <1>2, NextIs
<1>4. a \in Addr /\ pt_walk("child", a) = 0
  BY <1>2, <1>3, PartsAre DEF FramesInv, PagingTypeOK, Copying, CopiedSoFar
<1>. HIDE DEF a
<1>5. DstOf("parent") = "child" /\ ~Active("parent")
  BY <1>2 DEF DstOf, Active
<1>6. Begins("parent", FirstFree, a)
  BY <1>2, <1>5 DEF Begins
<1>7. "parent" # "child" /\ pt_walk(DstOf("parent"), a) = 0
  BY <1>4, <1>5
<1>. QED  BY <1>1, <1>2, <1>3, <1>4, <1>5, <1>6, <1>7, BeginStep

\* The fork begins or ends.
LEMMA RestStep ==
  ASSUME PagingInv, UNCHANGED <<mem_map, memory, pgd, kernel_pages, call, vmas>>,
         fork \in {"unborn", "copying"}, fork' \in {"copying", "E_OK", "E_NOMEM"},
         ~Active("parent"), todo' \subseteq Addr,
         fork' = "copying" => CopiedSoFar'
  PROVE  PagingInv' /\ OnlyThatPage
<1>0. IInv /\ FramesInv /\ FlagsTellUse /\ CallFlags /\ KernelPagesExact /\ Copying
  BY PartsAre
<1>1. FramesInv' /\ SameNodes
  BY <1>0, RestKeeps
<1>2. SameWalks
  BY <1>0, <1>1, WalkSame
<1>3. FlagsTellUse'
  BY <1>0, <1>1, FlagsSame
<1>4. CallFlags'
  BY <1>0 DEF CallFlags
<1>5. KernelPagesExact'
  BY <1>0, <1>1, ListSame
<1>6. Copying'
  BY DEF Copying
<1>7. IInv'
  BY <1>0, IInvSame
<1>8. OnlyThatPage
  BY <1>2 DEF SameWalks, OnlyThatPage
<1>. QED  BY <1>1, <1>3, <1>4, <1>5, <1>6, <1>7, <1>8, PartsAre

\* At first the child has nothing and all is to come.
LEMMA ForkStep ==
  ASSUME PagingInv, copy_virt_memory, UNCHANGED vmas
  PROVE  PagingInv' /\ OnlyThatPage
<1>0. IInv /\ FramesInv /\ Copying
  BY PartsAre
<1>1. /\ fork = "unborn" /\ call["parent"].at = "idle"
      /\ todo' = Mappable /\ fork' = "copying"
      /\ UNCHANGED <<mem_map, memory, pgd, kernel_pages, call>>
  BY DEF copy_virt_memory, Executes
<1>2. vmas \in Seq(Area) /\ Len(vmas) \in Nat
  BY <1>0 DEF IInv, TypeOK
<1>3. Mappable = {va \in Addr : InArea(vmas, va) /\ pt_walk("parent", va) # 0}
  <2>1. ASSUME NEW i \in 1..Len(vmas)
        PROVE  PagesOf(vmas[i]) = {va \in Addr : Holds(vmas[i], va)}
    <3>1. vmas[i] \in Area
      BY <1>2
    <3>. QED  BY <3>1, VmaAssumption DEF PagesOf, Holds, Area, Addr
  <2>. QED  BY <2>1 DEF Mappable, InArea
<1>4. \A va \in Addr : pt_walk("child", va) = 0
  <2>. SUFFICES ASSUME NEW va \in Addr
                PROVE  pt_walk("child", va) = 0
    OBVIOUS
  <2>1. pgd["child"] = 0 /\ "child" \in Task
    BY <1>0, <1>1 DEF Copying, Task
  <2>2. /\ memory \in Words /\ pgd["child"] \in Word
        /\ Nodes("child", va) = TreeNodes(memory, pgd["child"], va)
        /\ Nodes("child", va)[Top] = 0
        /\ pt_walk("child", va) = Nodes("child", va)[-1]
    BY <1>0, <2>1, NodesAre DEF FramesInv, PagingTypeOK
  <2>3. Top \in Level /\ -1 \in Level /\ -1 <= Top
    BY Levels, PagingAssumption DEF LevelsAre
  <2>. QED  BY <2>2, <2>3, NoneBelow
<1>5. FramesInv' /\ SameNodes
  BY <1>0, <1>1, <1>3, RestKeeps DEF Active
<1>6. SameWalks /\ "parent" \in Task /\ "child" \in Task
  BY <1>0, <1>5, WalkSame DEF Task
<1>7. CopiedSoFar'
  <2>1. UnderWay' = {}
    BY <1>1 DEF UnderWay, Active
  <2>2. \A va : InArea(vmas, va)' = InArea(vmas, va)
    BY DEF InArea
  <2>3. \A va \in Addr : /\ pt_walk("parent", va)' = pt_walk("parent", va)
                         /\ pt_walk("child", va)' = 0
    BY <1>4, <1>6 DEF SameWalks
  <2>4. \A va \in todo' : pt_walk("child", va)' = 0
    BY <1>1, <1>3, <2>3
  <2>5. ASSUME NEW va \in Addr
        PROVE  InArea(vmas, va)' /\ pt_walk("parent", va)' # 0 <=>
                 pt_walk("child", va)' # 0 \/ va \in todo' \/ va \in UnderWay'
    BY <1>1, <1>3, <2>1, <2>2, <2>3
  <2>. QED  BY <2>1, <2>4, <2>5 DEF CopiedSoFar
<1>8. todo' \subseteq Addr
  BY <1>1, <1>3
<1>. QED  BY <1>1, <1>7, <1>8, RestStep DEF Active

\* At the end nothing is claimed of the pages any more.
LEMMA EndStep ==
  ASSUME PagingInv, copy_done \/ (copy_page /\ FirstFree = 0), UNCHANGED vmas
  PROVE  PagingInv' /\ OnlyThatPage
BY RestStep DEF copy_done, copy_page, Active

\* The areas are laid out before the fork.
LEMMA AreasStep ==
  ASSUME PagingInv, AreaStep
  PROVE  PagingInv' /\ OnlyThatPage
<1>0. IInv /\ FramesInv /\ FlagsTellUse /\ CallFlags /\ KernelPagesExact /\ Copying
  BY PartsAre
<1>1. /\ fork = "unborn" /\ Next
      /\ UNCHANGED <<mem_map, memory, pgd, kernel_pages, call, fork, todo>>
  BY DEF AreaStep, paging_vars
<1>2. FramesInv' /\ SameNodes
  BY <1>0, <1>1, StopKeeps
<1>3. SameWalks
  BY <1>0, <1>2, WalkSame
<1>4. FlagsTellUse'
  BY <1>0, <1>1, <1>2, FlagsSame
<1>5. CallFlags'
  BY <1>0, <1>1 DEF CallFlags
<1>6. KernelPagesExact'
  BY <1>0, <1>1, <1>2, ListSame
<1>7. Copying'
  BY <1>0, <1>1 DEF Copying
<1>8. IInv'
  BY <1>0, <1>1, NextKeeps
<1>9. OnlyThatPage
  BY <1>3 DEF SameWalks, OnlyThatPage
<1>. QED  BY <1>2, <1>4, <1>5, <1>6, <1>7, <1>8, <1>9, PartsAre

\* All steps of map_page(), with those that leave the arrays,
LEMMA MapStepKeeps ==
  ASSUME PagingInv, NEW t \in Task, MapStep(t), UNCHANGED vmas
  PROVE  PagingInv' /\ OnlyThatPage
<1>1. CASE Stops
  BY <1>1, StopStep
<1>2. CASE ~Stops
  BY <1>2, MarkStep, PgdStep, TableStep, LinkStep, PageStep DEF MapStep
<1>. QED  BY <1>1, <1>2

\* and all steps of the tasks.
LEMMA PagingNextKeeps ==
  ASSUME PagingInv, PagingNext
  PROVE  PagingInv' /\ OnlyThatPage
<1>1. CASE AreaStep
  BY <1>1, AreasStep
<1>2. CASE (\E t \in Task, va \in Addr : do_mem_abort(t, va)) /\ UNCHANGED vmas
  BY <1>2, AbortStep
<1>3. CASE (\E t \in Task : MapStep(t)) /\ UNCHANGED vars
  BY <1>3, MapStepKeeps DEF vars
<1>4. CASE copy_virt_memory /\ UNCHANGED vars
  BY <1>4, ForkStep DEF vars
<1>5. CASE copy_page /\ UNCHANGED vars
  BY <1>5, CopyStep, EndStep DEF vars
<1>6. CASE copy_done /\ UNCHANGED vars
  BY <1>6, EndStep DEF vars
<1>. QED  BY <1>1, <1>2, <1>3, <1>4, <1>5, <1>6 DEF PagingNext


-----------------------------------------------------------------------------
(* The first state.                                                        *)

\* At first every frame is free and every way empty.
LEMMA PagingInitOK == PagingInit => PagingInv
<1>. SUFFICES ASSUME PagingInit
              PROVE  PagingInv
  OBVIOUS
<1>1. /\ mem_map = [f \in Frame |-> "FREE"]
      /\ memory = [f \in Frame |-> [i \in Slot |-> f]]
      /\ pgd = [t \in Task |-> 0]
      /\ kernel_pages = [t \in Task |-> <<>>]
      /\ fork = "unborn" /\ todo = {}
      /\ call = [t \in Task |-> Idle]
  BY DEF PagingInit, Slot
<1>2. \A t \in Task : /\ pgd[t] = 0 /\ kernel_pages[t] = <<>> /\ call[t] = Idle
                      /\ call[t].at = "idle" /\ call[t].page = 0 /\ call[t].new = 0
  BY <1>1 DEF Idle
<1>3. PagingTypeOK
  <2>1. \A f \in Frame : f \in Word
    BY PagingAssumption DEF Frame, Word
  <2>2. 0 \in Word
    BY PagingAssumption DEF Word
  <2>3. memory \in Words
    BY <1>1, <2>1 DEF Words
  <2>4. Idle \in CallType
    BY <2>2 DEF Idle, CallType, Task
  <2>5. call \in [Task -> CallType]
    BY <1>1, <2>4
  <2>6. mem_map \in [Frame -> Flag]
    BY <1>1 DEF Flag
  <2>7. kernel_pages \in [Task -> Seq(Frame)]
    BY <1>1
  <2>8. pgd \in [Task -> Word]
    BY <1>1, <2>2
  <2>. QED  BY <1>1, <2>3, <2>5, <2>6, <2>7, <2>8 DEF PagingTypeOK
<1>4. \A f \in Frame : f \in Free
  BY <1>1 DEF Free
<1>5. Owned(HeldBy, Used)
  <2>1. Used = {}
    BY <1>4 DEF Used
  <2>2. ASSUME NEW p \in Place
        PROVE  HeldBy[p] = 0
    <3>1. HeldBy[p] = Held(p)
      BY HeldByIs
    <3>2. CASE p \in Plain
      <4>1. PICK t \in Task : p \in {<<"pgd", t, 0>>, <<"page", t, 0>>, <<"new", t, 0>>}
        BY <3>2, PlacesAre
      <4>. QED  BY <1>2, <3>1, <4>1, HeldIs
    <3>3. CASE p \notin Plain
      <4>1. PICK g \in Frame, i \in Slot : p = <<"entry", g, i>>
        BY <3>3, PlacesAre
      <4>. QED  BY <1>4, <3>1, <4>1, HeldIs
    <3>. QED  BY <3>2, <3>3
  <2>. QED  BY <2>1, <2>2 DEF Owned
<1>6. CallOK /\ Unmapped
  BY <1>2 DEF CallOK, Unmapped, CallFor, Active
<1>7. \A t \in Task, va \in Addr :
        pt_walk(t, va) = 0 /\ \A l \in Level : Nodes(t, va)[l] = 0
  <2>. SUFFICES ASSUME NEW t \in Task, NEW va \in Addr
                PROVE  pt_walk(t, va) = 0 /\ \A l \in Level : Nodes(t, va)[l] = 0
    OBVIOUS
  <2>1. /\ memory \in Words /\ pgd[t] \in Word
        /\ Nodes(t, va) = TreeNodes(memory, pgd[t], va)
        /\ Nodes(t, va)[Top] = 0
        /\ pt_walk(t, va) = Nodes(t, va)[-1]
    BY <1>2, <1>3, NodesAre DEF PagingTypeOK
  <2>2. Top \in Level /\ -1 \in Level /\ \A l \in Level : l <= Top
    BY PagingAssumption DEF Level
  <2>3. \A l \in Level : Nodes(t, va)[l] = 0
    BY <2>1, <2>2, NoneBelow
  <2>. QED  BY <2>1, <2>2, <2>3
<1>8. FlagsTellUse /\ CallFlags
  <2>1. \A l \in 0..Top-1 : l \in Level
    BY Levels DEF LevelsAre
  <2>. QED  BY <1>2, <1>7, <2>1 DEF FlagsTellUse, CallFlags
<1>9. KernelPagesExact
  <2>1. \A t \in Task : TablesOf(t) = {}
    BY <1>7, Levels DEF TablesOf, LevelsAre
  <2>2. IsInjective(<<>>) /\ ToSet(<<>>) = {}
    BY DEF IsInjective, ToSet
  <2>. QED  BY <1>2, <2>1, <2>2, ListIs
<1>10. Copying
  BY <1>1, <1>2 DEF Copying, Task
<1>11. IInv
  BY InitIInv DEF PagingInit
<1>. QED  BY <1>3, <1>5, <1>6, <1>8, <1>9, <1>10, <1>11, PartsAre DEF FramesInv

\* The invariant is inductive.
LEMMA PagingStepKeeps == PagingInv /\ [PagingNext]_<<vars, paging_vars>> => PagingInv'
<1>. SUFFICES ASSUME PagingInv, [PagingNext]_<<vars, paging_vars>>
              PROVE  PagingInv'
  OBVIOUS
<1>1. CASE PagingNext
  BY <1>1, PagingNextKeeps
<1>2. CASE UNCHANGED <<vars, paging_vars>>
  <2>1. UNCHANGED <<mem_map, memory, pgd, kernel_pages, call, fork, todo, vmas>>
    BY <1>2 DEF vars, paging_vars
  <2>2. FramesInv' /\ SameNodes
    BY <2>1, PartsAre, StopKeeps
  <2>3. SameWalks
    BY <2>2, PartsAre, WalkSame
  <2>4. FlagsTellUse'
    BY <2>1, <2>2, PartsAre, FlagsSame
  <2>5. CallFlags'
    BY <2>1, PartsAre DEF CallFlags
  <2>6. KernelPagesExact'
    BY <2>1, <2>2, PartsAre, ListSame
  <2>7. Copying'
    <3>1. UnderWay' = UnderWay
      BY <2>1 DEF UnderWay, Active
    <3>. QED  BY <2>1, <2>3, <3>1, PartsAre, CopyingSame
  <2>8. IInv'
    BY <2>1, PartsAre, IInvSame
  <2>. QED  BY <2>2, <2>4, <2>5, <2>6, <2>7, <2>8, PartsAre
<1>. QED  BY <1>1, <1>2

-----------------------------------------------------------------------------
(* What follows.                                                           *)

\* The inductive invariant of the frames, the tables and the fork.
THEOREM PagingInvariance == PagingSpec => []PagingInv
BY PagingInitOK, PagingStepKeeps, PTL DEF PagingSpec

\* One place for each frame in use, counted.
LEMMA OwnedIs ==
  ASSUME FramesInv
  PROVE  FramesOwned
<1>. SUFFICES ASSUME NEW f \in Frame
              PROVE  Cardinality(Holders(f)) = IF mem_map[f] = "FREE" THEN 0 ELSE 1
  BY DEF FramesOwned
<1>0. f # 0
  BY PagingAssumption DEF Frame
<1>1. \A p \in Place : p \in Holders(f) <=> HeldBy[p] = f
  BY HeldByIs DEF Holders
<1>2. Owned(HeldBy, Used) /\ Holders(f) \subseteq Place
  BY DEF FramesInv, Holders
<1>3. CASE mem_map[f] = "FREE"
  <2>1. f \notin Used
    BY <1>3, FreeIs
  <2>2. Holders(f) = {}
    BY <1>0, <1>1, <1>2, <2>1 DEF Owned
  <2>. QED  BY <1>3, <2>2, FS_EmptySet
<1>4. CASE mem_map[f] # "FREE"
  <2>1. f \in Used
    BY <1>4, FreeIs
  <2>2. PICK p \in Place : HeldBy[p] = f
    BY <1>2, <2>1 DEF Owned
  <2>3. \A q \in Place : HeldBy[q] = f => q = p
    BY <1>0, <1>2, <2>2 DEF Owned
  <2>4. Holders(f) = {p}
    BY <1>1, <1>2, <2>2, <2>3
  <2>. QED  BY <1>4, <2>4, FS_Singleton
<1>. QED  BY <1>3, <1>4

\* Every frame that is not free is in one place, a free one in none: no two tasks
\* share a page or a table and no frame is lost, for any number of frames.
THEOREM OneHolderEach == PagingSpec => []FramesOwned
<1>1. PagingInv => FramesOwned
  BY OwnedIs DEF PagingInv
<1>. QED  BY <1>1, PagingInvariance, PTL

\* The flags of a frame say what it is mapped as.
THEOREM FlagsAreTrue == PagingSpec => []FlagsTellUse
<1>1. PagingInv => FlagsTellUse
  BY DEF PagingInv, Flagged
<1>. QED  BY <1>1, PagingInvariance, PTL

\* kernel_pages lists every table of the task once and nothing else.
THEOREM TablesListed == PagingSpec => []KernelPagesExact
<1>1. PagingInv => KernelPagesExact
  BY DEF PagingInv
<1>. QED  BY <1>1, PagingInvariance, PTL

\* map_page() maps the page it was called for with the frame taken for it, and no
\* other page comes, goes or is replaced, in either task.
THEOREM MapsWhatWasAsked == PagingSpec => MapsOnlyThatPage
<1>1. PagingInv /\ [PagingNext]_<<vars, paging_vars>> =>
        [\A t \in Task, va \in Addr : pt_walk(t, va)' # pt_walk(t, va) =>
           /\ pt_walk(t, va) = 0
           /\ \E u \in Task : /\ call[u].dst = t /\ call[u].va = va
                              /\ pt_walk(t, va)' = call[u].page]_<<vars, paging_vars>>
  BY PagingNextKeeps DEF OnlyThatPage
<1>. QED  BY <1>1, PagingInvariance, PTL DEF PagingSpec, MapsOnlyThatPage

\* A copy that ends with E_OK has nothing left and nothing under way.
LEMMA CopiedAll ==
  ASSUME PagingInv, PagingNext, fork = "copying", fork' = "E_OK"
  PROVE  \A va \in Addr :
           pt_walk("child", va) # 0 <=> InArea(vmas, va) /\ pt_walk("parent", va) # 0
<1>1. CopiedSoFar
  BY DEF PagingInv, Copying
<1>2. call["parent"].at = "idle" /\ todo = {}
  BY DEF PagingNext, AreaStep, paging_vars, do_mem_abort, copy_virt_memory, copy_page,
         copy_done, MapStep, mark_user, map_page_pgd, map_table, map_table_link,
         map_table_entry
<1>3. UnderWay = {}
  BY <1>2 DEF UnderWay, Active
<1>. QED  BY <1>1, <1>2, <1>3 DEF CopiedSoFar

\* A fork that returns E_OK has copied all pages that the parent has in its areas.
THEOREM ForkCopiesAll == PagingSpec => CopyComplete
<1>1. PagingInv /\ [PagingNext]_<<vars, paging_vars>> =>
        [fork = "copying" /\ fork' = "E_OK" =>
           \A va \in Addr :
             pt_walk("child", va) # 0 <=> InArea(vmas, va) /\ pt_walk("parent", va) # 0
        ]_<<vars, paging_vars>>
  BY CopiedAll
<1>. QED  BY <1>1, PagingInvariance, PTL DEF PagingSpec, CopyComplete

\* The areas of a task that runs, faults and forks stay disjoint.
THEOREM AreasStayDisjoint == PagingSpec => []Disjoint
<1>1. PagingInv => Disjoint
  BY DEF PagingInv, IInv
<1>. QED  BY <1>1, PagingInvariance, PTL

\* Nor is a page unmapped by anything but the removal of its area.
THEOREM OnlyRemovalUnmaps == PagingSpec => RemovesOneArea
<1>1. PagingInv /\ [PagingNext]_<<vars, paging_vars>> =>
        [\A start \in 0..Pages :
           /\ vma_remove(start) =>
                Mapped(vmas') = {p \in Mapped(vmas) :
                  \A i \in 1..Len(vmas) :
                    vmas[i].virt_start = start => ~Holds(vmas[i], p)}
           /\ ret' # <<"void">> => Mapped(vmas) \subseteq Mapped(vmas')]_vars
  <2>. SUFFICES ASSUME PagingInv, PagingNext, ~UNCHANGED vars
                PROVE  OneAreaOnly
    BY DEF OneAreaOnly, vars
  <2>1. CASE AreaStep
    BY <2>1, NextUnmaps DEF AreaStep, PagingInv
  <2>2. CASE ret' = <<"none">> /\ UNCHANGED vmas
    BY <2>2 DEF OneAreaOnly, vma_remove
  <2>. QED  BY <2>1, <2>2 DEF PagingNext
<1>. QED  BY <1>1, PagingInvariance, PTL DEF PagingSpec, RemovesOneArea

=============================================================================
