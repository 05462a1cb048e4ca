--------------------------- MODULE ConsoleProofs ---------------------------
(***************************************************************************)
(* That the ring buffer implements a bounded queue, and that the console's *)
(* editor, whose history it holds, shows the line it will execute, recalls *)
(* the lines that were entered and names its directory, for any lines,     *)
(* names, sizes of history and widths of unsigned int.                     *)
(***************************************************************************)
EXTENDS Console, SequenceTheorems, WellFoundedInduction, TLAPS

-----------------------------------------------------------------------------
(* The ring buffer.  The lemmas take the remainders out of the index       *)
(* arithmetic; they are about any pair h, t of indices, so that they serve *)
(* the two states of a step alike.                                         *)

Index == 0..Capacity-1

\* What the remainder is on the two ranges that the code needs.
LEMMA ModSmall ==
  ASSUME NEW n \in Nat, NEW m \in Nat \ {0}, n < m
  PROVE  n % m = n
BY SMT

LEMMA ModWrap ==
  ASSUME NEW n \in Nat, NEW m \in Nat \ {0}, m <= n, n < 2 * m
  PROVE  n % m = n - m
BY SMT

\* An index that has run past the end by less than a capacity is brought back.
LEMMA Wrapped ==
  ASSUME NEW n \in 0 .. 2 * Capacity - 1
  PROVE  /\ U(n) = n
         /\ n % Capacity = IF n < Capacity THEN n ELSE n - Capacity
<1>. USE RingBufAssumption
<1>1. U(n) = n
  BY ModSmall DEF U
<1>2. CASE n < Capacity
  BY <1>1, <1>2, ModSmall
<1>3. CASE ~(n < Capacity)
  BY <1>1, <1>3, ModWrap
<1>. QED  BY <1>1, <1>2, <1>3

LEMMA AdvanceIs ==
  ASSUME NEW n \in Index
  PROVE  Advance(n) = IF n = Capacity - 1 THEN 0 ELSE n + 1
<1>1. n + 1 \in 0 .. 2 * Capacity - 1
  BY RingBufAssumption DEF Index
<1>. QED  BY <1>1, Wrapped, RingBufAssumption DEF Advance, Index

\* The number of elements between two indices.
Between(h, t) == IF h >= t THEN h - t ELSE h - t + Capacity

LEMMA BetweenIs ==
  ASSUME NEW h \in Index, NEW t \in Index
  PROVE  /\ U(h - t + Capacity) % Capacity = Between(h, t)
         /\ Between(h, t) \in Index
<1>1. h - t + Capacity \in 0 .. 2 * Capacity - 1
  BY RingBufAssumption DEF Index
<1>. QED  BY <1>1, Wrapped, RingBufAssumption DEF Between, Index

\* The slot of the i-th oldest of the elements between two indices.
Place(t, i) == IF t + i - 1 < Capacity THEN t + i - 1 ELSE t + i - 1 - Capacity

LEMMA PlaceIs ==
  ASSUME NEW t \in Index, NEW i \in 1..Capacity-1
  PROVE  /\ (t + i - 1) % Capacity = Place(t, i)
         /\ Place(t, i) \in Index
<1>1. t + i - 1 \in 0 .. 2 * Capacity - 1
  BY RingBufAssumption DEF Index
<1>. QED  BY <1>1, Wrapped, RingBufAssumption DEF Place, Index

\* SlotOf() counts the elements from the newest, Place from the oldest.
LEMMA SlotOfIs ==
  ASSUME head \in Index, tail \in Index,
         NEW offset \in Nat, offset < Between(head, tail)
  PROVE  SlotOf(offset) = Place(tail, Between(head, tail) - offset)
<1>1. offset < Capacity
  BY BetweenIs, RingBufAssumption DEF Index
<1>2. head - 1 - offset + Capacity \in 0 .. 2 * Capacity - 1
  BY <1>1, RingBufAssumption DEF Index
<1>3. SlotOf(offset) = IF head - 1 - offset + Capacity < Capacity
                       THEN head - 1 - offset + Capacity ELSE head - 1 - offset
  BY <1>2, Wrapped, RingBufAssumption DEF SlotOf, Index
<1>. QED  BY <1>1, <1>3, RingBufAssumption DEF Place, Between, Index

-----------------------------------------------------------------------------
(* The inductive invariant: the indices stay in the storage.               *)
Indexed ==
  /\ head \in Index
  /\ tail \in Index
  /\ slots \in [Index -> Elem]

\* Contents, by the slots its elements are in.
Queue(h, t, s) == [i \in 1..Between(h, t) |-> s[Place(t, i)]]

LEMMA ContentsIs ==
  ASSUME NEW h \in Index, NEW t \in Index, NEW s \in [Index -> Elem]
  PROVE  /\ [i \in 1..(U(h - t + Capacity) % Capacity) |-> s[(t + i - 1) % Capacity]]
              = Queue(h, t, s)
         /\ Queue(h, t, s) \in Seq(Elem)
         /\ Len(Queue(h, t, s)) = Between(h, t)
<1>0. Between(h, t) \in Index
  BY BetweenIs
<1>1. Between(h, t) \in Nat /\ Between(h, t) < Capacity
  BY <1>0, RingBufAssumption DEF Index
<1>2. \A i \in 1..Between(h, t) : i \in 1..Capacity-1
  BY <1>1, RingBufAssumption
<1>3. \A i \in 1..Between(h, t) : /\ (t + i - 1) % Capacity = Place(t, i)
                                  /\ s[Place(t, i)] \in Elem
  BY <1>2, PlaceIs
<1>4. Queue(h, t, s) \in [1..Between(h, t) -> Elem]
  BY <1>3 DEF Queue
<1>. QED  BY <1>1, <1>3, <1>4, BetweenIs DEF Queue

LEMMA InitIndexed == Init => Indexed
<1>. DEFINE any == CHOOSE e \in Elem : TRUE
<1>1. any \in Elem
  BY RingBufAssumption, Zenon
<1>2. Init => slots = [i \in Index |-> any]
  BY DEF Init, Index
<1>. HIDE DEF any
<1>3. 0 \in Index
  BY RingBufAssumption DEF Index
<1>. QED  BY <1>1, <1>2, <1>3 DEF Init, Indexed

LEMMA NextIndexed == Indexed /\ [Next]_vars => Indexed'
<1>. SUFFICES ASSUME Indexed, [Next]_vars PROVE Indexed'
  OBVIOUS
<1>. USE DEF Indexed
<1>1. \A n \in Index : Advance(n) \in Index
  BY AdvanceIs, RingBufAssumption DEF Index
<1>2. ASSUME NEW e \in Elem, push(e) PROVE Indexed'
  BY <1>1, <1>2 DEF push
<1>3. CASE pop
  BY <1>1, <1>3 DEF pop
<1>4. ASSUME NEW offset \in 0..Capacity, peek(offset) PROVE Indexed'
  BY <1>4 DEF peek
<1>5. CASE is_empty \/ is_full \/ count \/ UNCHANGED vars
  BY <1>5 DEF is_empty, is_full, count, vars
<1>. QED  BY <1>2, <1>3, <1>4, <1>5 DEF Next

\* Type correctness: head and tail never leave the storage, and no operation
\* copies out anything but an element that was pushed.
THEOREM IndicesInStorage == Spec => []TypeOK
<1>. USE RingBufAssumption DEF Index, Returns
<1>1. Init => TypeOK
  <2>1. Init => ret = [value |-> 0, elem |-> None]
    BY DEF Init
  <2>. QED  BY <2>1, InitIndexed DEF TypeOK, Indexed
<1>2. Indexed /\ TypeOK /\ [Next]_vars => TypeOK'
  <2>. SUFFICES ASSUME Indexed, Indexed', TypeOK, [Next]_vars PROVE TypeOK'
    BY NextIndexed
  <2>. USE DEF TypeOK, Indexed
  <2>0. Used = Between(head, tail) /\ Used \in Index
    BY BetweenIs DEF Used
  <2>1. ASSUME NEW e \in Elem, push(e) PROVE TypeOK'
    BY <2>1 DEF push
  <2>2. CASE pop
    BY <2>2 DEF pop
  <2>3. ASSUME NEW offset \in 0..Capacity, peek(offset) PROVE TypeOK'
    <3>1. offset < Used => SlotOf(offset) \in Index
      <4>. SUFFICES ASSUME offset < Used PROVE SlotOf(offset) \in Index
        OBVIOUS
      <4>1. Between(head, tail) - offset \in 1..Capacity-1
        BY <2>0
      <4>2. SlotOf(offset) = Place(tail, Between(head, tail) - offset)
        BY <2>0, SlotOfIs
      <4>. QED  BY <4>1, <4>2, PlaceIs
    <3>2. CASE offset >= Used
      BY <2>3, <2>0, <3>2 DEF peek
    <3>3. CASE offset < Used
      BY <2>3, <2>0, <3>1, <3>3 DEF peek
    <3>. QED  BY <2>0, <3>2, <3>3
  <2>4. CASE is_empty \/ is_full
    BY <2>4 DEF is_empty, is_full
  <2>5. CASE count
    BY <2>5, <2>0 DEF count
  <2>6. CASE UNCHANGED vars
    BY <2>6 DEF vars
  <2>. QED  BY <2>1, <2>2, <2>3, <2>4, <2>5, <2>6 DEF Next
<1>. QED  BY <1>1, <1>2, InitIndexed, NextIndexed, PTL DEF Spec

-----------------------------------------------------------------------------
\* push() and pop() add and remove at the two ends of the queue.
LEMMA PushAppends ==
  ASSUME NEW h \in Index, NEW t \in Index, NEW s \in [Index -> Elem],
         NEW e \in Elem, Advance(h) # t
  PROVE  Queue(Advance(h), t, [s EXCEPT ![h] = e]) = Append(Queue(h, t, s), e)
<1>. DEFINE n == Between(h, t)
            r == [s EXCEPT ![h] = e]
<1>. USE RingBufAssumption DEF Index
<1>1. Advance(h) \in Index /\ Between(Advance(h), t) = n + 1
  BY AdvanceIs DEF Between
<1>a. n \in Index /\ Between(Advance(h), t) \in Index
  BY <1>1, BetweenIs
<1>2. n \in Nat /\ n + 1 < Capacity
  BY <1>1, <1>a
<1>3. Place(t, n + 1) = h
  BY DEF Place, Between
<1>4. \A i \in 1..n : Place(t, i) \in Index /\ Place(t, i) # h
  BY <1>2 DEF Place, Between
<1>5. \A i \in 1..n : r[Place(t, i)] = s[Place(t, i)]
  BY <1>4
<1>6. r[Place(t, n + 1)] = e
  BY <1>3
<1>7. Queue(h, t, s) \in Seq(Elem) /\ Len(Queue(h, t, s)) = n
  BY ContentsIs
<1>. HIDE DEF n, r
<1>8. Queue(Advance(h), t, r) = [i \in 1..n+1 |-> IF i <= n THEN s[Place(t, i)] ELSE e]
  BY <1>1, <1>2, <1>5, <1>6 DEF Queue
<1>9. \A i \in 1..n : Queue(h, t, s)[i] = s[Place(t, i)]
  BY DEF Queue, n
<1>10. /\ Append(Queue(h, t, s), e) \in Seq(Elem)
       /\ Len(Append(Queue(h, t, s), e)) = n + 1
       /\ \A i \in 1..n : Append(Queue(h, t, s), e)[i] = s[Place(t, i)]
       /\ Append(Queue(h, t, s), e)[n + 1] = e
  BY <1>7, <1>9, AppendProperties
<1>11. Append(Queue(h, t, s), e) = [i \in 1..n+1 |-> IF i <= n THEN s[Place(t, i)] ELSE e]
  BY <1>2, <1>10, SMTT(60)
<1>. QED  BY <1>8, <1>11 DEF r

LEMMA PopRemovesHead ==
  ASSUME NEW h \in Index, NEW t \in Index, NEW s \in [Index -> Elem], h # t
  PROVE  /\ Head(Queue(h, t, s)) = s[t]
         /\ Queue(h, Advance(t), s) = Tail(Queue(h, t, s))
<1>. DEFINE n == Between(h, t)
<1>. USE RingBufAssumption DEF Index
<1>1. Advance(t) \in Index /\ Between(h, Advance(t)) = n - 1
  BY AdvanceIs DEF Between
<1>2. n \in Nat /\ n >= 1 /\ n < Capacity
  BY BetweenIs DEF Between
<1>3. Place(t, 1) = t
  BY DEF Place
<1>4. \A i \in 1..n-1 : Place(Advance(t), i) = Place(t, i + 1)
  BY <1>2, AdvanceIs DEF Place
<1>5. Queue(h, t, s) \in Seq(Elem) /\ Len(Queue(h, t, s)) = n
  BY ContentsIs
<1>. HIDE DEF n
<1>6. \A i \in 1..n : Queue(h, t, s)[i] = s[Place(t, i)]
  BY DEF Queue, n
<1>7. Queue(h, Advance(t), s) = [i \in 1..n-1 |-> s[Place(t, i + 1)]]
  BY <1>1, <1>4 DEF Queue
<1>8. /\ Head(Queue(h, t, s)) = Queue(h, t, s)[1]
      /\ Tail(Queue(h, t, s)) \in Seq(Elem)
      /\ Len(Tail(Queue(h, t, s))) = n - 1
      /\ \A i \in 1..n-1 : Tail(Queue(h, t, s))[i] = Queue(h, t, s)[i + 1]
  BY <1>2, <1>5, HeadTailProperties
<1>9. \A i \in 1..n-1 : Tail(Queue(h, t, s))[i] = s[Place(t, i + 1)]
  BY <1>2, <1>6, <1>8
<1>10. /\ Queue(h, Advance(t), s) \in Seq(Elem)
       /\ Len(Queue(h, Advance(t), s)) = n - 1
       /\ \A i \in 1..n-1 : Queue(h, Advance(t), s)[i] = s[Place(t, i + 1)]
  BY <1>1, <1>7, ContentsIs
<1>11. Queue(h, Advance(t), s) = Tail(Queue(h, t, s))
  BY <1>8, <1>9, <1>10, SeqEqual
<1>. QED  BY <1>2, <1>3, <1>6, <1>8, <1>11

-----------------------------------------------------------------------------
(* The refinement.                                                         *)
LEMMA ContentsIsQueue ==
  Indexed => /\ Contents = Queue(head, tail, slots)
             /\ Contents \in Seq(Elem)
             /\ Len(Contents) = Used
             /\ Used = Between(head, tail)
             /\ Used \in Index
<1>. SUFFICES ASSUME head \in Index, tail \in Index, slots \in [Index -> Elem]
              PROVE  /\ Contents = Queue(head, tail, slots)
                     /\ Contents \in Seq(Elem)
                     /\ Len(Contents) = Used
                     /\ Used = Between(head, tail)
                     /\ Used \in Index
  BY DEF Indexed
<1>1. Used = Between(head, tail) /\ Used \in Index
  BY BetweenIs DEF Used
<1>2. Contents = Queue(head, tail, slots)
  BY ContentsIs DEF Contents, Used
<1>. QED  BY <1>1, <1>2, ContentsIs

LEMMA ContentsIsQueueNext == Indexed' => Contents' = Queue(head', tail', slots')
  BY ContentsIs DEF Indexed, Contents, Used

\* The one slot that is given up: full is Capacity - 1 elements, empty is none.
LEMMA FullAndEmpty ==
  Indexed => (IsFull <=> Used = Capacity - 1) /\ (IsEmpty <=> Contents = <<>>)
<1>. SUFFICES ASSUME Indexed
              PROVE  (IsFull <=> Used = Capacity - 1) /\ (IsEmpty <=> Contents = <<>>)
  OBVIOUS
<1>. USE RingBufAssumption DEF Indexed, Index
<1>1. IsFull <=> Between(head, tail) = Capacity - 1
  BY AdvanceIs DEF IsFull, Between
<1>2. IsEmpty <=> Between(head, tail) = 0
  BY DEF IsEmpty, Between
<1>3. Contents = <<>> <=> Len(Contents) = 0
  BY ContentsIsQueue, EmptySeq
<1>. QED  BY <1>1, <1>2, <1>3, ContentsIsQueue

\* Every call of the ring buffer is a call of the bounded queue.
LEMMA CallSimulation ==
  ASSUME Indexed, Indexed'
  PROVE  /\ \A e \in Elem : push(e) => Fifo!push(e)
         /\ pop => Fifo!pop
         /\ \A offset \in 0..Capacity : peek(offset) => Fifo!peek(offset)
         /\ is_empty => Fifo!is_empty
         /\ is_full => Fifo!is_full
         /\ count => Fifo!count
         /\ UNCHANGED vars => UNCHANGED <<Contents, ret>>
<1>. USE DEF Indexed, Returns, Fifo!Returns
<1>0. /\ Contents = Queue(head, tail, slots)
      /\ Contents' = Queue(head', tail', slots')
      /\ Len(Contents) = Used /\ Used \in Index
      /\ IsFull <=> Fifo!Full
      /\ IsEmpty <=> Fifo!Empty
  BY ContentsIsQueue, ContentsIsQueueNext, FullAndEmpty DEF Fifo!Full, Fifo!Empty
<1>1. UNCHANGED <<head, tail, slots>> => UNCHANGED Contents
  BY <1>0
<1>2. ASSUME NEW e \in Elem, push(e) PROVE Fifo!push(e)
  <2>1. CASE IsFull
    BY <1>0, <1>1, <1>2, <2>1 DEF push, Fifo!push
  <2>2. CASE ~IsFull
    <3>1. /\ slots' = [slots EXCEPT ![head] = e]
          /\ head' = Advance(head) /\ tail' = tail
          /\ Returns(1, None)
      BY <1>2, <2>2 DEF push
    <3>2. Advance(head) # tail
      BY <2>2 DEF IsFull
    <3>3. Queue(Advance(head), tail, [slots EXCEPT ![head] = e])
            = Append(Queue(head, tail, slots), e)
      BY <3>2, PushAppends
    <3>. QED  BY <1>0, <2>2, <3>1, <3>3 DEF Fifo!push
  <2>. QED  BY <2>1, <2>2
<1>3. ASSUME pop PROVE Fifo!pop
  <2>1. CASE IsEmpty
    BY <1>0, <1>1, <1>3, <2>1 DEF pop, Fifo!pop
  <2>2. CASE ~IsEmpty
    <3>1. /\ slots' = slots /\ head' = head /\ tail' = Advance(tail)
          /\ Returns(1, slots[tail])
      BY <1>3, <2>2 DEF pop
    <3>2. slots[tail] = Head(Contents) /\ Contents' = Tail(Contents)
      BY <1>0, <2>2, <3>1, PopRemovesHead DEF IsEmpty
    <3>. QED  BY <1>0, <2>2, <3>1, <3>2 DEF Fifo!pop
  <2>. QED  BY <2>1, <2>2
<1>4. ASSUME NEW offset \in 0..Capacity, peek(offset) PROVE Fifo!peek(offset)
  <2>1. CASE offset >= Used
    BY <1>0, <1>1, <1>4, <2>1, RingBufAssumption DEF peek, Fifo!peek, Index
  <2>2. CASE offset < Used
    <3>1. slots[SlotOf(offset)] = Contents[Len(Contents) - offset]
      <4>1. Used = Between(head, tail)
        BY ContentsIsQueue
      <4>2. Used - offset \in 1..Between(head, tail)
        BY <1>0, <2>2, <4>1, RingBufAssumption DEF Index
      <4>3. Contents[Used - offset] = slots[Place(tail, Used - offset)]
        BY <1>0, <4>2 DEF Queue
      <4>4. SlotOf(offset) = Place(tail, Used - offset)
        BY <2>2, <4>1, SlotOfIs
      <4>. QED  BY <1>0, <4>3, <4>4
    <3>. QED  BY <1>0, <1>1, <1>4, <2>2, <3>1, RingBufAssumption DEF peek, Fifo!peek, Index
  <2>. QED  BY <1>0, <2>1, <2>2, RingBufAssumption DEF Index
<1>5. ASSUME is_empty PROVE Fifo!is_empty
  BY <1>0, <1>1, <1>5 DEF is_empty, Fifo!is_empty
<1>6. ASSUME is_full PROVE Fifo!is_full
  BY <1>0, <1>1, <1>6 DEF is_full, Fifo!is_full
<1>7. ASSUME count PROVE Fifo!count
  BY <1>0, <1>1, <1>7 DEF count, Fifo!count
<1>8. ASSUME UNCHANGED vars PROVE UNCHANGED <<Contents, ret>>
  BY <1>1, <1>8 DEF vars
<1>. QED  BY <1>2, <1>3, <1>4, <1>5, <1>6, <1>7, <1>8

LEMMA StepSimulation == Indexed /\ [Next]_vars => [Fifo!Next]_(Fifo!vars)
<1>. SUFFICES ASSUME Indexed, Indexed', [Next]_vars PROVE [Fifo!Next]_(Fifo!vars)
  BY NextIndexed
<1>. QED  BY CallSimulation DEF Next, Fifo!Next, Fifo!vars

\* The ring buffer implements the bounded first-in first-out queue, whatever the
\* elements, the capacity and the width of unsigned int: all six operations
\* return what the queue returns, through every wrap-around of the indices.
THEOREM Refinement == Spec => RefinesFifo
<1>1. Init => Fifo!Init
  <2>. SUFFICES ASSUME Init PROVE Fifo!Init
    OBVIOUS
  <2>1. head = tail /\ ret = [value |-> 0, elem |-> None]
    BY DEF Init
  <2>2. Contents = <<>>
    BY <2>1, InitIndexed, FullAndEmpty DEF IsEmpty
  <2>. QED  BY <2>1, <2>2 DEF Fifo!Init
<1>. QED
  BY <1>1, InitIndexed, NextIndexed, StepSimulation, PTL
  DEF Spec, RefinesFifo, Fifo!Spec

-----------------------------------------------------------------------------
(* The editor and its history.  The lines of the history are what the     *)
(* editor can hold.                                                        *)

Letter == Char \cup {Del}

LEMMA LineMaxIs == LineMax \in Nat \ {0}
BY ConsoleAssumption

LEMMA LinesAre ==
  \A l : l \in Elem <=> l \in Seq(Letter) /\ Len(l) < LineMax
<1>. USE ConsoleAssumption
<1>1. Elem = UNION {[1..n -> Letter] : n \in 0..LineMax-1}
  BY DEF SeqOf, Letter
<1>2. ASSUME NEW l \in Elem
      PROVE  l \in Seq(Letter) /\ Len(l) < LineMax
  <2>1. PICK n \in 0..LineMax-1 : l \in [1..n -> Letter]
    BY <1>1
  <2>2. n \in Nat /\ n < LineMax
    OBVIOUS
  <2>. QED  BY <2>1, <2>2
<1>3. ASSUME NEW l \in Seq(Letter), Len(l) < LineMax
      PROVE  l \in Elem
  <2>1. l \in [1..Len(l) -> Letter] /\ Len(l) \in 0..LineMax-1
    BY <1>3
  <2>. QED  BY <1>1, <2>1
<1>. QED  BY <1>2, <1>3

Screen == [text : Seq(Letter), torn : BOOLEAN]

Places == {"key", "recall", "is_full", "drop", "push", "command"}

EditorTypeOK ==
  /\ at \in Places
  /\ line \in Elem /\ saved \in Elem /\ live \in Elem
  /\ hist_pos \in Nat /\ new_pos \in Nat
  /\ screen \in Screen
  /\ entered \in Seq(Elem)

\* While keys are read, the terminal shows the line.
Echoed == at \in {"key", "recall"} /\ ~screen.torn => screen.text = line

\* The history holds the last lines entered; the oldest is gone between the
\* two sections that make room and push.
Oldest(s) == IF s = <<>> THEN s ELSE Tail(s)

Kept ==
  /\ Len(entered) <= Capacity - 1
  /\ at = "drop" => Len(entered) = Capacity - 1
  /\ Contents = IF at = "push" /\ Len(entered) = Capacity - 1
                THEN Oldest(entered) ELSE entered

\* The offsets are those of lines in the history, and the live line is in buf
\* or, while browsing, saved.
Browsing ==
  at \in {"key", "recall"} =>
    /\ hist_pos <= Len(entered)
    /\ at = "recall" => new_pos <= Len(entered)
    /\ live = IF hist_pos = 0 THEN line ELSE saved

ConsoleInv == Indexed /\ EditorTypeOK /\ Echoed /\ Kept /\ Browsing

LEMMA EmptyLine == <<>> \in Elem
<1>1. <<>> \in Seq(Letter) /\ Len(<<>>) = 0
  BY EmptySeq
<1>2. 0 < LineMax
  BY LineMaxIs
<1>. QED  BY <1>1, <1>2, LinesAre

\* What the terminal shows at a prompt, after a deletion, after characters, and
\* when one line is replaced by another.
LEMMA BlankIs == Blank \in Screen /\ Blank.text = <<>>
BY EmptySeq DEF Blank, Screen

LEMMA ErasedIs ==
  ASSUME NEW scr \in Screen, NEW n \in Nat
  PROVE  /\ Erased(scr, n) \in Screen
         /\ Erased(scr, n).text = SubSeq(scr.text, 1, Len(scr.text) - n)
         /\ ~Erased(scr, n).torn => ~scr.torn
<1>. DEFINE txt == scr.text
            m == Len(txt) - n
<1>1. txt \in Seq(Letter) /\ scr.torn \in BOOLEAN
  BY DEF Screen
<1>2. Len(txt) \in Nat /\ \A i \in 1..Len(txt) : txt[i] \in Letter
  BY <1>1, LenProperties, ElementOfSeq
<1>3. m \in Int /\ \A i \in 1..m : txt[i] \in Letter
  BY <1>2
<1>. HIDE DEF txt, m
<1>4. SubSeq(txt, 1, m) \in Seq(Letter)
  BY <1>3, SubSeqProperties
<1>5. Erased(scr, n) = [text |-> SubSeq(txt, 1, m), torn |-> scr.torn \/ n > Len(txt)]
  BY DEF Erased, txt, m
<1>6. (scr.torn \/ n > Len(txt)) \in BOOLEAN
  OBVIOUS
<1>. QED  BY <1>4, <1>5, <1>6 DEF Screen, txt, m

LEMMA ShownIs ==
  ASSUME NEW scr \in Screen, NEW s \in Seq(Letter)
  PROVE  /\ Shown(scr, s) \in Screen
         /\ Shown(scr, s).text = scr.text \o s
         /\ ~Shown(scr, s).torn => ~scr.torn
<1>1. scr.text \o s \in Seq(Letter)
  BY ConcatProperties DEF Screen
<1>2. (scr.torn \/ Del \in ToSet(s)) \in BOOLEAN
  OBVIOUS
<1>. QED  BY <1>1, <1>2 DEF Shown, Screen

LEMMA Replaced ==
  ASSUME NEW scr \in Screen, NEW old \in Seq(Letter), NEW new \in Seq(Letter),
         ~scr.torn => scr.text = old,
         ~Shown(Erased(scr, Len(old)), new).torn
  PROVE  Shown(Erased(scr, Len(old)), new).text = new
<1>0. Len(old) \in Nat
  BY LenProperties
<1>1. PICK wiped \in Screen :
        /\ wiped = Erased(scr, Len(old))
        /\ wiped.text = SubSeq(scr.text, 1, Len(scr.text) - Len(old))
        /\ ~wiped.torn => ~scr.torn
  BY <1>0, ErasedIs
<1>2. ~wiped.torn /\ Shown(wiped, new).text = wiped.text \o new
  BY <1>1, ShownIs
<1>3. wiped.text = SubSeq(old, 1, Len(old) - Len(old))
  BY <1>1, <1>2
<1>4. wiped.text = <<>>
  BY <1>0, <1>3, SubSeqEmpty
<1>. QED  BY <1>1, <1>2, <1>4, ConcatEmptySeq

LEMMA ConsoleInvInit == ConsoleInit => ConsoleInv
<1>. SUFFICES ASSUME ConsoleInit PROVE ConsoleInv
  OBVIOUS
<1>. USE DEF ConsoleInit
<1>1. Indexed
  BY InitIndexed
<1>2. EditorTypeOK /\ Echoed
  BY EmptyLine, BlankIs, EmptySeq DEF EditorTypeOK, Echoed, Places
<1>3. Contents = <<>>
  BY <1>1, FullAndEmpty DEF Init, IsEmpty
<1>4. Kept /\ Browsing
  BY <1>3, RingBufAssumption DEF Kept, Browsing
<1>. QED  BY <1>1, <1>2, <1>4 DEF ConsoleInv

\* Where a step leaves the ring buffer alone, it leaves its queue alone.
LEMMA RingUntouched ==
  ASSUME Indexed, UNCHANGED <<head, tail, slots>>
  PROVE  Indexed' /\ UNCHANGED Contents
BY DEF Indexed, Contents, Used

\* A step that goes back to the prompt keeps the history.
LEMMA PromptKeeps ==
  ASSUME ConsoleInv, Prompt, UNCHANGED <<vars, entered>>, at \in {"key", "command"}
  PROVE  ConsoleInv'
<1>1. Indexed' /\ UNCHANGED Contents
  BY RingUntouched DEF ConsoleInv, vars
<1>2. EditorTypeOK' /\ Echoed'
  BY EmptyLine, BlankIs DEF ConsoleInv, EditorTypeOK, Echoed, Prompt, Places
<1>3. Kept' /\ Browsing'
  BY <1>1, LenProperties DEF ConsoleInv, EditorTypeOK, Kept, Browsing, Prompt
<1>. QED  BY <1>1, <1>2, <1>3 DEF ConsoleInv

LEMMA EnterKeeps ==
  ASSUME ConsoleInv, Enter
  PROVE  ConsoleInv'
<1>1. CASE line = <<>>
  BY <1>1, PromptKeeps DEF Enter
<1>2. CASE line # <<>>
  <2>1. at = "key" /\ at' = "is_full"
        /\ UNCHANGED <<head, tail, slots, line, saved, hist_pos, new_pos, screen, live, entered>>
    BY <1>2 DEF Enter, vars, editor_vars
  <2>2. Indexed' /\ UNCHANGED Contents
    BY <2>1, RingUntouched DEF ConsoleInv
  <2>. QED  BY <2>1, <2>2
            DEF ConsoleInv, EditorTypeOK, Echoed, Kept, Browsing, Places
<1>. QED  BY <1>1, <1>2

\* One deletion on the terminal and in the line.
LEMMA BackspaceKeeps ==
  ASSUME ConsoleInv, Backspace
  PROVE  ConsoleInv'
<1>1. /\ at = "key" /\ at' = "key" /\ line # <<>> /\ line' = Front(line)
      /\ screen' = Erased(screen, 1)
      /\ UNCHANGED <<head, tail, slots, saved, hist_pos, new_pos, entered>>
      /\ live' = IF hist_pos = 0 THEN line' ELSE live
  BY DEF Backspace, vars, Live
<1>2. Indexed' /\ UNCHANGED Contents
  BY <1>1, RingUntouched DEF ConsoleInv
<1>3. line' \in Elem
  <2>1. line \in Seq(Letter) /\ Len(line) < LineMax
    BY LinesAre DEF ConsoleInv, EditorTypeOK
  <2>2. PICK s \in Seq(Letter), c \in Letter : line = Append(s, c)
    BY <1>1, <2>1, SequenceEmptyOrAppend
  <2>3. Len(line) = Len(s) + 1 /\ Len(s) \in Nat
    BY <2>2, AppendProperties, LenProperties
  <2>4. line' = SubSeq(line, 1, Len(s))
    BY <1>1, <2>3 DEF Front
  <2>5. \A i \in 1..Len(s) : line[i] \in Letter
    BY <2>1, <2>3, ElementOfSeq
  <2>6. line' \in Seq(Letter) /\ Len(line') = Len(s)
    <3>. DEFINE n == Len(s)
    <3>1. n \in Int /\ 1 \in Int /\ n - 1 + 1 = n /\ (~(1 <= n) => n = 0)
      BY <2>3
    <3>. HIDE DEF n
    <3>2. /\ SubSeq(line, 1, n) \in Seq(Letter)
          /\ Len(SubSeq(line, 1, n)) = IF 1 <= n THEN n - 1 + 1 ELSE 0
      BY <2>5, <3>1, SubSeqProperties DEF n
    <3>. QED  BY <2>4, <3>1, <3>2 DEF n
  <2>. QED  BY <2>1, <2>3, <2>6, LinesAre, LineMaxIs
<1>4. /\ screen' \in Screen
      /\ screen'.text = SubSeq(screen.text, 1, Len(screen.text) - 1)
      /\ ~screen'.torn => ~screen.torn
  BY <1>1, ErasedIs DEF ConsoleInv, EditorTypeOK
<1>5. EditorTypeOK'
  BY <1>1, <1>3, <1>4 DEF ConsoleInv, EditorTypeOK
<1>6. Echoed'
  BY <1>1, <1>4 DEF ConsoleInv, Echoed, Front
<1>7. Kept' /\ Browsing'
  BY <1>1, <1>2 DEF ConsoleInv, Kept, Browsing
<1>. QED  BY <1>2, <1>5, <1>6, <1>7 DEF ConsoleInv

\* A character is appended to both.
LEMMA TypeKeeps ==
  ASSUME ConsoleInv, NEW c \in Letter, Type(c)
  PROVE  ConsoleInv'
<1>1. /\ at = "key" /\ at' = "key" /\ Len(line) < LineMax - 1
      /\ line' = Append(line, c) /\ screen' = Shown(screen, <<c>>)
      /\ hist_pos' = 0 /\ live' = line'
      /\ UNCHANGED <<head, tail, slots, saved, new_pos, entered>>
  BY DEF Type, vars, Live
<1>2. Indexed' /\ UNCHANGED Contents
  BY <1>1, RingUntouched DEF ConsoleInv
<1>3. line \in Seq(Letter) /\ Len(line) \in Nat
  BY LinesAre, LenProperties DEF ConsoleInv, EditorTypeOK
<1>4. line' \in Seq(Letter) /\ Len(line') = Len(line) + 1 /\ line' = line \o <<c>>
  BY <1>1, <1>3, AppendProperties, AppendIsConcat
<1>5. line' \in Elem
  <2>1. Len(line') < LineMax
    BY <1>1, <1>3, <1>4, LineMaxIs
  <2>. QED  BY <1>4, <2>1, LinesAre
<1>6. /\ screen' \in Screen
      /\ screen'.text = screen.text \o <<c>>
      /\ ~screen'.torn => ~screen.torn
  <2>1. <<c>> \in Seq(Letter) /\ screen \in Screen
    BY DEF ConsoleInv, EditorTypeOK
  <2>. QED  BY <1>1, <2>1, ShownIs
<1>7. EditorTypeOK'
  BY <1>1, <1>5, <1>6 DEF ConsoleInv, EditorTypeOK
<1>8. Echoed'
  BY <1>1, <1>4, <1>6 DEF ConsoleInv, Echoed
<1>9. entered \in Seq(Elem)
  BY DEF ConsoleInv, EditorTypeOK
<1>10. Kept' /\ Browsing'
  BY <1>1, <1>2, <1>9, LenProperties DEF ConsoleInv, Kept, Browsing
<1>. QED  BY <1>2, <1>7, <1>8, <1>10 DEF ConsoleInv

\* The offset of an arrow key is one of the history's.
LEMMA ArrowKeeps ==
  ASSUME ConsoleInv, NEW d \in {1, -1}, Arrow(d)
  PROVE  ConsoleInv' /\ [Next]_vars
<1>1. /\ at = "key" /\ count
      /\ new_pos' = Stepped(d, ret'.value)
      /\ at' = IF new_pos' = hist_pos THEN "key" ELSE "recall"
      /\ UNCHANGED <<head, tail, slots, line, saved, hist_pos, screen, entered, live>>
  BY DEF Arrow, count
<1>2. Indexed' /\ UNCHANGED Contents
  BY <1>1, RingUntouched DEF ConsoleInv
<1>3. ret'.value = Len(entered) /\ Len(entered) \in Nat
  <2>1. ret'.value = Used
    BY <1>1 DEF count, Returns
  <2>2. Used = Len(entered)
    BY <1>1, ContentsIsQueue DEF ConsoleInv, Kept
  <2>. QED  BY <2>1, <2>2, LenProperties DEF ConsoleInv, EditorTypeOK
<1>4. hist_pos \in Nat /\ hist_pos <= Len(entered)
  BY <1>1 DEF ConsoleInv, EditorTypeOK, Browsing
<1>5. new_pos' \in Nat /\ new_pos' <= Len(entered)
  BY <1>1, <1>3, <1>4 DEF Stepped
<1>6. EditorTypeOK'
  BY <1>1, <1>5 DEF ConsoleInv, EditorTypeOK, Places
<1>7. Echoed' /\ Browsing'
  BY <1>1, <1>5 DEF ConsoleInv, Echoed, Browsing
<1>8. Kept'
  BY <1>1, <1>2 DEF ConsoleInv, Kept
<1>9. [Next]_vars
  BY <1>1 DEF Next
<1>. QED  BY <1>2, <1>6, <1>7, <1>8, <1>9 DEF ConsoleInv

\* The lines an arrow key brings: the live one, or that of the history.
LEMMA Recalled ==
  ASSUME ConsoleInv, recall
  PROVE  /\ saved' = live /\ live' = live
         /\ new_pos > 0 => new_pos - 1 \in 0..Capacity /\ peek(new_pos - 1)
         /\ line' = IF new_pos = 0 THEN live ELSE entered[Len(entered) - new_pos + 1]
         /\ line' \in Elem
<1>1. /\ at = "recall" /\ hist_pos' = new_pos
      /\ saved' = IF hist_pos = 0 THEN line ELSE saved
      /\ live' = IF hist_pos' = 0 THEN line' ELSE live
      /\ new_pos = 0 => line' = saved'
  BY DEF recall, SavesLive, Live
<1>2. saved' = live /\ live \in Elem
  BY <1>1 DEF ConsoleInv, Browsing, EditorTypeOK
<1>3. new_pos \in Nat /\ new_pos <= Len(entered) /\ Len(entered) <= Capacity - 1
      /\ Len(entered) \in Nat /\ entered \in Seq(Elem) /\ Contents = entered
  BY <1>1, LenProperties DEF ConsoleInv, Browsing, EditorTypeOK, Kept
<1>4. ASSUME new_pos > 0
      PROVE  /\ new_pos - 1 \in 0..Capacity /\ peek(new_pos - 1)
             /\ line' = entered[Len(entered) - new_pos + 1]
             /\ line' \in Elem
  <2>1. new_pos - 1 \in 0..Capacity /\ new_pos - 1 < Len(entered)
        /\ Len(entered) - (new_pos - 1) = Len(entered) - new_pos + 1
        /\ Len(entered) - new_pos + 1 \in 1..Len(entered)
    BY <1>3, <1>4, RingBufAssumption
  <2>2. peek(new_pos - 1) /\ line' = IF ret'.value = 1 THEN ret'.elem ELSE <<>>
    BY <1>3, <1>4 DEF recall
  <2>3. Indexed /\ Indexed'
    BY <2>2, RingUntouched DEF ConsoleInv, peek
  <2>4. Fifo!peek(new_pos - 1)
    BY <2>1, <2>2, <2>3, CallSimulation
  <2>5. ret' = [value |-> 1, elem |-> entered[Len(entered) - (new_pos - 1)]]
    BY <1>3, <2>1, <2>4 DEF Fifo!peek, Fifo!Returns
  <2>6. line' = entered[Len(entered) - new_pos + 1]
    BY <2>1, <2>2, <2>5
  <2>7. line' \in Elem
    BY <1>3, <2>1, <2>6, ElementOfSeq
  <2>. QED  BY <2>1, <2>2, <2>6, <2>7
<1>. QED  BY <1>1, <1>2, <1>3, <1>4

\* The line that goes is wiped off the terminal and the one that comes shown.
LEMMA RecallKeeps ==
  ASSUME ConsoleInv, recall
  PROVE  ConsoleInv' /\ [Next]_vars
<1>1. /\ at = "recall" /\ at' = "key" /\ hist_pos' = new_pos
      /\ screen' = Shown(Erased(screen, Len(line)), line')
      /\ UNCHANGED <<new_pos, entered>>
      /\ new_pos = 0 => UNCHANGED vars
  BY DEF recall, Cleared
<1>2. UNCHANGED <<head, tail, slots>>
  BY <1>1, Recalled DEF ConsoleInv, EditorTypeOK, vars, peek
<1>3. Indexed' /\ UNCHANGED Contents
  BY <1>2, RingUntouched DEF ConsoleInv
<1>4. /\ line \in Seq(Letter) /\ line' \in Seq(Letter) /\ Len(line) \in Nat
      /\ screen \in Screen
  BY LinesAre, Recalled, LenProperties DEF ConsoleInv, EditorTypeOK
<1>5. EditorTypeOK'
  BY <1>1, <1>4, Recalled, ErasedIs, ShownIs DEF ConsoleInv, EditorTypeOK, Places
<1>6. Echoed'
  <2>1. ~screen.torn => screen.text = line
    BY <1>1 DEF ConsoleInv, Echoed
  <2>. QED  BY <1>1, <1>4, <2>1, Replaced DEF Echoed
<1>7. Kept'
  BY <1>1, <1>3 DEF ConsoleInv, Kept
<1>8. Browsing'
  BY <1>1, Recalled DEF ConsoleInv, EditorTypeOK, Browsing
<1>9. [Next]_vars
  BY <1>1, Recalled DEF ConsoleInv, EditorTypeOK, Next
<1>. QED  BY <1>3, <1>5, <1>6, <1>7, <1>8, <1>9 DEF ConsoleInv

\* history_push(): room is made in a full history, then the line is pushed.
LEMMA IsFullKeeps ==
  ASSUME ConsoleInv, history_is_full
  PROVE  ConsoleInv'
<1>1. /\ at = "is_full" /\ is_full /\ at' = AfterIsFull(ret'.value)
      /\ UNCHANGED <<head, tail, slots, line, saved, hist_pos, new_pos, screen,
                     live, entered>>
  BY DEF history_is_full, is_full, editor_vars
<1>2. Indexed' /\ UNCHANGED Contents
  BY <1>1, RingUntouched DEF ConsoleInv
<1>3. Contents = entered /\ Len(entered) <= Capacity - 1
  BY <1>1 DEF ConsoleInv, Kept
<1>4. at' = IF Len(entered) = Capacity - 1 THEN "drop" ELSE "push"
  <2>1. Fifo!is_full
    BY <1>1, <1>2, CallSimulation DEF ConsoleInv
  <2>. QED  BY <1>1, <1>3, <2>1
            DEF Fifo!is_full, Fifo!Full, Fifo!Returns, AfterIsFull
<1>5. EditorTypeOK' /\ Echoed' /\ Browsing'
  BY <1>1, <1>4 DEF ConsoleInv, EditorTypeOK, Echoed, Browsing, Places
<1>6. Kept'
  BY <1>1, <1>2, <1>3, <1>4 DEF Kept
<1>. QED  BY <1>2, <1>5, <1>6 DEF ConsoleInv

LEMMA DropKeeps ==
  ASSUME ConsoleInv, history_drop
  PROVE  ConsoleInv'
<1>1. /\ at = "drop" /\ pop /\ at' = "push"
      /\ UNCHANGED <<line, saved, hist_pos, new_pos, screen, live, entered>>
  BY DEF history_drop, editor_vars
<1>2. Indexed'
  BY <1>1, NextIndexed DEF ConsoleInv, Next
<1>3. Contents = entered /\ Len(entered) = Capacity - 1
  BY <1>1 DEF ConsoleInv, Kept
<1>4. Contents' = Oldest(entered)
  BY <1>1, <1>2, <1>3, CallSimulation
  DEF ConsoleInv, Fifo!pop, Fifo!Empty, Oldest
<1>5. EditorTypeOK' /\ Echoed' /\ Browsing'
  BY <1>1 DEF ConsoleInv, EditorTypeOK, Echoed, Browsing, Places
<1>6. Kept'
  BY <1>1, <1>3, <1>4, RingBufAssumption DEF Kept
<1>. QED  BY <1>2, <1>5, <1>6 DEF ConsoleInv

LEMMA PushKeeps ==
  ASSUME ConsoleInv, history_push
  PROVE  ConsoleInv'
<1>. DEFINE all == Append(entered, line)
<1>1. /\ at = "push" /\ push(line) /\ at' = "command"
      /\ entered' = IF Len(all) < Capacity THEN all ELSE Tail(all)
      /\ UNCHANGED <<line, saved, hist_pos, new_pos, screen, live>>
  BY DEF history_push, editor_vars
<1>2. line \in Elem /\ entered \in Seq(Elem) /\ Len(entered) \in Nat
      /\ Len(entered) <= Capacity - 1
  BY LenProperties DEF ConsoleInv, EditorTypeOK, Kept
<1>3. Indexed'
  BY <1>1, <1>2, NextIndexed DEF ConsoleInv, Next
<1>4. Fifo!push(line)
  BY <1>1, <1>2, <1>3, CallSimulation DEF ConsoleInv
<1>5. /\ all \in Seq(Elem) /\ Len(all) = Len(entered) + 1 /\ all # <<>>
      /\ Tail(all) = IF entered = <<>> THEN <<>> ELSE Append(Tail(entered), line)
  BY <1>2, AppendProperties, HeadTailAppend
<1>. HIDE DEF all
<1>6. entered' \in Seq(Elem) /\ Len(entered') <= Capacity - 1 /\ Contents' = entered'
  <2>1. CASE Len(entered) < Capacity - 1
    <3>1. Contents = entered
      BY <1>1, <2>1 DEF ConsoleInv, Kept
    <3>2. entered' = all /\ Len(all) <= Capacity - 1
      BY <1>1, <1>2, <1>5, <2>1, RingBufAssumption
    <3>3. Contents' = all
      BY <1>4, <2>1, <3>1, <1>2, RingBufAssumption DEF Fifo!push, Fifo!Full, all
    <3>. QED  BY <1>5, <3>2, <3>3
  <2>2. CASE Len(entered) = Capacity - 1
    <3>1. Contents = Oldest(entered)
      BY <1>1, <2>2 DEF ConsoleInv, Kept
    <3>2. entered' = Tail(all) /\ Tail(all) \in Seq(Elem)
          /\ Len(Tail(all)) = Capacity - 1
      BY <1>1, <1>2, <1>5, <2>2, HeadTailProperties, RingBufAssumption
    <3>3. CASE entered = <<>>
      <4>1. Contents = <<>> /\ Len(<<>>) = Capacity - 1
        BY <2>2, <3>1, <3>3 DEF Oldest
      <4>2. Contents' = <<>>
        BY <1>4, <4>1 DEF Fifo!push, Fifo!Full
      <4>. QED  BY <1>5, <3>2, <3>3, <4>2, RingBufAssumption
    <3>4. CASE entered # <<>>
      <4>1. Contents = Tail(entered) /\ Len(Tail(entered)) = Capacity - 2
        BY <1>2, <2>2, <3>1, <3>4, HeadTailProperties, RingBufAssumption DEF Oldest
      <4>2. Capacity - 2 # Capacity - 1
        BY RingBufAssumption
      <4>3. Contents' = Append(Tail(entered), line)
        BY <1>4, <4>1, <4>2 DEF Fifo!push, Fifo!Full
      <4>. QED  BY <1>5, <3>2, <3>4, <4>3, RingBufAssumption
    <3>. QED  BY <3>3, <3>4
  <2>. QED  BY <1>2, <2>1, <2>2, RingBufAssumption
<1>7. EditorTypeOK' /\ Echoed' /\ Browsing'
  BY <1>1, <1>6 DEF ConsoleInv, EditorTypeOK, Echoed, Browsing, Places
<1>8. Kept'
  BY <1>1, <1>6 DEF Kept
<1>. QED  BY <1>3, <1>7, <1>8 DEF ConsoleInv

LEMMA ConsoleStep ==
  ConsoleInv /\ [ConsoleNext]_<<vars, console_vars>> => ConsoleInv' /\ [Next]_vars
<1>. SUFFICES ASSUME ConsoleInv, [ConsoleNext]_<<vars, console_vars>>
              PROVE  ConsoleInv' /\ [Next]_vars
  OBVIOUS
<1>1. CASE Enter
  BY <1>1, EnterKeeps DEF Enter
<1>2. CASE Backspace
  BY <1>2, BackspaceKeeps DEF Backspace
<1>3. ASSUME NEW c \in Char \cup {Del}, Type(c)
      PROVE  ConsoleInv' /\ [Next]_vars
  BY <1>3, TypeKeeps DEF Type, Letter
<1>4. ASSUME NEW d \in {1, -1}, Arrow(d)
      PROVE  ConsoleInv' /\ [Next]_vars
  BY <1>4, ArrowKeeps
<1>5. CASE recall
  BY <1>5, RecallKeeps
<1>6. CASE history_is_full
  BY <1>6, IsFullKeeps DEF history_is_full, Next
<1>7. CASE history_drop
  BY <1>7, DropKeeps DEF history_drop, Next
<1>8. CASE history_push
  BY <1>8, PushKeeps DEF history_push, Next, ConsoleInv, EditorTypeOK
<1>9. CASE cmd_cd \/ other_command
  BY <1>9, PromptKeeps DEF cmd_cd, other_command
<1>10. CASE UNCHANGED <<vars, console_vars>>
  <2>1. UNCHANGED <<head, tail, slots, at, line, saved, hist_pos, new_pos, screen,
                    live, entered>>
    BY <1>10 DEF vars, console_vars, editor_vars
  <2>2. Indexed' /\ UNCHANGED Contents
    BY <2>1, RingUntouched DEF ConsoleInv
  <2>3. ConsoleInv'
    BY <2>1, <2>2 DEF ConsoleInv, EditorTypeOK, Echoed, Kept, Browsing
  <2>. QED  BY <1>10, <2>3
<1>. QED
  BY <1>1, <1>2, <1>3, <1>4, <1>5, <1>6, <1>7, <1>8, <1>9, <1>10 DEF ConsoleNext

THEOREM ConsoleInvariance == ConsoleSpec => []ConsoleInv
BY ConsoleInvInit, ConsoleStep, PTL DEF ConsoleSpec

\* The user sees the line that Enter will execute.
THEOREM EchoTrue == ConsoleSpec => []EchoIsLine
<1>1. ConsoleInv => EchoIsLine
  BY DEF ConsoleInv, Echoed, EchoIsLine
<1>. QED  BY <1>1, ConsoleInvariance, PTL

\* The history is a bounded queue under everything the console does with it.
THEOREM HistoryIsFifo == ConsoleSpec => RefinesFifo
<1>1. ConsoleInit => Init
  BY DEF ConsoleInit
<1>2. ConsoleSpec => Spec
  BY <1>1, ConsoleInvInit, ConsoleStep, PTL DEF ConsoleSpec, Spec
<1>. QED  BY <1>2, Refinement, PTL

\* The n-th Up brings the n-th last line entered, and Down to offset 0 the input
\* as it was when browsing started.
THEOREM RecallsEntered == ConsoleSpec => HistoryRecalls
<1>1. ConsoleInv /\ [ConsoleNext]_<<vars, console_vars>> =>
        [at = "recall" =>
           line' = IF hist_pos' = 0 THEN live
                   ELSE entered[Len(entered) - hist_pos' + 1]]_<<vars, console_vars>>
  <2>. SUFFICES ASSUME ConsoleInv, ConsoleNext, at = "recall"
                PROVE  line' = IF hist_pos' = 0 THEN live
                               ELSE entered[Len(entered) - hist_pos' + 1]
    OBVIOUS
  <2>1. recall
    BY DEF ConsoleNext, Enter, Backspace, Type, Arrow, history_is_full,
           history_drop, history_push, cmd_cd, other_command
  <2>2. hist_pos' = new_pos
    BY <2>1 DEF recall
  <2>. QED  BY <2>1, <2>2, Recalled
<1>. QED  BY <1>1, ConsoleInvariance, PTL DEF ConsoleSpec, HistoryRecalls

-----------------------------------------------------------------------------
(* The path.  FlattenSeq() is a recursive function: that it appends what   *)
(* is appended to its argument is proved by induction on the length.       *)

LEMMA MinimalElement ==
  ASSUME NEW R, NEW N, IsWellFoundedOn(R, N), NEW S, S \subseteq N, S # {}
  PROVE  \E m \in S : \A n \in S : <<n, m>> \notin R
BY WFMin

\* A set of naturals that is not empty has a least element.
LEMMA LeastNumber ==
  ASSUME NEW S, S \subseteq Nat, S # {}
  PROVE  \E m \in S : \A n \in S : m <= n
<1>1. PICK R : /\ IsWellFoundedOn(R, Nat)
               /\ \A x, y \in Nat : x < y => <<x, y>> \in R
  <2>1. IsWellFoundedOn(OpToRel(<, Nat), Nat)
    BY NatLessThanWellFounded, Zenon
  <2>2. \A x, y \in Nat : x < y => <<x, y>> \in OpToRel(<, Nat)
    BY SMT DEF OpToRel
  <2>. QED  BY <2>1, <2>2, Zenon
<1>2. IsWellFoundedOn(R, Nat)
  BY <1>1
<1>3. PICK m \in S : \A n \in S : <<n, m>> \notin R
  BY <1>2, MinimalElement
<1>4. ASSUME NEW n \in S
      PROVE  m <= n
  <2>1. m \in Nat /\ n \in Nat
    OBVIOUS
  <2>2. ~ (n < m)
    BY <1>1, <1>3, <2>1, Zenon
  <2>. QED  BY <2>1, <2>2
<1>. QED  BY <1>4

\* What holds at 0 and is kept by one step up to n holds up to n.
LEMMA UpTo ==
  ASSUME NEW n \in Nat, NEW S, 0 \in S,
         \A i \in 1..n : i-1 \in S => i \in S
  PROVE  0..n \subseteq S
<1>. SUFFICES ASSUME ~ (0..n \subseteq S)
              PROVE  FALSE
  OBVIOUS
<1>. DEFINE Bad == (0..n) \ S
<1>0. Bad \subseteq Nat /\ Bad # {}
  OBVIOUS
<1>1. PICK m \in Bad : \A k \in Bad : m <= k
  <2>. HIDE DEF Bad
  <2>. QED  BY <1>0, LeastNumber
<1>2. m \in 1..n /\ m-1 \in 0..n
  BY <1>1
<1>3. m-1 \in S
  BY <1>1, <1>2
<1>. QED  BY <1>1, <1>2, <1>3

\* f[i] is the first i sequences of s in a row.
IsFlat(f, s, V) ==
  /\ f \in [1..Len(s) -> Seq(V)]
  /\ \A i \in 1..Len(s) : f[i] = IF i = 1 THEN s[i] ELSE f[i-1] \o s[i]

LEMMA FlatExists ==
  ASSUME NEW V, NEW s \in Seq(Seq(V))
  PROVE  \E f : IsFlat(f, s, V)
<1>. DEFINE n == Len(s)
            Ok(f, m) == \A i \in 1..m : f[i] = IF i = 1 THEN s[i] ELSE f[i-1] \o s[i]
            S == {m \in 0..n : \E f \in [1..n -> Seq(V)] : Ok(f, m)}
<1>0. n \in Nat /\ \A i \in 1..n : s[i] \in Seq(V)
  BY LenProperties, ElementOfSeq
<1>1. 0 \in S
  <2>. DEFINE g == [i \in 1..n |-> <<>>]
  <2>1. g \in [1..n -> Seq(V)]
    BY EmptySeq
  <2>2. \A i \in 1..0 : FALSE
    OBVIOUS
  <2>3. Ok(g, 0)
    BY <2>2
  <2>. HIDE DEF g, Ok, n
  <2>. QED  BY <1>0, <2>1, <2>3
<1>2. ASSUME NEW m \in 1..n, m-1 \in S
      PROVE  m \in S
  <2>1. PICK f \in [1..n -> Seq(V)] : Ok(f, m-1)
    BY <1>2
  <2>. DEFINE v == IF m = 1 THEN s[m] ELSE f[m-1] \o s[m]
              g == [f EXCEPT ![m] = v]
  <2>2. v \in Seq(V)
    <3>1. CASE m = 1
      BY <1>0, <3>1
    <3>2. CASE m # 1
      <4>1. m-1 \in 1..n
        BY <1>0, <3>2
      <4>. QED  BY <1>0, <3>2, <4>1, ConcatProperties
    <3>. QED  BY <3>1, <3>2
  <2>3. g \in [1..n -> Seq(V)] /\ g[m] = v /\ \A i \in 1..m-1 : g[i] = f[i]
    <3>. HIDE DEF v, Ok, S
    <3>. QED  BY <1>0, <2>2
  <2>4. ASSUME NEW i \in 1..m
        PROVE  g[i] = IF i = 1 THEN s[i] ELSE g[i-1] \o s[i]
    <3>. HIDE DEF g, S, n
    <3>1. CASE i = m
      <4>1. m # 1 => m-1 \in 1..m-1
        BY <1>0
      <4>. QED  BY <2>3, <3>1, <4>1
    <3>2. CASE i # m
      <4>1. i \in 1..m-1 /\ (i # 1 => i-1 \in 1..m-1)
        BY <1>0, <3>2
      <4>. QED  BY <2>1, <2>3, <4>1
    <3>. QED  BY <3>1, <3>2
  <2>. HIDE DEF g
  <2>5. Ok(g, m)
    BY <2>4
  <2>. HIDE DEF Ok, n
  <2>6. m \in 0..n
    BY <1>0
  <2>. QED  BY <2>3, <2>5, <2>6
<1>3. n \in S
  <2>. HIDE DEF S, n
  <2>1. \A m \in 1..n : m-1 \in S => m \in S
    BY <1>2
  <2>2. 0..n \subseteq S
    BY ONLY <1>0, <1>1, <2>1, UpTo
  <2>. QED  BY <1>0, <2>2
<1>. QED  BY <1>3 DEF IsFlat

LEMMA FlattenIs ==
  ASSUME NEW V, NEW s \in Seq(Seq(V)), s # <<>>
  PROVE  \E f : IsFlat(f, s, V) /\ FlattenSeq(s) = f[Len(s)]
<1>. DEFINE Loop(f) == [i \in 1..Len(s) |->
                          IF i = 1 THEN s[i] ELSE f[i-1] \o s[i]]
            flatten == CHOOSE f : f = Loop(f)
<1>0. Len(s) \in Nat \ {0} /\ \A i \in 1..Len(s) : s[i] \in Seq(V)
  BY EmptySeq, ElementOfSeq
<1>1. \E f : f = Loop(f)
  <2>1. PICK f : IsFlat(f, s, V)
    BY FlatExists
  <2>2. f = Loop(f)
    BY <2>1 DEF IsFlat
  <2>. QED  BY <2>2
<1>2. flatten = Loop(flatten)
  <2>. HIDE DEF Loop
  <2>. QED  BY <1>1
<1>3. FlattenSeq(s) = flatten[Len(s)]
  BY <1>0, Zenon DEF FlattenSeq
<1>. HIDE DEF flatten
<1>4. /\ flatten = [i \in 1..Len(s) |-> flatten[i]]
      /\ \A i \in 1..Len(s) :
           flatten[i] = IF i = 1 THEN s[i] ELSE flatten[i-1] \o s[i]
  BY <1>2
<1>5. \A i \in 1..Len(s) : flatten[i] \in Seq(V)
  <2>. DEFINE S == {m \in 0..Len(s) : m = 0 \/ flatten[m] \in Seq(V)}
  <2>1. 0 \in S
    BY <1>0
  <2>2. ASSUME NEW m \in 1..Len(s), m-1 \in S
        PROVE  m \in S
    <3>1. CASE m = 1
      <4>1. m \in 0..Len(s)
        BY <1>0
      <4>2. flatten[m] = s[m] /\ s[m] \in Seq(V)
        BY <1>0, <1>4, <3>1, Zenon
      <4>. QED  BY <4>1, <4>2
    <3>2. CASE m # 1
      <4>1. m-1 # 0 /\ m \in 0..Len(s)
        BY <1>0, <3>2
      <4>2. flatten[m] = flatten[m-1] \o s[m] /\ flatten[m-1] \in Seq(V)
            /\ s[m] \in Seq(V)
        BY <1>0, <1>4, <2>2, <3>2, <4>1
      <4>. QED  BY <4>1, <4>2, ConcatProperties
    <3>. QED  BY <3>1, <3>2
  <2>. DEFINE n == Len(s)
  <2>. HIDE DEF S
  <2>3. n \in Nat /\ \A m \in 1..n : m-1 \in S => m \in S
    BY <1>0, <2>2
  <2>. HIDE DEF n
  <2>4. 0..n \subseteq S
    BY ONLY <2>1, <2>3, UpTo
  <2>5. \A i \in 1..n : i # 0 /\ i \in S
    BY <2>3, <2>4
  <2>6. \A i \in S : i # 0 => flatten[i] \in Seq(V)
    BY DEF S
  <2>. QED  BY <2>5, <2>6 DEF n
<1>6. flatten \in [1..Len(s) -> Seq(V)]
  BY <1>4, <1>5
<1>. QED  BY <1>3, <1>4, <1>6 DEF IsFlat

LEMMA FlattenAppends ==
  ASSUME NEW V, NEW s \in Seq(Seq(V)), NEW e \in Seq(V)
  PROVE  /\ FlattenSeq(Append(s, e)) = IF s = <<>> THEN e ELSE FlattenSeq(s) \o e
         /\ s # <<>> => FlattenSeq(s) \in Seq(V)
<1>. DEFINE t == Append(s, e)
            n == Len(s)
<1>1. /\ t \in Seq(Seq(V)) /\ t # <<>> /\ Len(t) = n + 1
      /\ \A i \in 1..n : t[i] = s[i]
      /\ t[n+1] = e
  BY AppendProperties
<1>2. n \in Nat /\ (s = <<>> <=> n = 0)
  BY EmptySeq, LenProperties
<1>. HIDE DEF t, n
<1>3. PICK g : IsFlat(g, t, V) /\ FlattenSeq(t) = g[n+1]
  BY <1>1, FlattenIs
<1>4. CASE s = <<>>
  <2>1. n + 1 = 1 /\ 1 \in 1..Len(t)
    BY <1>1, <1>2, <1>4
  <2>2. g[1] = t[1] /\ t[1] = e
    BY <1>1, <1>3, <2>1 DEF IsFlat
  <2>. QED  BY <1>3, <1>4, <2>1, <2>2 DEF t
<1>5. CASE s # <<>>
  <2>1. PICK f : IsFlat(f, s, V) /\ FlattenSeq(s) = f[n]
    BY <1>5, FlattenIs DEF n
  <2>. DEFINE S == {m \in 0..n : m = 0 \/ f[m] = g[m]}
  <2>2. 0 \in S
    BY <1>2
  <2>3. ASSUME NEW m \in 1..n, m-1 \in S
        PROVE  m \in S
    <3>1. m \in 1..Len(s) /\ m \in 1..Len(t) /\ s[m] = t[m] /\ m \in 0..n
      BY <1>1, <1>2 DEF n
    <3>2. /\ f[m] = IF m = 1 THEN s[m] ELSE f[m-1] \o s[m]
          /\ g[m] = IF m = 1 THEN t[m] ELSE g[m-1] \o t[m]
      BY <1>3, <2>1, <3>1 DEF IsFlat
    <3>3. m # 1 => m-1 # 0
      BY <1>2
    <3>. QED  BY <2>3, <3>1, <3>2, <3>3
  <2>. HIDE DEF S
  <2>4. n \in Nat /\ \A m \in 1..n : m-1 \in S => m \in S
    BY <1>2, <2>3
  <2>5. 0..n \subseteq S
    BY ONLY <2>2, <2>4, UpTo
  <2>6. f[n] = g[n] /\ n # 0 /\ n \in 1..n
    BY <1>2, <1>5, <2>5 DEF S
  <2>7. g[n+1] = g[n] \o t[n+1]
    <3>1. n + 1 # 1 /\ n + 1 - 1 = n /\ n + 1 \in 1..n+1
      BY <1>2, <2>6
    <3>2. n + 1 \in 1..Len(t)
      BY <1>1, <3>1
    <3>3. \A i \in 1..Len(t) : i # 1 => g[i] = g[i-1] \o t[i]
      BY <1>3 DEF IsFlat
    <3>4. \A i \in 1..Len(t) : i = n + 1 => g[i] = g[n] \o t[i]
      <4>1. \A i \in 1..Len(t) : i = n + 1 => i # 1 /\ i - 1 = n
        BY <1>2, <3>1
      <4>. QED  BY <3>3, <4>1
    <3>. QED  BY <3>2, <3>4
  <2>8. f[n] \in Seq(V)
    BY <2>1, <2>6 DEF IsFlat, n
  <2>. QED  BY <1>1, <1>3, <1>5, <2>1, <2>6, <2>7, <2>8 DEF t
<1>. QED  BY <1>4, <1>5

\* The path of a directory, by the path of the one above it.
Glyph == Char \cup {"/"}
Component(n) == <<"/">> \o n
Components(dirs) == [i \in 1..Len(dirs) |-> Component(dirs[i])]

LEMMA NameIs ==
  ASSUME NEW n \in Name
  PROVE  /\ n \in Seq(Char) /\ n \in Seq(Glyph) /\ Len(n) \in Nat \ {0}
         /\ \A i \in 1..Len(n) : n[i] # "/"
         /\ Component(n) \in Seq(Glyph) /\ Len(Component(n)) = Len(n) + 1
         /\ \A i \in 1..Len(n)+1 :
              Component(n)[i] = IF i = 1 THEN "/" ELSE n[i-1]
<1>1. n \in Seq(Char) /\ n # <<>> /\ "/" \notin Char
  BY ConsoleAssumption
<1>2. Len(n) \in Nat \ {0} /\ \A i \in 1..Len(n) : n[i] # "/"
  BY <1>1, EmptySeq, ElementOfSeq
<1>3. n \in Seq(Glyph)
  BY <1>1, SeqMonotonic DEF Glyph
<1>4. <<"/">> \in Seq(Glyph) /\ Len(<<"/">>) = 1 /\ <<"/">>[1] = "/"
  BY DEF Glyph
<1>. DEFINE slash == <<"/">>
<1>. HIDE DEF slash
<1>5. /\ slash \o n \in Seq(Glyph) /\ Len(slash \o n) = Len(slash) + Len(n)
      /\ \A i \in 1..Len(slash)+Len(n) :
           (slash \o n)[i] = IF i <= Len(slash) THEN slash[i] ELSE n[i - Len(slash)]
  BY <1>3, <1>4, ConcatProperties DEF slash
<1>6. Len(slash) = 1 /\ slash[1] = "/"
  BY <1>4 DEF slash
<1>7. /\ Len(slash \o n) = Len(n) + 1
      /\ \A i \in 1..Len(n)+1 : (slash \o n)[i] = IF i = 1 THEN "/" ELSE n[i-1]
  BY <1>2, <1>5, <1>6
<1>. QED  BY <1>1, <1>2, <1>3, <1>5, <1>7 DEF Component, slash

LEMMA PathAppends ==
  ASSUME NEW dirs \in Seq(Name), NEW n \in Name
  PROVE  /\ PathOf(Append(dirs, n)) =
              IF dirs = <<>> THEN Component(n) ELSE PathOf(dirs) \o Component(n)
         /\ PathOf(dirs) \in Seq(Glyph)
<1>. DEFINE s == Components(dirs)
            t == Components(Append(dirs, n))
            e == Component(n)
<1>0. Len(dirs) \in Nat /\ \A i \in 1..Len(dirs) : dirs[i] \in Name
  BY LenProperties, ElementOfSeq
<1>1. s \in Seq(Seq(Glyph)) /\ Len(s) = Len(dirs)
  <2>1. \A i \in 1..Len(dirs) : Component(dirs[i]) \in Seq(Glyph)
    BY <1>0, NameIs
  <2>. QED  BY <1>0, <2>1 DEF Components
<1>2. s = <<>> <=> dirs = <<>>
  BY <1>1, <1>0, EmptySeq
<1>3. e \in Seq(Glyph)
  BY NameIs
<1>4. /\ Append(dirs, n) # <<>> /\ Len(Append(dirs, n)) = Len(dirs) + 1
      /\ \A i \in 1..Len(dirs) : Append(dirs, n)[i] = dirs[i]
      /\ Append(dirs, n)[Len(dirs)+1] = n
  BY AppendProperties
<1>5. t = Append(s, e)
  <2>. DEFINE k == Len(dirs)
  <2>1. /\ Append(s, e) \in Seq(Seq(Glyph)) /\ Len(Append(s, e)) = k + 1
        /\ \A i \in 1..k : Append(s, e)[i] = s[i]
        /\ Append(s, e)[k+1] = e
    BY <1>1, <1>3, AppendProperties
  <2>2. \A i \in 1..k : s[i] = Component(dirs[i])
    BY DEF Components
  <2>3. t = [i \in 1..k+1 |-> Component(Append(dirs, n)[i])]
    BY <1>4 DEF Components
  <2>. HIDE DEF s, e, t, k
  <2>4. \A i \in 1..k+1 : Component(Append(dirs, n)[i]) = Append(s, e)[i]
    <3>1. \A i \in 1..k : Append(dirs, n)[i] = dirs[i]
      BY <1>4 DEF k
    <3>2. Component(Append(dirs, n)[k+1]) = Append(s, e)[k+1]
      BY <1>4, <2>1 DEF k, e
    <3>3. \A i \in 1..k : Component(Append(dirs, n)[i]) = Append(s, e)[i]
      BY <2>1, <2>2, <3>1
    <3>4. \A i \in 1..k+1 : i \in 1..k \/ i = k+1
      BY <1>0 DEF k
    <3>. QED  BY <3>2, <3>3, <3>4
  <2>5. t = [i \in 1..k+1 |-> Append(s, e)[i]]
    BY <2>3, <2>4
  <2>6. Append(s, e) = [i \in 1..k+1 |-> Append(s, e)[i]]
    BY <2>1, LenProperties
  <2>. QED  BY <2>5, <2>6
<1>6. /\ PathOf(Append(dirs, n)) = FlattenSeq(t)
      /\ PathOf(dirs) = IF dirs = <<>> THEN <<"/">> ELSE FlattenSeq(s)
  BY <1>4, Zenon DEF PathOf, Components, Component
<1>7. <<"/">> \in Seq(Glyph)
  BY DEF Glyph
<1>. HIDE DEF s, t, e
<1>8. /\ FlattenSeq(Append(s, e)) = IF s = <<>> THEN e ELSE FlattenSeq(s) \o e
      /\ s # <<>> => FlattenSeq(s) \in Seq(Glyph)
  BY <1>1, <1>3, FlattenAppends
<1>9. PathOf(dirs) \in Seq(Glyph)
  BY <1>2, <1>6, <1>7, <1>8
<1>10. PathOf(Append(dirs, n)) = IF dirs = <<>> THEN e ELSE PathOf(dirs) \o e
  BY <1>2, <1>5, <1>6, <1>8
<1>. QED  BY <1>9, <1>10 DEF e

LEMMA FrontOfAppend ==
  ASSUME NEW S, NEW s \in Seq(S), NEW e \in S
  PROVE  Front(Append(s, e)) = s
<1>1. Len(s) \in Nat /\ <<e>> \in Seq(S) /\ Len(Append(s, e)) = Len(s) + 1
  BY LenProperties, AppendProperties
<1>2. Front(Append(s, e)) = SubSeq(Append(s, e), 1, Len(s))
  BY <1>1 DEF Front
<1>3. SubSeq(Append(s, e), 1, Len(s)) = s
  BY <1>1
<1>. QED  BY <1>2, <1>3

LEMMA MaxIs ==
  ASSUME NEW I, I \subseteq Nat, NEW m \in I, \A i \in I : m >= i
  PROVE  Max(I) = m
<1>1. m \in I /\ \A y \in I : m >= y
  OBVIOUS
<1>2. \A x \in I : (\A y \in I : x >= y) => x = m
  BY <1>1
<1>. QED  BY ONLY <1>1, <1>2, Zenon DEF Max

LEMMA ConcatThree ==
  \A s, t, u \in Seq(Glyph) : (s \o t) \o u = s \o (t \o u)
BY ConcatAssociative

LEMMA RootPath == PathOf(<<>>) = <<"/">> /\ Len(<<"/">>) = 1 /\ <<"/">>[1] = "/"
BY DEF PathOf

\* A path ends in a letter but for the root's, and its last slash is where its
\* last component begins.
LEMMA LastComponent ==
  ASSUME NEW p \in Seq(Glyph), NEW n \in Name
  PROVE  LET path == p \o Component(n)
         IN  /\ path \in Seq(Glyph) /\ Len(path) = Len(p) + 1 + Len(n)
             /\ Last(path) # "/"
             /\ LastSlash(path) = Len(p) + 1
             /\ SubSeq(path, 1, Len(p)) = p
             /\ path[1] = IF p = <<>> THEN "/" ELSE p[1]
<1>. DEFINE path == p \o Component(n)
            k == Len(p)
            c == Component(n)
<1>1. /\ k \in Nat /\ Len(n) \in Nat \ {0} /\ c \in Seq(Glyph) /\ Len(c) = Len(n) + 1
      /\ \A i \in 1..Len(n)+1 : c[i] = IF i = 1 THEN "/" ELSE n[i-1]
      /\ \A i \in 1..Len(n) : n[i] # "/"
  BY NameIs, LenProperties
<1>2. /\ path \in Seq(Glyph) /\ Len(path) = k + Len(c)
      /\ \A i \in 1..k+Len(c) : path[i] = IF i <= k THEN p[i] ELSE c[i-k]
  BY <1>1, ConcatProperties
<1>3. Len(path) = k + 1 + Len(n)
  BY <1>1, <1>2
<1>. HIDE DEF path, k, c
<1>4. path[k+1] = "/" /\ \A i \in k+2..Len(path) : path[i] # "/"
  <2>1. k+1 \in 1..k+Len(c) /\ ~(k+1 <= k) /\ k+1-k = 1 /\ 1 \in 1..Len(n)+1
    BY <1>1
  <2>2. path[k+1] = c[1] /\ c[1] = "/"
    <3>0. \A i \in 1..k+Len(c) : ~(i <= k) => path[i] = c[i-k]
      BY <1>2
    <3>1. path[k+1] = c[1]
      <4>1. \A i \in 1..k+Len(c) : i = k+1 => ~(i <= k) /\ i-k = 1
        BY <1>1
      <4>. QED  BY <2>1, <3>0, <4>1
    <3>2. c[1] = "/"
      BY <1>1, <2>1
    <3>. QED  BY <3>1, <3>2
  <2>3. ASSUME NEW i \in k+2..Len(path)
        PROVE  path[i] # "/"
    <3>1. /\ i \in 1..k+Len(c) /\ ~(i <= k) /\ i-k \in 1..Len(n)+1 /\ i-k # 1
          /\ i-k-1 \in 1..Len(n)
      BY <1>1, <1>3
    <3>2. path[i] = c[i-k]
      BY <1>2, <3>1
    <3>3. c[i-k] = n[i-k-1]
      BY <1>1, <3>1
    <3>. QED  BY <1>1, <3>1, <3>2, <3>3
  <2>. QED  BY <2>2, <2>3
<1>5. LastSlash(path) = k + 1
  <2>. DEFINE I == {i \in 1..Len(path) : path[i] = "/"}
  <2>1. k+1 \in I /\ \A i \in I : k+1 >= i
    BY <1>1, <1>3, <1>4
  <2>2. I \subseteq Nat
    OBVIOUS
  <2>3. LastSlash(path) = IF I # {} THEN Max(I) ELSE 0
    BY Zenon DEF LastSlash, SelectLastInSeq
  <2>. HIDE DEF I
  <2>4. Max(I) = k+1
    BY <2>1, <2>2, MaxIs
  <2>. QED  BY <2>1, <2>3, <2>4
<1>6. Last(path) # "/"
  <2>1. Len(path) \in k+2..Len(path)
    BY <1>1, <1>3
  <2>. QED  BY <1>4, <2>1 DEF Last
<1>7. SubSeq(path, 1, k) = p
  <2>1. \A i \in 1..k : path[i] = p[i] /\ p[i] \in Glyph /\ 1+i-1 = i
    <3>1. \A i \in 1..k : i \in 1..k+Len(c) /\ i <= k /\ 1+i-1 = i
      BY <1>1
    <3>2. \A i \in 1..k : p[i] \in Glyph
      BY ElementOfSeq DEF k
    <3>. QED  BY <1>2, <3>1, <3>2
  <2>2. 1 \in Int /\ k \in Int /\ k-1+1 = k /\ (~(1 <= k) => k = 0)
        /\ \A i \in 1..k : path[i] \in Glyph
    BY <1>1, <2>1
  <2>3. /\ SubSeq(path, 1, k) \in Seq(Glyph)
        /\ Len(SubSeq(path, 1, k)) = IF 1 <= k THEN k-1+1 ELSE 0
        /\ \A i \in 1..k-1+1 : SubSeq(path, 1, k)[i] = path[1+i-1]
    BY <2>2, SubSeqProperties
  <2>4. Len(SubSeq(path, 1, k)) = Len(p)
    BY <2>2, <2>3 DEF k
  <2>5. \A i \in 1..Len(SubSeq(path, 1, k)) : SubSeq(path, 1, k)[i] = p[i]
    BY <2>1, <2>2, <2>3, <2>4 DEF k
  <2>. QED  BY <2>3, <2>4, <2>5, SeqEqual
<1>8. path[1] = IF p = <<>> THEN "/" ELSE p[1]
  <2>1. CASE p = <<>>
    <3>1. k + 1 = 1
      BY <2>1, EmptySeq DEF k
    <3>. QED  BY <1>4, <2>1, <3>1
  <2>2. CASE p # <<>>
    <3>1. 1 \in 1..k+Len(c) /\ 1 <= k
      BY <1>1, <2>2, EmptySeq DEF k
    <3>. QED  BY <1>2, <2>2, <3>1
  <2>. QED  BY <2>1, <2>2
<1>. QED  BY <1>2, <1>3, <1>5, <1>6, <1>7, <1>8 DEF path, k, c

LEMMA ExtendedIs ==
  ASSUME NEW dirs \in Seq(Name), NEW n \in Name,
         Len(PathOf(Append(dirs, n))) <= PathMax
  PROVE  Extended(PathOf(dirs), n) = PathOf(Append(dirs, n))
<1>. DEFINE path == PathOf(dirs)
<1>0. /\ path \in Seq(Glyph) /\ Len(path) \in Nat
      /\ n \in Seq(Glyph) /\ Len(n) \in Nat \ {0} /\ PathMax \in Nat
  BY PathAppends, NameIs, LenProperties, ConsoleAssumption
<1>1. ASSUME NEW slashed \in Seq(Glyph), slashed \o n = PathOf(Append(dirs, n)),
             slashed = IF Last(path) # "/" /\ Len(path) < PathMax
                       THEN Append(path, "/") ELSE path
      PROVE  Extended(path, n) = PathOf(Append(dirs, n))
  <2>. DEFINE room == PathMax - Len(slashed)
              m == IF Len(n) < room THEN Len(n) ELSE room
  <2>1. Len(slashed) + Len(n) <= PathMax /\ Len(slashed) \in Nat
    BY <1>0, <1>1, ConcatProperties, LenProperties
  <2>2. m = Len(n)
    <3>1. Len(n) \in Nat /\ PathMax \in Nat
      BY <1>0
    <3>. QED  BY ONLY <2>1, <3>1
  <2>. HIDE DEF path, m
  <2>3. Extended(path, n) = slashed \o SubSeq(n, 1, m)
    BY <1>1, Zenon DEF Extended, m
  <2>4. SubSeq(n, 1, Len(n)) = n
    BY <1>0, SubSeqFull
  <2>. QED  BY <1>1, <2>2, <2>3, <2>4
<1>2. CASE dirs = <<>>
  <2>1. path = <<"/">> /\ Last(path) = "/"
    BY <1>2, RootPath DEF Last
  <2>2. PathOf(Append(dirs, n)) = <<"/">> \o n
    BY <1>2, PathAppends DEF Component
  <2>3. /\ path \in Seq(Glyph) /\ path \o n = PathOf(Append(dirs, n))
        /\ path = IF Last(path) # "/" /\ Len(path) < PathMax
                  THEN Append(path, "/") ELSE path
    BY <1>0, <2>1, <2>2
  <2>. HIDE DEF path
  <2>. QED  BY <1>1, <2>3 DEF path
<1>3. CASE dirs # <<>>
  <2>1. PICK up \in Seq(Name), l \in Name : dirs = Append(up, l)
    BY <1>3, SequenceEmptyOrAppend
  <2>2. Last(path) # "/"
    <3>1. CASE up = <<>>
      <4>1. path = <<>> \o Component(l)
        BY <2>1, <3>1, PathAppends, NameIs, ConcatEmptySeq
      <4>. QED  BY <4>1, LastComponent, EmptySeq
    <3>2. CASE up # <<>>
      <4>1. path = PathOf(up) \o Component(l) /\ PathOf(up) \in Seq(Glyph)
        BY <2>1, <3>2, PathAppends
      <4>. QED  BY <4>1, LastComponent
    <3>. QED  BY <3>1, <3>2
  <2>3. /\ PathOf(Append(dirs, n)) = path \o Component(n)
        /\ Component(n) = <<"/">> \o n
        /\ Len(path \o Component(n)) = Len(path) + 1 + Len(n)
    BY <1>0, <1>3, PathAppends, LastComponent DEF Component
  <2>. DEFINE slash == <<"/">>
  <2>4. slash \in Seq(Glyph) /\ Append(path, "/") = path \o slash
        /\ Append(path, "/") \in Seq(Glyph)
    BY <1>0, AppendIsConcat, AppendProperties DEF Glyph
  <2>. HIDE DEF path, slash
  <2>5. (path \o slash) \o n = path \o (slash \o n)
    <3>1. path \in Seq(Glyph) /\ n \in Seq(Glyph) /\ slash \in Seq(Glyph)
      BY <1>0, <2>4, Zenon
    <3>. QED  BY <3>1, ConcatThree, Zenon
  <2>6. Append(path, "/") \o n = PathOf(Append(dirs, n))
    BY <2>3, <2>4, <2>5 DEF slash
  <2>7. Len(path) < PathMax
    <3>1. Len(path) + 1 + Len(n) <= PathMax
      BY <2>3
    <3>2. Len(path) \in Nat /\ Len(n) \in Nat \ {0} /\ PathMax \in Nat
      BY <1>0
    <3>. QED  BY ONLY <3>1, <3>2
  <2>. QED  BY <1>1, <2>2, <2>4, <2>6, <2>7 DEF path
<1>. QED  BY <1>2, <1>3

LEMMA ParentPathIs ==
  ASSUME NEW dirs \in Seq(Name), NEW n \in Name
  PROVE  ParentPath(PathOf(Append(dirs, n))) = PathOf(dirs)
<1>. DEFINE path == PathOf(Append(dirs, n))
<1>1. CASE dirs = <<>>
  <2>1. path = <<>> \o Component(n)
    BY <1>1, PathAppends, NameIs, ConcatEmptySeq
  <2>2. /\ path \in Seq(Glyph) /\ path[1] = "/" /\ LastSlash(path) = 1
        /\ Len(path) \in Nat /\ 1 <= Len(path)
    <3>1. Len(<<>>) = 0 /\ <<>> \in Seq(Glyph)
      BY EmptySeq
    <3>2. /\ path \in Seq(Glyph) /\ path[1] = "/" /\ LastSlash(path) = 0 + 1
          /\ Len(path) = 0 + 1 + Len(n)
      BY <2>1, <3>1, LastComponent
    <3>. QED  BY <3>2, NameIs
  <2>. HIDE DEF path
  <2>3. ParentPath(path) = SubSeq(path, 1, 1)
    BY <2>2 DEF ParentPath
  <2>4. SubSeq(path, 1, 1) = <<"/">>
    <3>1. 1 \in 1..Len(path) /\ 1 \in Int /\ 1 + 1 = 2 /\ 1 < 2
      BY <2>2
    <3>2. SubSeq(path, 1, 1) = <<path[1]>> \o SubSeq(path, 2, 1)
      BY <2>2, <3>1, SubSeqRecursiveFirst
    <3>3. SubSeq(path, 2, 1) = <<>>
      BY SubSeqEmpty
    <3>4. <<"/">> \in Seq(Glyph)
      BY DEF Glyph
    <3>. QED  BY <2>2, <3>2, <3>3, <3>4, ConcatEmptySeq
  <2>. QED  BY <1>1, <2>3, <2>4, RootPath DEF path
<1>2. CASE dirs # <<>>
  <2>. DEFINE p == PathOf(dirs)
  <2>1. p \in Seq(Glyph) /\ path = p \o Component(n)
    BY <1>2, PathAppends
  <2>2. LastSlash(path) = Len(p) + 1 /\ SubSeq(path, 1, Len(p)) = p
    BY <2>1, LastComponent
  <2>3. Len(p) \in Nat \ {0}
    <3>1. PICK up \in Seq(Name), l \in Name : dirs = Append(up, l)
      BY <1>2, SequenceEmptyOrAppend
    <3>2. CASE up = <<>>
      <4>1. p = Component(l) /\ Len(l) \in Nat
        BY <3>1, <3>2, PathAppends, NameIs
      <4>. QED  BY <4>1, NameIs
    <3>3. CASE up # <<>>
      <4>1. Len(p) = Len(PathOf(up)) + 1 + Len(l) /\ Len(PathOf(up)) \in Nat
        BY <3>1, <3>3, PathAppends, LastComponent, LenProperties
      <4>. QED  BY <4>1, NameIs
    <3>. QED  BY <3>2, <3>3
  <2>. HIDE DEF path, p
  <2>4. Len(p) + 1 # 1 /\ Len(p) + 1 - 1 = Len(p)
    BY <2>3
  <2>5. ParentPath(path) = SubSeq(path, 1, Len(p))
    BY <2>2, <2>4 DEF ParentPath
  <2>. QED  BY <2>2, <2>5 DEF path, p
<1>. QED  BY <1>1, <1>2

\* The directory is a sequence of names.
LEMMA CwdTyped ==
  ASSUME fs_cwd \in Seq(Name), [ConsoleNext]_<<vars, console_vars>>
  PROVE  fs_cwd' \in Seq(Name)
<1>1. UNCHANGED fs_cwd => fs_cwd' \in Seq(Name)
  OBVIOUS
<1>2. cd_root => fs_cwd' \in Seq(Name)
  BY DEF cd_root
<1>3. cd_parent => fs_cwd' \in Seq(Name)
  <2>. SUFFICES ASSUME cd_parent PROVE fs_cwd' \in Seq(Name)
    OBVIOUS
  <2>1. PICK up \in Seq(Name), l \in Name : fs_cwd = Append(up, l)
    BY SequenceEmptyOrAppend DEF cd_parent
  <2>2. fs_cwd' = up
    BY <2>1, FrontOfAppend DEF cd_parent
  <2>. QED  BY <2>2
<1>4. \A n \in Name : cd_name(n) => fs_cwd' \in Seq(Name)
  BY AppendProperties DEF cd_name
<1>. QED
  BY <1>1, <1>2, <1>3, <1>4
  DEF ConsoleNext, Enter, Backspace, Type, Arrow, recall, history_is_full,
      history_drop, history_push, cmd_cd, other_command, fs_vars, console_vars

\* The prompt names the directory that ls lists.
THEOREM PromptNamesCwd == ConsoleSpec => PathNamesCwd
<1>1. ConsoleInit => fs_cwd \in Seq(Name)
  BY EmptySeq DEF ConsoleInit
<1>2. fs_cwd \in Seq(Name) /\ [ConsoleNext]_<<vars, console_vars>> =>
        [fs_path = PathOf(fs_cwd) /\ Len(PathOf(fs_cwd')) <= PathMax
           => fs_path' = PathOf(fs_cwd')]_<<vars, console_vars>>
  <2>. SUFFICES ASSUME fs_cwd \in Seq(Name), ConsoleNext, fs_path = PathOf(fs_cwd),
                       Len(PathOf(fs_cwd')) <= PathMax
                PROVE  fs_path' = PathOf(fs_cwd')
    OBVIOUS
  <2>1. UNCHANGED fs_vars => fs_path' = PathOf(fs_cwd')
    BY DEF fs_vars
  <2>2. cd_root => fs_path' = PathOf(fs_cwd')
    BY RootPath DEF cd_root
  <2>3. cd_parent => fs_path' = PathOf(fs_cwd')
    <3>. SUFFICES ASSUME cd_parent PROVE fs_path' = PathOf(fs_cwd')
      OBVIOUS
    <3>1. PICK up \in Seq(Name), l \in Name : fs_cwd = Append(up, l)
      BY SequenceEmptyOrAppend DEF cd_parent
    <3>2. fs_cwd' = up /\ fs_path' = ParentPath(PathOf(Append(up, l)))
      BY <3>1, FrontOfAppend DEF cd_parent
    <3>. QED  BY <3>2, ParentPathIs
  <2>4. \A n \in Name : cd_name(n) => fs_path' = PathOf(fs_cwd')
    BY ExtendedIs DEF cd_name
  <2>. QED
    BY <2>1, <2>2, <2>3, <2>4
    DEF ConsoleNext, Enter, Backspace, Type, Arrow, recall, history_is_full,
        history_drop, history_push, cmd_cd, other_command
<1>3. fs_cwd \in Seq(Name) /\ [ConsoleNext]_<<vars, console_vars>>
        => (fs_cwd \in Seq(Name))'
  BY CwdTyped
<1>. QED  BY <1>1, <1>2, <1>3, PTL DEF ConsoleSpec, PathNamesCwd

=============================================================================
