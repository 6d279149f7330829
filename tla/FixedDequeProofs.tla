-------------------------- MODULE FixedDequeProofs --------------------------
(***************************************************************************)
(* Invariants and refinement of FixedDeque, for a ring of any size.        *)
(***************************************************************************)
EXTENDS FixedDeque, Lemmas

(* Slots are named by their distance from begin: the elements are in the   *)
(* first Size of them.                                                     *)
Place(q) == Fwd(begin, q)

InRing == begin \in Slot /\ end \in Slot

LEMMA RingSize ==
  /\ MaxSize \in Nat /\ MaxSize > 0 /\ Slots \in Nat /\ Slots = MaxSize + 1
  /\ 0 \in Slot /\ Slot \subseteq Nat
BY FixedDequeAssumption DEF Slots, Slot

(* Moving around the ring.                                                 *)
LEMMA Moved ==
  ASSUME NEW b \in Slot, NEW q \in 0 .. MaxSize
  PROVE  /\ Fwd(b, q) \in Slot
         /\ Back(b, q) \in Slot
         /\ Fwd(b, 0) = b
         /\ Fwd(Back(b, q), q) = b
         /\ \A r \in 0 .. MaxSize : Fwd(b, q) = Fwd(b, r) => q = r
         /\ \A r \in 0 .. MaxSize : q + r <= MaxSize => Fwd(Fwd(b, q), r) = Fwd(b, q + r)
         /\ \A r \in 0 .. q : Back(Fwd(b, q), r) = Fwd(b, q - r)
BY RingSize DEF Fwd, Back, Slot, Slots

LEMMA Counted ==
  ASSUME NEW b \in Slot, NEW q \in 0 .. MaxSize
  PROVE  q = IF Fwd(b, q) < b THEN Fwd(b, q) + Slots - b ELSE Fwd(b, q) - b
BY RingSize DEF Fwd, Slot, Slots

LEMMA Reached ==
  ASSUME NEW b \in Slot, NEW u \in Slot
  PROVE  \E q \in 0 .. MaxSize : u = Fwd(b, q)
<1> DEFINE q == IF u < b THEN u + Slots - b ELSE u - b
<1>1. q \in 0 .. MaxSize /\ u = Fwd(b, q)
  BY RingSize DEF Fwd, Slot, Slots
<1> QED
  BY <1>1

LEMMA Places ==
  ASSUME InRing
  PROVE  /\ Size \in 0 .. MaxSize
         /\ end = Place(Size)
         /\ begin = Place(0)
         /\ \A q \in 0 .. MaxSize : Place(q) \in Slot
         /\ \A q, r \in 0 .. MaxSize : Place(q) = Place(r) => q = r
         /\ \A u \in Slot : \E q \in 0 .. MaxSize : u = Place(q)
         /\ begin = end <=> Size = 0
<1>1. Size \in 0 .. MaxSize /\ end = Fwd(begin, Size)
  BY RingSize DEF InRing, Size, Fwd, Slot, Slots
<1>2. begin = end <=> Size = 0
  BY RingSize DEF InRing, Size, Slot, Slots
<1>3. begin \in Slot /\ 0 \in 0 .. MaxSize
  BY RingSize DEF InRing
<1> QED
  BY <1>1, <1>2, <1>3, Moved, Reached DEF Place

(* The iterators' operators, for iterators up to end().                    *)
LEMMA Ordered ==
  ASSUME InRing, NEW j \in 0 .. Size, NEW k \in 0 .. Size
  PROVE  /\ Lower(Place(j), Place(k)) <=> j < k
         /\ Higher(Place(j), Place(k)) <=> j > k
         /\ j <= k => Distance(Place(j), Place(k)) = k - j
         /\ Back(Place(k), k) = begin
<1>1. Size \in 0 .. MaxSize /\ begin \in 0 .. MaxSize /\ end \in 0 .. MaxSize
  BY Places DEF InRing, Slot
<1>2. /\ MaxSize \in Nat /\ Slots = MaxSize + 1
      /\ Size = IF end < begin THEN end + Slots - begin ELSE end - begin
  BY RingSize DEF Size
<1>3. j \in 0 .. MaxSize /\ k \in 0 .. MaxSize /\ j <= Size /\ k <= Size
  <2>1. Size \in Nat /\ Size <= MaxSize /\ MaxSize \in Nat
    BY <1>1, RingSize
  <2> HIDE DEF Size
  <2> QED
    BY <2>1
<1> DEFINE u == Place(j)
           w == Place(k)
<1>4. /\ u = IF begin + j > MaxSize THEN begin + j - Slots ELSE begin + j
      /\ w = IF begin + k > MaxSize THEN begin + k - Slots ELSE begin + k
  BY DEF Place, Fwd
<1> HIDE DEF u, w
<1>5. /\ Lower(u, w) <=> j < k
      /\ Higher(u, w) <=> j > k
      /\ j <= k => Distance(u, w) = k - j
      /\ Back(w, k) = begin
  BY <1>1, <1>2, <1>3, <1>4 DEF Lower, Higher, SpecialLower, Distance, Back
<1> QED
  BY <1>5 DEF u, w

(* For a new iterator, an iterator past end() is not lower unless the      *)
(* storage ended between them.                                             *)
LEMMA OrderedPastEnd ==
  ASSUME InRing, NEW q \in 0 .. MaxSize, Size <= q
  PROVE  Higher(Place(q), end) \/ Place(q) = end <=> end + (q - Size) <= MaxSize
<1>1. begin \in 0 .. MaxSize /\ end \in 0 .. MaxSize
  BY DEF InRing, Slot
<1>2. /\ MaxSize \in Nat /\ Slots = MaxSize + 1
      /\ Size = IF end < begin THEN end + Slots - begin ELSE end - begin
  BY RingSize DEF Size
<1> DEFINE u == Place(q)
<1>3. u = IF begin + q > MaxSize THEN begin + q - Slots ELSE begin + q
  BY DEF Place, Fwd
<1> HIDE DEF u
<1>4. Higher(u, end) \/ u = end <=> end + (q - Size) <= MaxSize
  BY <1>1, <1>2, <1>3 DEF Higher, SpecialLower
<1> QED
  BY <1>4 DEF u

-----------------------------------------------------------------------------
(* What a write does to the memory.                                        *)
Cell   == Value \union {Raw}
Memory == [cell : [Slot -> Cell], built : SUBSET Slot, misused : BOOLEAN]

Writes(m, w, u, x) ==
  /\ w \in Memory
  /\ w.cell = [m.cell EXCEPT ![u] = x]
  /\ w.cell[u] = x
  /\ \A v \in Slot : v # u => w.cell[v] = m.cell[v]
  /\ m.misused => w.misused

LEMMA Written ==
  ASSUME NEW m \in Memory, NEW u \in Slot, NEW x \in Cell
  PROVE  /\ Writes(m, Assign(m, u, x), u, x)
         /\ Writes(m, Construct(m, u, x), u, x)
         /\ Writes(m, Move(m, u, x), u, x)
<1>1. Writes(m, Assign(m, u, x), u, x)
  BY DEF Writes, Assign, Memory
<1>2. Writes(m, Construct(m, u, x), u, x)
  BY DEF Writes, Construct, Memory
<1> QED
  BY <1>1, <1>2 DEF Move

LEMMA Destroyed ==
  ASSUME NEW m \in Memory, NEW us \in SUBSET Slot
  PROVE  /\ Destroy(m, us) \in Memory
         /\ \A v \in Slot : v \notin us => Destroy(m, us).cell[v] = m.cell[v]
         /\ Destroy(m, us).built = m.built \ us
         /\ m.misused => Destroy(m, us).misused
         /\ us \subseteq m.built => (Destroy(m, us).misused <=> m.misused)
BY DEF Destroy, Memory, Cell

-----------------------------------------------------------------------------
(* The loops.  After i iterations of the one of insert, the last i         *)
(* elements are one place further.                                         *)
BackLoop(m, k) ==
  /\ m[0] = mem
  /\ \A i \in 1 .. Size - k :
       m[i] = Move(m[i - 1], Back(Fwd(end, 1), i), m[i - 1].cell[Back(end, i)])

LEMMA BackLoopRuns ==
  ASSUME InRing, mem \in Memory, NEW k \in 0 .. Size
  PROVE  \E m : BackLoop(m, k) /\ ShiftedBack(Place(k)) = m[Size - k]
<1> DEFINE n == Size - k
           body(m, i) == Move(m, Back(Fwd(end, 1), i), m.cell[Back(end, i)])
           step == [i \in 1 .. n |-> [m \in Memory |-> body(m, i)]]
           R(m) == m = [i \in 0 .. n |-> IF i = 0 THEN mem ELSE body(m[i - 1], i)]
<1>1. n \in Nat /\ n <= MaxSize /\ MaxSize \in Nat /\ Size \in 0 .. MaxSize
  <2>1. Size \in 0 .. MaxSize /\ MaxSize \in Nat
    BY Places, RingSize
  <2> HIDE DEF Size
  <2> QED
    BY <2>1
<1>2. ASSUME NEW i \in 1 .. n, NEW m \in Memory PROVE body(m, i) \in Memory
  <2>1. i \in 0 .. MaxSize /\ 1 \in 0 .. MaxSize
    BY <1>1, RingSize
  <2>2. Back(Fwd(end, 1), i) \in Slot /\ Back(end, i) \in Slot
    BY <2>1, Moved DEF InRing
  <2>3. m.cell[Back(end, i)] \in Cell
    BY <2>2 DEF Memory
  <2> QED
    BY <2>2, <2>3, Written DEF Writes
<1>3. step \in Steps(n, Memory)
  <2> HIDE DEF body, n
  <2> QED
    BY <1>2 DEF Steps
<1>4. PICK g : Iteration(g, n, Memory, mem, step)
  <2> HIDE DEF n, step
  <2> QED
    BY <1>1, <1>3, Iterates
<1>5. /\ g \in [0 .. n -> Memory]
      /\ g[0] = mem
      /\ \A i \in 1 .. n : g[i] = step[i][g[i - 1]]
  <2> HIDE DEF n, step
  <2> QED
    BY <1>4 DEF Iteration
<1>6. R(g)
  <2>1. ASSUME NEW i \in 1 .. n PROVE g[i] = body(g[i - 1], i)
    <3>1. i - 1 \in 0 .. n /\ g[i - 1] \in Memory
      BY <1>1, <1>5
    <3> HIDE DEF body
    <3> QED
      BY <1>5, <3>1
  <2> HIDE DEF step, body
  <2> QED
    BY <1>1, <1>5, <2>1
<1> DEFINE t == CHOOSE m : R(m)
<1>7. R(t)
  <2> HIDE DEF R
  <2> QED
    BY <1>6
<1>8. ShiftedBack(Place(k)) = t[n]
  <2>1. Distance(Place(k), end) = n
    <3>1. Size \in 0 .. Size /\ k <= Size
      BY <1>1
    <3> QED
      BY <3>1, Ordered, Places
  <2> HIDE DEF n
  <2> QED
    BY <2>1 DEF ShiftedBack
<1>9. BackLoop(t, k)
  <2>1. t[0] = mem /\ \A i \in 1 .. n : t[i] = body(t[i - 1], i)
    <3>1. t = [i \in 0 .. n |-> IF i = 0 THEN mem ELSE body(t[i - 1], i)]
      BY <1>7
    <3> HIDE DEF body, n, t
    <3> QED
      BY <1>1, <3>1
  <2> QED
    BY <2>1 DEF BackLoop
<1> QED
  BY <1>8, <1>9

(* The one of erase: elements from place j + n on move n places forward.   *)
FrontLoop(m, j, c) ==
  /\ m[0] = mem
  /\ \A i \in 1 .. Size - j - c :
       m[i] = Assign(m[i - 1], Fwd(Place(j), i - 1),
                     m[i - 1].cell[Fwd(Fwd(Place(j), i - 1), c)])

LEMMA FrontLoopRuns ==
  ASSUME InRing, mem \in Memory, NEW j \in 0 .. Size, NEW c \in 0 .. Size - j
  PROVE  \E m : FrontLoop(m, j, c) /\ ShiftedToFront(Place(j), c) = m[Size - j - c]
<1> DEFINE n == Size - j - c
           body(m, i) == Assign(m, Fwd(Place(j), i - 1), m.cell[Fwd(Fwd(Place(j), i - 1), c)])
           step == [i \in 1 .. n |-> [m \in Memory |-> body(m, i)]]
           R(m) == m = [i \in 0 .. n |-> IF i = 0 THEN mem ELSE body(m[i - 1], i)]
<1>1. n \in Nat /\ n <= MaxSize /\ MaxSize \in Nat /\ Size \in 0 .. MaxSize
  <2>1. Size \in 0 .. MaxSize /\ MaxSize \in Nat
    BY Places, RingSize
  <2> HIDE DEF Size
  <2> QED
    BY <2>1
<1>2. ASSUME NEW i \in 1 .. n, NEW m \in Memory PROVE body(m, i) \in Memory
  <2>1. i - 1 \in 0 .. MaxSize /\ c \in 0 .. MaxSize /\ j \in 0 .. MaxSize
    <3>1. i \in Nat /\ i >= 1 /\ i <= n
      BY <1>1
    <3> HIDE DEF n, Size
    <3>2. c \in 0 .. MaxSize /\ j \in 0 .. MaxSize
      BY <1>1
    <3> QED
      BY <1>1, <3>1, <3>2
  <2>2. Fwd(Place(j), i - 1) \in Slot
    BY <2>1, Moved, Places
  <2>3. Fwd(Fwd(Place(j), i - 1), c) \in Slot
    BY <2>1, <2>2, Moved
  <2>4. m.cell[Fwd(Fwd(Place(j), i - 1), c)] \in Cell
    BY <2>3 DEF Memory
  <2> QED
    BY <2>2, <2>4, Written DEF Writes
<1>3. step \in Steps(n, Memory)
  <2> HIDE DEF body, n
  <2> QED
    BY <1>2 DEF Steps
<1>4. PICK g : Iteration(g, n, Memory, mem, step)
  <2> HIDE DEF n, step
  <2> QED
    BY <1>1, <1>3, Iterates
<1>5. /\ g \in [0 .. n -> Memory]
      /\ g[0] = mem
      /\ \A i \in 1 .. n : g[i] = step[i][g[i - 1]]
  <2> HIDE DEF n, step
  <2> QED
    BY <1>4 DEF Iteration
<1>6. R(g)
  <2>1. ASSUME NEW i \in 1 .. n PROVE g[i] = body(g[i - 1], i)
    <3>1. i - 1 \in 0 .. n /\ g[i - 1] \in Memory
      BY <1>1, <1>5
    <3> HIDE DEF body
    <3> QED
      BY <1>5, <3>1
  <2> HIDE DEF step, body
  <2> QED
    BY <1>1, <1>5, <2>1
<1> DEFINE t == CHOOSE m : R(m)
<1>7. R(t)
  <2> HIDE DEF R
  <2> QED
    BY <1>6
<1>8. ShiftedToFront(Place(j), c) = t[n]
  <2>1. Distance(Place(j), end) = Size - j
    <3>1. Size \in 0 .. Size /\ j <= Size
      BY <1>1
    <3> QED
      BY <3>1, Ordered, Places
  <2> HIDE DEF n
  <2> QED
    BY <2>1 DEF ShiftedToFront, n
<1>9. FrontLoop(t, j, c)
  <2>1. t[0] = mem /\ \A i \in 1 .. n : t[i] = body(t[i - 1], i)
    <3>1. t = [i \in 0 .. n |-> IF i = 0 THEN mem ELSE body(t[i - 1], i)]
      BY <1>7
    <3> HIDE DEF body, n, t
    <3> QED
      BY <1>1, <3>1
  <2> QED
    BY <2>1 DEF FrontLoop
<1> QED
  BY <1>8, <1>9

(* The one of resize: copies of x come after the elements.                 *)
ExtendLoop(m, n, x) ==
  /\ m[0] = mem
  /\ \A i \in 1 .. n : m[i] = Move(m[i - 1], Fwd(end, i - 1), x)

LEMMA ExtendLoopRuns ==
  ASSUME InRing, mem \in Memory, NEW n \in 0 .. MaxSize - Size, NEW x \in Value
  PROVE  \E m : ExtendLoop(m, n, x) /\ Extended(n, x) = m[n]
<1> DEFINE body(m, i) == Move(m, Fwd(end, i - 1), x)
           step == [i \in 1 .. n |-> [m \in Memory |-> body(m, i)]]
           R(m) == m = [i \in 0 .. n |-> IF i = 0 THEN mem ELSE body(m[i - 1], i)]
<1>1. n \in Nat /\ n <= MaxSize /\ MaxSize \in Nat /\ Size \in 0 .. MaxSize
  <2>1. Size \in 0 .. MaxSize /\ MaxSize \in Nat
    BY Places, RingSize
  <2> HIDE DEF Size
  <2> QED
    BY <2>1
<1>2. ASSUME NEW i \in 1 .. n, NEW m \in Memory PROVE body(m, i) \in Memory
  <2>1. i - 1 \in 0 .. MaxSize
    BY <1>1
  <2>2. Fwd(end, i - 1) \in Slot /\ x \in Cell
    BY <2>1, Moved DEF InRing, Cell
  <2> QED
    BY <2>2, Written DEF Writes
<1>3. step \in Steps(n, Memory)
  <2> HIDE DEF body
  <2> QED
    BY <1>2 DEF Steps
<1>4. PICK g : Iteration(g, n, Memory, mem, step)
  <2> HIDE DEF step
  <2> QED
    BY <1>1, <1>3, Iterates
<1>5. /\ g \in [0 .. n -> Memory]
      /\ g[0] = mem
      /\ \A i \in 1 .. n : g[i] = step[i][g[i - 1]]
  <2> HIDE DEF step
  <2> QED
    BY <1>4 DEF Iteration
<1>6. R(g)
  <2>1. ASSUME NEW i \in 1 .. n PROVE g[i] = body(g[i - 1], i)
    <3>1. i - 1 \in 0 .. n /\ g[i - 1] \in Memory
      BY <1>1, <1>5
    <3> HIDE DEF body
    <3> QED
      BY <1>5, <3>1
  <2> HIDE DEF step, body
  <2> QED
    BY <1>1, <1>5, <2>1
<1> DEFINE t == CHOOSE m : R(m)
<1>7. R(t)
  <2> HIDE DEF R
  <2> QED
    BY <1>6
<1>8. Extended(n, x) = t[n]
  BY DEF Extended
<1>9. ExtendLoop(t, n, x)
  <2>1. t[0] = mem /\ \A i \in 1 .. n : t[i] = body(t[i - 1], i)
    <3>1. t = [i \in 0 .. n |-> IF i = 0 THEN mem ELSE body(t[i - 1], i)]
      BY <1>7
    <3> HIDE DEF body, t
    <3> QED
      BY <1>1, <3>1
  <2> QED
    BY <2>1 DEF ExtendLoop
<1> QED
  BY <1>8, <1>9

-----------------------------------------------------------------------------
(* The slots that hold an element when there are n.                        *)
First(n) == {Place(q) : q \in 0 .. n - 1}

LEMMA Firsts ==
  ASSUME InRing, NEW n \in 0 .. Slots
  PROVE  /\ First(n) \in SUBSET Slot
         /\ \A q \in 0 .. MaxSize : Place(q) \in First(n) <=> q < n
         /\ n <= MaxSize => First(n + 1) = First(n) \union {Place(n)}
<1>1. /\ \A q \in 0 .. n - 1 : q \in 0 .. MaxSize
      /\ \A q \in 0 .. MaxSize : q \in 0 .. n - 1 <=> q < n
      /\ 0 .. (n + 1) - 1 = (0 .. n - 1) \union {n}
  BY RingSize
<1>2. First(n) \in SUBSET Slot
  BY <1>1, Places DEF First
<1>3. ASSUME NEW q \in 0 .. MaxSize PROVE Place(q) \in First(n) <=> q < n
  <2>1. q < n => Place(q) \in First(n)
    BY <1>1 DEF First
  <2>2. ASSUME NEW r \in 0 .. n - 1, Place(q) = Place(r) PROVE q < n
    <3>1. q = r
      BY <1>1, <2>2, Places
    <3> QED
      BY <1>1, <3>1
  <2> QED
    BY <2>1, <2>2 DEF First
<1>4. First(n + 1) = First(n) \union {Place(n)}
  BY <1>1 DEF First
<1> QED
  BY <1>2, <1>3, <1>4

(* _move before and at the end.                                            *)
LEMMA MovedBefore ==
  ASSUME InRing, NEW m, NEW q \in 0 .. Size, NEW x
  PROVE  Move(m, Place(q), x) =
           IF q = Size THEN Construct(m, Place(q), x) ELSE Assign(m, Place(q), x)
<1>1. Size \in 0 .. MaxSize /\ MaxSize \in Nat /\ end = Place(Size)
  BY Places, RingSize
<1>2. q \in 0 .. MaxSize /\ Size \in 0 .. Size /\ ~(q > Size)
  <2> HIDE DEF Size
  <2> QED
    BY <1>1
<1>3. Place(q) = end <=> q = Size
  BY <1>1, <1>2, Places
<1>4. ~Higher(Place(q), end)
  BY <1>1, <1>2, Ordered
<1> QED
  BY <1>3, <1>4 DEF Move

(* No slot was misused, and the elements' slots are those of n elements.   *)
Sound(m, n) == ~m.misused /\ m.built = First(n)

(* What a loop leaves: c(q) is where the element now in place q was.       *)
Rearranged(m, n, c) ==
  /\ m \in Memory
  /\ \A q \in 0 .. MaxSize : m.cell[Place(q)] = c[q]
  /\ mem.misused => m.misused
  /\ Sound(mem, Size) => Sound(m, n)

BackCells(k) ==
  [q \in 0 .. MaxSize |->
     IF k < q /\ q <= Size THEN mem.cell[Place(q - 1)] ELSE mem.cell[Place(q)]]

LEMMA BackLoopDone ==
  ASSUME InRing, mem \in Memory, Size < MaxSize, NEW k \in 0 .. Size
  PROVE  Rearranged(ShiftedBack(Place(k)), IF k < Size THEN Size + 1 ELSE Size, BackCells(k))
<1>1. PICK m : BackLoop(m, k) /\ ShiftedBack(Place(k)) = m[Size - k]
  BY BackLoopRuns
<1> DEFINE n == Size - k
           len(i) == IF i = 0 THEN Size ELSE Size + 1
           done(i) == Rearranged(m[i], len(i), BackCells(Size - i))
           K == {i \in 0 .. n : done(i)}
<1>2. Size \in Nat /\ MaxSize \in Nat /\ k \in Nat /\ k <= Size /\ n \in Nat
      /\ Slots = MaxSize + 1
  BY Places, RingSize
<1>3. 0 \in K
  <2>1. m[0] = mem
    BY <1>1 DEF BackLoop
  <2>2. \A q \in 0 .. MaxSize : BackCells(Size - 0)[q] = mem.cell[Place(q)]
    <3> HIDE DEF Size
    <3> QED
      BY <1>2 DEF BackCells
  <2> QED
    BY <1>2, <2>1, <2>2 DEF Rearranged
<1>4. ASSUME NEW i \in 0 .. n - 1, i \in K PROVE i + 1 \in K
  <2> DEFINE q == Size - i
             o == m[i]
             v == o.cell[Place(q - 1)]
             r == m[i + 1]
  <2>1. /\ q \in 1 .. Size /\ q - 1 \in 0 .. MaxSize /\ q \in 0 .. MaxSize /\ q \in 0 .. Size
        /\ i + 1 \in 1 .. Size - k /\ (i + 1) - 1 = i /\ i + 1 \in 0 .. Size
        /\ 1 \in 0 .. MaxSize /\ Size + 1 \in 0 .. MaxSize /\ i + 1 \in 0 .. Size + 1
        /\ Size \in 0 .. MaxSize /\ i + 1 \in 0 .. n /\ i + 1 # 0
        /\ (Size + 1) - (i + 1) = q /\ Size - (i + 1) = q - 1
        /\ (i = 0 <=> q = Size)
    <3> HIDE DEF Size
    <3> QED
      BY <1>2
  <2>2. Rearranged(o, len(i), BackCells(q))
    BY <1>4
  <2>3. r = Move(o, Place(q), v)
    <3>1. r = Move(o, Back(Fwd(end, 1), i + 1), o.cell[Back(end, i + 1)])
      BY <1>1, <2>1 DEF BackLoop
    <3>2. Back(end, i + 1) = Place(q - 1)
      BY <2>1, Places, Moved DEF Place, InRing
    <3>3. Fwd(end, 1) = Place(Size + 1)
      BY <2>1, Places, Moved DEF Place, InRing
    <3>4. Back(Fwd(end, 1), i + 1) = Place(q)
      BY <2>1, <3>3, Moved DEF Place, InRing
    <3> HIDE DEF q
    <3> QED
      BY <3>1, <3>2, <3>4
  <2> HIDE DEF q, r, v, len
  <2>4. Place(q) \in Slot /\ Place(q - 1) \in Slot
    BY <2>1, Places
  <2>5. v \in Cell /\ v = mem.cell[Place(q - 1)]
    <3>1. v = BackCells(q)[q - 1]
      BY <2>1, <2>2 DEF Rearranged, v
    <3>2. ~(q < q - 1)
      BY <2>1
    <3>3. BackCells(q)[q - 1] = mem.cell[Place(q - 1)]
      BY <2>1, <3>2 DEF BackCells
    <3> QED
      BY <2>4, <3>1, <3>3 DEF Memory
  <2>6. Writes(o, r, Place(q), v)
    BY <2>2, <2>3, <2>4, <2>5, Written DEF Rearranged
  <2>7. ASSUME NEW p \in 0 .. MaxSize PROVE r.cell[Place(p)] = BackCells(q - 1)[p]
    <3>1. CASE p = q
      <4>1. BackCells(q - 1)[p] = mem.cell[Place(q - 1)]
        BY <2>1, <3>1 DEF BackCells
      <4> QED
        BY <2>5, <2>6, <3>1, <4>1 DEF Writes
    <3>2. CASE p # q
      <4>1. Place(p) # Place(q) /\ Place(p) \in Slot
        BY <2>1, <3>2, Places
      <4>2. r.cell[Place(p)] = BackCells(q)[p]
        BY <2>2, <2>6, <4>1 DEF Writes, Rearranged
      <4>3. q < p <=> q - 1 < p
        BY <2>1, <3>2
      <4>4. BackCells(q)[p] = BackCells(q - 1)[p]
        BY <4>3 DEF BackCells
      <4> QED
        BY <4>2, <4>4
    <3> QED
      BY <3>1, <3>2
  <2>8. ASSUME Sound(mem, Size) PROVE Sound(r, Size + 1)
    <3>1. Sound(o, len(i))
      BY <2>2, <2>8 DEF Rearranged
    <3>2. CASE q = Size
      <4>1. r = Construct(o, Place(q), v) /\ len(i) = Size
        BY <2>1, <2>3, <3>2, MovedBefore DEF len
      <4>2. Place(q) \notin First(Size) /\ First(Size + 1) = First(Size) \union {Place(q)}
        BY <1>2, <2>1, <3>2, Firsts
      <4> QED
        BY <3>1, <4>1, <4>2 DEF Sound, Construct
    <3>3. CASE q # Size
      <4>1. r = Assign(o, Place(q), v) /\ len(i) = Size + 1
        BY <2>1, <2>3, <3>3, MovedBefore DEF len
      <4>2. Place(q) \in First(Size + 1)
        <5>1. Size + 1 \in 0 .. Slots /\ q < Size + 1
          BY <1>2, <2>1
        <5> QED
          BY <2>1, <5>1, Firsts
      <4> QED
        BY <3>1, <4>1, <4>2 DEF Sound, Assign
    <3> QED
      BY <3>2, <3>3
  <2>9. Rearranged(r, Size + 1, BackCells(q - 1))
    BY <2>2, <2>6, <2>7, <2>8 DEF Rearranged, Writes
  <2>10. len(i + 1) = Size + 1
    BY <2>1 DEF len
  <2> QED
    BY <2>1, <2>9, <2>10 DEF r
<1>5. n \in K
  <2> HIDE DEF K, n
  <2>1. 0 .. n \subseteq K
    BY <1>2, <1>3, <1>4, UpTo
  <2> QED
    BY <1>2, <2>1
<1>6. Size - n = k /\ (n = 0 <=> ~(k < Size))
  <2> HIDE DEF Size
  <2> QED
    BY <1>2
<1> QED
  BY <1>1, <1>5, <1>6

FrontCells(j, c, i) ==
  [q \in 0 .. MaxSize |->
     IF j <= q /\ q < j + i THEN mem.cell[Place(q + c)] ELSE mem.cell[Place(q)]]

LEMMA FrontLoopDone ==
  ASSUME InRing, mem \in Memory, NEW j \in 0 .. Size, NEW c \in 0 .. Size - j
  PROVE  Rearranged(ShiftedToFront(Place(j), c), Size, FrontCells(j, c, Size - j - c))
<1>1. PICK m : FrontLoop(m, j, c) /\ ShiftedToFront(Place(j), c) = m[Size - j - c]
  BY FrontLoopRuns
<1> DEFINE n == Size - j - c
           done(i) == Rearranged(m[i], Size, FrontCells(j, c, i))
           K == {i \in 0 .. n : done(i)}
<1>2. Size \in Nat /\ MaxSize \in Nat /\ j \in Nat /\ c \in Nat /\ j + c <= Size /\ n \in Nat
      /\ Slots = MaxSize + 1 /\ Size <= MaxSize
  <2>1. Size \in 0 .. MaxSize /\ MaxSize \in Nat
    BY Places, RingSize
  <2> HIDE DEF Size
  <2> QED
    BY <2>1, RingSize
<1>3. 0 \in K
  <2>1. m[0] = mem
    BY <1>1 DEF FrontLoop
  <2>2. \A q \in 0 .. MaxSize : FrontCells(j, c, 0)[q] = mem.cell[Place(q)]
    <3> HIDE DEF Size
    <3> QED
      BY <1>2 DEF FrontCells
  <2> QED
    BY <1>2, <2>1, <2>2 DEF Rearranged
<1>4. ASSUME NEW i \in 0 .. n - 1, i \in K PROVE i + 1 \in K
  <2> DEFINE q == j + i
             o == m[i]
             v == o.cell[Place(q + c)]
             r == m[i + 1]
  <2>1. /\ q \in 0 .. Size - 1 /\ q \in 0 .. MaxSize /\ q + c \in 0 .. MaxSize
        /\ i + 1 \in 1 .. Size - j - c /\ (i + 1) - 1 = i /\ i + 1 \in 0 .. n
        /\ i \in 0 .. MaxSize /\ j \in 0 .. MaxSize /\ c \in 0 .. MaxSize
        /\ Size \in 0 .. Slots /\ q < Size
        /\ j + (i + 1) = q + 1 /\ j <= q /\ ~(q + c < q)
    <3> HIDE DEF Size
    <3> QED
      BY <1>2
  <2>2. Rearranged(o, Size, FrontCells(j, c, i))
    BY <1>4
  <2>3. r = Assign(o, Place(q), v)
    <3>1. r = Assign(o, Fwd(Place(j), i), o.cell[Fwd(Fwd(Place(j), i), c)])
      BY <1>1, <2>1 DEF FrontLoop
    <3>2. Fwd(Place(j), i) = Place(q)
      BY <2>1, Moved DEF Place, InRing
    <3>3. Fwd(Place(q), c) = Place(q + c)
      BY <2>1, Moved DEF Place, InRing
    <3> HIDE DEF q
    <3> QED
      BY <3>1, <3>2, <3>3
  <2> HIDE DEF r, v
  <2>4. Place(q) \in Slot /\ Place(q + c) \in Slot
    BY <2>1, Places
  <2>5. v \in Cell /\ v = mem.cell[Place(q + c)]
    <3>1. v = FrontCells(j, c, i)[q + c]
      BY <2>1, <2>2 DEF Rearranged, v
    <3>2. FrontCells(j, c, i)[q + c] = mem.cell[Place(q + c)]
      BY <2>1 DEF FrontCells
    <3> QED
      BY <2>4, <3>1, <3>2 DEF Memory
  <2>6. Writes(o, r, Place(q), v)
    BY <2>2, <2>3, <2>4, <2>5, Written DEF Rearranged
  <2>7. ASSUME NEW p \in 0 .. MaxSize PROVE r.cell[Place(p)] = FrontCells(j, c, i + 1)[p]
    <3>1. CASE p = q
      <4>1. j <= q /\ q < j + (i + 1)
        BY <2>1
      <4>2. FrontCells(j, c, i + 1)[q] = mem.cell[Place(q + c)]
        <5> HIDE DEF q
        <5> QED
          BY <2>1, <4>1 DEF FrontCells
      <4> QED
        BY <2>5, <2>6, <3>1, <4>2 DEF Writes
    <3>2. CASE p # q
      <4>1. Place(p) # Place(q) /\ Place(p) \in Slot
        BY <2>1, <3>2, Places
      <4>2. r.cell[Place(p)] = FrontCells(j, c, i)[p]
        BY <2>2, <2>6, <4>1 DEF Writes, Rearranged
      <4>3. p < j + i <=> p < j + (i + 1)
        BY <1>2, <3>2
      <4>4. FrontCells(j, c, i)[p] = FrontCells(j, c, i + 1)[p]
        BY <4>3 DEF FrontCells
      <4> QED
        BY <4>2, <4>4
    <3> QED
      BY <3>1, <3>2
  <2>8. ASSUME Sound(mem, Size) PROVE Sound(r, Size)
    <3>1. Sound(o, Size)
      BY <2>2, <2>8 DEF Rearranged
    <3>2. Place(q) \in First(Size)
      BY <2>1, Firsts
    <3> QED
      BY <2>3, <3>1, <3>2 DEF Sound, Assign
  <2>9. Rearranged(r, Size, FrontCells(j, c, i + 1))
    BY <2>2, <2>6, <2>7, <2>8 DEF Rearranged, Writes
  <2> QED
    BY <2>1, <2>9 DEF r
<1>5. n \in K
  <2> HIDE DEF K, n
  <2>1. 0 .. n \subseteq K
    BY <1>2, <1>3, <1>4, UpTo
  <2> QED
    BY <1>2, <2>1
<1> QED
  BY <1>1, <1>5

(* What the loop of resize leaves, which misuses slots once it is past the *)
(* end of the storage.                                                     *)
ExtendCells(i, x) ==
  [q \in 0 .. MaxSize |-> IF Size <= q /\ q < Size + i THEN x ELSE mem.cell[Place(q)]]

Grown(m, i, x) ==
  /\ m \in Memory
  /\ \A q \in 0 .. MaxSize : m.cell[Place(q)] = ExtendCells(i, x)[q]
  /\ mem.misused => m.misused
  /\ Sound(mem, Size) => IF end + i > Slots THEN m.misused ELSE Sound(m, Size + i)

LEMMA ExtendLoopDone ==
  ASSUME InRing, mem \in Memory, NEW n \in 0 .. MaxSize - Size, NEW x \in Value
  PROVE  Grown(Extended(n, x), n, x)
<1>1. PICK m : ExtendLoop(m, n, x) /\ Extended(n, x) = m[n]
  BY ExtendLoopRuns
<1> DEFINE done(i) == Grown(m[i], i, x)
           K == {i \in 0 .. n : done(i)}
<1>2. Size \in Nat /\ MaxSize \in Nat /\ n \in Nat /\ Size + n <= MaxSize
      /\ Slots = MaxSize + 1 /\ Size <= MaxSize /\ end \in Nat /\ end <= MaxSize
  <2>1. Size \in 0 .. MaxSize /\ MaxSize \in Nat /\ end \in 0 .. MaxSize
    BY Places, RingSize DEF InRing, Slot
  <2> HIDE DEF Size
  <2> QED
    BY <2>1, RingSize
<1>3. 0 \in K
  <2>1. m[0] = mem
    BY <1>1 DEF ExtendLoop
  <2>2. \A q \in 0 .. MaxSize : ExtendCells(0, x)[q] = mem.cell[Place(q)]
    <3> HIDE DEF Size
    <3> QED
      BY <1>2 DEF ExtendCells
  <2>3. ~(end + 0 > Slots) /\ Size + 0 = Size
    <3> HIDE DEF Size
    <3> QED
      BY <1>2
  <2> QED
    BY <1>2, <2>1, <2>2, <2>3 DEF Grown
<1>4. ASSUME NEW i \in 0 .. n - 1, i \in K PROVE i + 1 \in K
  <2> DEFINE q == Size + i
             o == m[i]
             r == m[i + 1]
  <2>1. /\ q \in 0 .. MaxSize - 1 /\ q \in 0 .. MaxSize /\ i \in 0 .. MaxSize
        /\ i + 1 \in 1 .. n /\ (i + 1) - 1 = i /\ i + 1 \in 0 .. n
        /\ q \in 0 .. Slots /\ Size <= q /\ Size \in 0 .. MaxSize
        /\ Size + (i + 1) = q + 1 /\ q - Size = i /\ ~(q < q) /\ q <= MaxSize
    <3> HIDE DEF Size
    <3> QED
      BY <1>2
  <2>2. Grown(o, i, x)
    BY <1>4
  <2>3. r = Move(o, Place(q), x)
    <3>1. r = Move(o, Fwd(end, i), x)
      BY <1>1, <2>1 DEF ExtendLoop
    <3>2. Fwd(end, i) = Place(q)
      BY <2>1, Places, Moved DEF Place, InRing
    <3> HIDE DEF q
    <3> QED
      BY <3>1, <3>2
  <2> HIDE DEF r
  <2>4. Place(q) \in Slot /\ x \in Cell
    BY <2>1, Places DEF Cell
  <2>5. Writes(o, r, Place(q), x)
    BY <2>2, <2>3, <2>4, Written DEF Grown
  <2>6. ASSUME NEW p \in 0 .. MaxSize PROVE r.cell[Place(p)] = ExtendCells(i + 1, x)[p]
    <3>1. CASE p = q
      <4>1. Size <= p /\ p < Size + (i + 1)
        BY <2>1, <3>1
      <4>2. ExtendCells(i + 1, x)[p] = x
        BY <4>1 DEF ExtendCells
      <4> QED
        BY <2>5, <3>1, <4>2 DEF Writes
    <3>2. CASE p # q
      <4>1. Place(p) # Place(q) /\ Place(p) \in Slot
        BY <2>1, <3>2, Places
      <4>2. r.cell[Place(p)] = ExtendCells(i, x)[p]
        BY <2>2, <2>5, <4>1 DEF Writes, Grown
      <4>3. p < Size + i <=> p < Size + (i + 1)
        <5>1. p \in Nat /\ p # Size + i /\ i \in Nat /\ Size \in Nat
          BY <1>2, <3>2
        <5> HIDE DEF Size
        <5> QED
          BY <5>1
      <4>4. ExtendCells(i, x)[p] = ExtendCells(i + 1, x)[p]
        BY <4>3 DEF ExtendCells
      <4> QED
        BY <4>2, <4>4
    <3> QED
      BY <3>1, <3>2
  <2> DEFINE past(k) == end + k > Slots
  <2>7. /\ past(i) => past(i + 1)
        /\ ~past(i) => (end + i <= MaxSize <=> ~past(i + 1))
    BY <1>2, <2>1
  <2>8. ASSUME Sound(mem, Size)
        PROVE  IF past(i + 1) THEN r.misused ELSE Sound(r, q + 1)
    <3>1. CASE past(i)
      <4>1. o.misused
        BY <2>2, <2>8, <3>1 DEF Grown
      <4> QED
        BY <2>5, <2>7, <3>1, <4>1 DEF Writes
    <3>2. CASE ~past(i)
      <4>1. Sound(o, q)
        BY <2>2, <2>8, <3>2 DEF Grown
      <4>2. Place(q) \notin o.built
        BY <2>1, <4>1, Firsts DEF Sound
      <4>3. Higher(Place(q), end) \/ Place(q) = end <=> ~past(i + 1)
        <5>1. Higher(Place(q), end) \/ Place(q) = end <=> end + (q - Size) <= MaxSize
          BY <2>1, OrderedPastEnd
        <5> HIDE DEF q, past
        <5> QED
          BY <2>1, <2>7, <3>2, <5>1
      <4>4. CASE past(i + 1)
        <5>1. r = Assign(o, Place(q), x)
          BY <2>3, <4>3, <4>4 DEF Move
        <5> QED
          BY <4>2, <4>4, <5>1 DEF Assign
      <4>5. CASE ~past(i + 1)
        <5>1. r = Construct(o, Place(q), x)
          BY <2>3, <4>3, <4>5 DEF Move
        <5>2. First(q + 1) = First(q) \union {Place(q)}
          BY <2>1, Firsts
        <5> QED
          BY <4>1, <4>2, <4>5, <5>1, <5>2 DEF Construct, Sound
      <4> QED
        BY <4>4, <4>5
    <3> QED
      BY <3>1, <3>2
  <2>9. Grown(r, i + 1, x)
    <3>1. Size + (i + 1) = q + 1
      BY <2>1
    <3> HIDE DEF q
    <3> QED
      BY <2>2, <2>5, <2>6, <2>8, <3>1 DEF Grown, Writes
  <2> QED
    BY <2>1, <2>9 DEF r
<1>5. n \in K
  <2> HIDE DEF K
  <2>1. 0 .. n \subseteq K
    BY <1>2, <1>3, <1>4, UpTo
  <2> QED
    BY <1>2, <2>1
<1> QED
  BY <1>1, <1>5

-----------------------------------------------------------------------------
(* What a call leaves: n elements, those of c, and misused slots if bad.   *)
Leaves(n, bad, c) ==
  /\ mem' \in Memory /\ begin' \in Slot /\ end' \in Slot
  /\ n \in 0 .. MaxSize /\ Size' = n
  /\ mem.misused => mem'.misused
  /\ Sound(mem, Size) =>
       IF bad THEN mem'.misused
       ELSE ~mem'.misused /\ mem'.built = {Fwd(begin', q) : q \in 0 .. n - 1}
  /\ \A q \in 0 .. n - 1 : mem'.cell[Fwd(begin', q)] = c[q + 1]

LEMMA SameBegin ==
  ASSUME InRing, begin' = begin, NEW n \in 0 .. MaxSize, end' = Place(n)
  PROVE  /\ Size' = n /\ begin' \in Slot /\ end' \in Slot
         /\ \A q : Fwd(begin', q) = Place(q)
<1>1. Size' = n
  BY Counted DEF InRing, Size, Place
<1>2. end' \in Slot
  BY Places
<1> QED
  BY <1>1, <1>2 DEF InRing, Place

LEMMA ContentsAre ==
  ASSUME InRing, mem \in Memory
  PROVE  /\ Contents \in Seq(Cell) /\ Len(Contents) = Size
         /\ \A q \in 0 .. Size - 1 : Contents[q + 1] = mem.cell[Place(q)]
         /\ \A q \in 0 .. Size - 1 : q \in 0 .. MaxSize
<1>1. Size \in Nat /\ \A q \in 0 .. Size - 1 : q \in 0 .. MaxSize
  <2>1. Size \in 0 .. MaxSize /\ MaxSize \in Nat
    BY Places, RingSize
  <2> HIDE DEF Size
  <2> QED
    BY <2>1
<1>2. \A i \in 1 .. Size : i - 1 \in 0 .. Size - 1
  <2> HIDE DEF Size
  <2> QED
    BY <1>1
<1>3. \A i \in 1 .. Size : mem.cell[Place(i - 1)] \in Cell
  BY <1>1, <1>2, Places DEF Memory
<1>4. Contents = [i \in 1 .. Size |-> mem.cell[Place(i - 1)]]
  BY DEF Contents, At, Place
<1>5. \A q \in 0 .. Size - 1 : q + 1 \in 1 .. Size /\ (q + 1) - 1 = q
  <2> HIDE DEF Size
  <2> QED
    BY <1>1
<1> HIDE DEF Size
<1> QED
  BY <1>1, <1>3, <1>4, <1>5

LEMMA LeftContents ==
  ASSUME NEW n, NEW bad, NEW c, Leaves(n, bad, c), c = [i \in 1 .. n |-> c[i]]
  PROVE  Contents' = c
<1>1. n \in Nat /\ Size' = n
  BY RingSize DEF Leaves
<1>2. \A i \in 1 .. n : mem'.cell[Fwd(begin', i - 1)] = c[i]
  <2>1. \A i \in 1 .. n : i - 1 \in 0 .. n - 1 /\ (i - 1) + 1 = i
    BY <1>1
  <2> QED
    BY <2>1 DEF Leaves
<1>3. Contents' = [i \in 1 .. n |-> mem'.cell[Fwd(begin', i - 1)]]
  BY <1>1 DEF Contents, At
<1> QED
  BY <1>2, <1>3

(* The calls, when they do not throw.                                      *)
LEMMA PushBackLeaves ==
  ASSUME InRing, mem \in Memory, NEW x \in Value, PushBack(x), ~Full
  PROVE  Leaves(Size + 1, FALSE, [i \in 1 .. Size + 1 |-> IF i = Size + 1 THEN x ELSE Contents[i]])
<1>1. /\ Size \in 0 .. MaxSize /\ Size + 1 \in 0 .. MaxSize /\ MaxSize \in Nat
      /\ Size \in 0 .. Slots /\ 1 \in 0 .. MaxSize /\ Size \in Nat
  <2>1. Size \in 0 .. MaxSize /\ Size # MaxSize
    BY Places DEF Full
  <2> HIDE DEF Size
  <2> QED
    BY <2>1, RingSize
<1>2. /\ mem' = Construct(mem, Place(Size), x) /\ begin' = begin
      /\ end' = Place(Size + 1)
  <2>1. mem' = Construct(mem, end, x) /\ begin' = begin /\ end' = Fwd(end, 1)
    BY DEF PushBack, Full
  <2>2. end = Place(Size) /\ Fwd(Fwd(begin, Size), 1) = Fwd(begin, Size + 1)
    BY <1>1, Places, Moved DEF InRing
  <2> QED
    BY <2>1, <2>2 DEF Place
<1>3. /\ Size' = Size + 1 /\ begin' \in Slot /\ end' \in Slot
      /\ \A q : Fwd(begin', q) = Place(q)
  BY <1>1, <1>2, SameBegin
<1>4. Writes(mem, mem', Place(Size), x)
  BY <1>1, <1>2, Places, Written DEF Cell
<1> DEFINE c == [i \in 1 .. Size + 1 |-> IF i = Size + 1 THEN x ELSE Contents[i]]
<1>5. ASSUME NEW q \in 0 .. (Size + 1) - 1 PROVE mem'.cell[Fwd(begin', q)] = c[q + 1]
  <2>1. /\ q \in 0 .. MaxSize /\ q + 1 \in 1 .. Size + 1
        /\ (q + 1 = Size + 1 <=> q = Size) /\ (q # Size => q \in 0 .. Size - 1)
    <3> HIDE DEF Size
    <3> QED
      BY <1>1
  <2>2. Fwd(begin', q) = Place(q)
    BY <1>3
  <2>3. c[q + 1] = IF q = Size THEN x ELSE Contents[q + 1]
    BY <2>1
  <2> HIDE DEF c
  <2>4. CASE q = Size
    BY <1>4, <2>2, <2>3, <2>4 DEF Writes
  <2>5. CASE q # Size
    <3>1. Place(q) # Place(Size) /\ Place(q) \in Slot
      BY <1>1, <2>1, <2>5, Places
    <3>2. Contents[q + 1] = mem.cell[Place(q)]
      BY <2>1, <2>5, ContentsAre
    <3> QED
      BY <1>4, <2>2, <2>3, <2>5, <3>1, <3>2 DEF Writes
  <2> QED
    BY <2>4, <2>5
<1>6. ASSUME Sound(mem, Size) PROVE Sound(mem', Size + 1)
  <2>1. Place(Size) \notin First(Size) /\ First(Size + 1) = First(Size) \union {Place(Size)}
    BY <1>1, Firsts
  <2> QED
    BY <1>2, <1>6, <2>1 DEF Sound, Construct
<1>7. First(Size + 1) = {Fwd(begin', q) : q \in 0 .. (Size + 1) - 1}
  BY <1>3 DEF First
<1> HIDE DEF c
<1>8. Leaves(Size + 1, FALSE, c)
  BY <1>1, <1>3, <1>4, <1>5, <1>6, <1>7 DEF Leaves, Writes, Sound
<1> QED
  BY <1>8 DEF c

LEMMA PopBackLeaves ==
  ASSUME InRing, mem \in Memory, PopBack, begin # end
  PROVE  Leaves(Size - 1, FALSE, [i \in 1 .. Size - 1 |-> Contents[i]])
<1> DEFINE n == Size - 1
           c == [i \in 1 .. n |-> Contents[i]]
<1>1. /\ n \in 0 .. MaxSize /\ n \in 0 .. Slots /\ n \in Nat /\ Size \in 0 .. MaxSize
      /\ Size - 1 = n /\ n + 1 = Size /\ n <= MaxSize /\ 1 \in 0 .. Size /\ MaxSize \in Nat
  <2>1. Size \in 0 .. MaxSize /\ Size # 0
    BY Places
  <2> HIDE DEF Size
  <2> QED
    BY <2>1, RingSize
<1>2. end' = Place(n) /\ mem' = Destroy(mem, {Place(n)}) /\ begin' = begin
  <2>1. end' = Back(end, 1) /\ mem' = Destroy(mem, {end'}) /\ begin' = begin
    BY DEF PopBack
  <2>2. end = Place(Size) /\ Back(Place(Size), 1) = Place(Size - 1)
    BY <1>1, Places, Moved DEF InRing, Place
  <2> QED
    BY <2>1, <2>2
<1> HIDE DEF n
<1>3. /\ Size' = n /\ begin' \in Slot /\ end' \in Slot
      /\ \A q : Fwd(begin', q) = Place(q)
  BY <1>1, <1>2, SameBegin
<1>4. {Place(n)} \in SUBSET Slot
  BY <1>1, Places
<1>5. ASSUME NEW q \in 0 .. n - 1 PROVE mem'.cell[Fwd(begin', q)] = c[q + 1]
  <2>1. q \in 0 .. MaxSize /\ q # n /\ q \in 0 .. Size - 1 /\ q + 1 \in 1 .. n
    BY <1>1
  <2>2. Place(q) \notin {Place(n)} /\ Place(q) \in Slot
    BY <1>1, <2>1, Places
  <2>3. mem'.cell[Place(q)] = mem.cell[Place(q)]
    BY <1>2, <1>4, <2>2, Destroyed
  <2>4. c[q + 1] = Contents[q + 1]
    BY <2>1
  <2> QED
    BY <1>3, <2>1, <2>3, <2>4, ContentsAre
<1>6. ASSUME Sound(mem, Size) PROVE Sound(mem', n)
  <2>1. Place(n) \notin First(n) /\ First(Size) = First(n) \union {Place(n)}
    BY <1>1, Firsts
  <2> QED
    BY <1>2, <1>4, <1>6, <2>1, Destroyed DEF Sound
<1>7. First(n) = {Fwd(begin', q) : q \in 0 .. n - 1}
  BY <1>3 DEF First
<1>8. mem' \in Memory /\ (mem.misused => mem'.misused)
  BY <1>2, <1>4, Destroyed
<1> HIDE DEF c
<1>9. Leaves(n, FALSE, c)
  BY <1>1, <1>3, <1>5, <1>6, <1>7, <1>8 DEF Leaves, Sound
<1> QED
  BY <1>9 DEF c, n

LEMMA PushFrontLeaves ==
  ASSUME InRing, mem \in Memory, NEW x \in Value, PushFront(x), ~Full
  PROVE  Leaves(Size + 1, FALSE, [i \in 1 .. Size + 1 |-> IF i = 1 THEN x ELSE Contents[i - 1]])
<1> DEFINE n == Size + 1
           c == [i \in 1 .. n |-> IF i = 1 THEN x ELSE Contents[i - 1]]
<1>1. /\ Size \in 0 .. MaxSize /\ n \in 0 .. MaxSize /\ MaxSize \in Nat /\ n \in Nat
      /\ n \in 0 .. Slots /\ 1 \in 0 .. MaxSize /\ Size \in Nat /\ n = Size + 1 /\ 1 <= n
  <2>1. Size \in 0 .. MaxSize /\ Size # MaxSize
    BY Places DEF Full
  <2> HIDE DEF Size
  <2> QED
    BY <2>1, RingSize
<1>2. /\ begin' = Back(begin, 1) /\ mem' = Construct(mem, begin', x) /\ end' = end
  BY DEF PushFront, Full
<1>3. begin' \in Slot /\ end' \in Slot /\ begin \in Slot
  BY <1>1, <1>2, Moved DEF InRing
<1>4. begin = Fwd(begin', 1) /\ Fwd(begin', 0) = begin'
  BY <1>1, <1>2, <1>3, Moved
<1>5. \A q \in 0 .. MaxSize : q + 1 <= MaxSize => Place(q) = Fwd(begin', q + 1)
  <2>1. ASSUME NEW q \in 0 .. MaxSize, q + 1 <= MaxSize PROVE Place(q) = Fwd(begin', 1 + q)
    BY <1>1, <1>3, <1>4, <2>1, Moved DEF Place
  <2>2. \A q \in 0 .. MaxSize : 1 + q = q + 1
    BY <1>1
  <2> QED
    BY <2>1, <2>2
<1> HIDE DEF n
<1>6. Size' = n
  <2>1. end' = Fwd(begin', n)
    BY <1>1, <1>2, <1>5, Places
  <2> QED
    BY <1>1, <1>3, <2>1, Counted DEF Size
<1>7. Writes(mem, mem', begin', x)
  BY <1>2, <1>3, Written DEF Cell
<1>8. ASSUME NEW q \in 0 .. n - 1 PROVE mem'.cell[Fwd(begin', q)] = c[q + 1]
  <2>1. /\ q \in 0 .. MaxSize /\ q + 1 \in 1 .. n /\ (q + 1) - 1 = q
        /\ (q + 1 = 1 <=> q = 0) /\ 0 \in 0 .. MaxSize
        /\ q # 0 => q - 1 \in 0 .. Size - 1 /\ q - 1 \in 0 .. MaxSize
                    /\ (q - 1) + 1 = q /\ q <= MaxSize
    BY <1>1
  <2>2. c[q + 1] = IF q = 0 THEN x ELSE Contents[q]
    BY <2>1
  <2> HIDE DEF c
  <2>3. CASE q = 0
    BY <1>4, <1>7, <2>2, <2>3 DEF Writes
  <2>4. CASE q # 0
    <3>1. Fwd(begin', q) # begin' /\ Fwd(begin', q) \in Slot
      BY <1>3, <1>4, <2>1, <2>4, Moved
    <3>2. Place(q - 1) = Fwd(begin', q)
      BY <1>5, <2>1, <2>4
    <3>3. Contents[q] = mem.cell[Place(q - 1)]
      BY <2>1, <2>4, ContentsAre
    <3> QED
      BY <1>7, <2>2, <2>4, <3>1, <3>2, <3>3 DEF Writes
  <2> QED
    BY <2>3, <2>4
<1>9. ASSUME Sound(mem, Size)
      PROVE  ~mem'.misused /\ mem'.built = {Fwd(begin', q) : q \in 0 .. n - 1}
  <2>1. First(Size) = {Fwd(begin', q) : q \in 1 .. n - 1}
    <3>1. \A q \in 0 .. Size - 1 : Place(q) = Fwd(begin', q + 1) /\ q + 1 \in 1 .. n - 1
      BY <1>1, <1>5
    <3>2. \A q \in 1 .. n - 1 : q - 1 \in 0 .. Size - 1 /\ Place(q - 1) = Fwd(begin', q)
      <4>1. \A q \in 1 .. n - 1 : /\ q - 1 \in 0 .. Size - 1 /\ q - 1 \in 0 .. MaxSize
                                  /\ (q - 1) + 1 = q /\ q <= MaxSize
        BY <1>1
      <4> QED
        BY <1>5, <4>1
    <3> QED
      BY <3>1, <3>2 DEF First
  <2>2. begin' \notin {Fwd(begin', q) : q \in 1 .. n - 1}
    <3>1. \A q \in 1 .. n - 1 : q \in 0 .. MaxSize /\ q # 0
      BY <1>1
    <3>2. 0 \in 0 .. MaxSize
      BY <1>1
    <3> QED
      BY <1>3, <1>4, <3>1, <3>2, Moved
  <2>3. {Fwd(begin', q) : q \in 0 .. n - 1} = {Fwd(begin', q) : q \in 1 .. n - 1} \union {begin'}
    <3>1. 0 .. n - 1 = (1 .. n - 1) \union {0}
      BY <1>1
    <3> QED
      BY <1>4, <3>1
  <2> QED
    BY <1>2, <1>9, <2>1, <2>2, <2>3 DEF Sound, Construct
<1> HIDE DEF c
<1>10. Leaves(n, FALSE, c)
  BY <1>1, <1>3, <1>6, <1>7, <1>8, <1>9 DEF Leaves, Writes
<1> QED
  BY <1>10 DEF c, n

LEMMA PopFrontLeaves ==
  ASSUME InRing, mem \in Memory, PopFront, begin # end
  PROVE  Leaves(Size - 1, FALSE, [i \in 1 .. Size - 1 |-> Contents[i + 1]])
<1> DEFINE n == Size - 1
           c == [i \in 1 .. n |-> Contents[i + 1]]
<1>1. /\ n \in 0 .. MaxSize /\ n \in 0 .. Slots /\ n \in Nat /\ Size \in 0 .. MaxSize
      /\ Size - 1 = n /\ n + 1 = Size /\ n < MaxSize /\ MaxSize \in Nat
      /\ Size \in 0 .. Slots /\ 1 \in 0 .. MaxSize
  <2>1. Size \in 0 .. MaxSize /\ Size # 0
    BY Places
  <2> HIDE DEF Size
  <2> QED
    BY <2>1, RingSize
<1>2. mem' = Destroy(mem, {begin}) /\ begin' = Fwd(begin, 1) /\ end' = end
  BY DEF PopFront
<1>3. begin' \in Slot /\ end' \in Slot /\ begin \in Slot /\ begin = Place(0)
  BY <1>1, <1>2, Moved, Places DEF InRing
<1>4. \A q \in 0 .. n : Fwd(begin', q) = Place(q + 1) /\ q + 1 \in 0 .. MaxSize
  <2>1. \A q \in 0 .. n : q \in 0 .. MaxSize /\ q + 1 \in 0 .. MaxSize
                          /\ 1 + q <= MaxSize /\ 1 + q = q + 1
    BY <1>1
  <2> HIDE DEF n
  <2> QED
    BY <1>1, <1>2, <1>3, <2>1, Moved DEF Place
<1> HIDE DEF n
<1>5. Size' = n
  <2>1. end' = Fwd(begin', n)
    <3>1. n \in 0 .. n
      BY <1>1
    <3> QED
      BY <1>1, <1>2, <1>4, <3>1, Places
  <2> QED
    BY <1>1, <1>3, <2>1, Counted DEF Size
<1>6. {begin} \in SUBSET Slot
  BY <1>3
<1>7. ASSUME NEW q \in 0 .. n - 1 PROVE mem'.cell[Fwd(begin', q)] = c[q + 1]
  <2>1. /\ q \in 0 .. n /\ q + 1 \in 0 .. Size - 1 /\ q + 1 \in 1 .. n /\ q + 1 # 0
        /\ 0 \in 0 .. MaxSize
    BY <1>1
  <2>2. Fwd(begin', q) = Place(q + 1) /\ q + 1 \in 0 .. MaxSize
    BY <1>4, <2>1
  <2>3. Place(q + 1) \notin {begin} /\ Place(q + 1) \in Slot
    BY <1>3, <2>1, <2>2, Places
  <2>4. mem'.cell[Place(q + 1)] = mem.cell[Place(q + 1)]
    BY <1>2, <1>6, <2>3, Destroyed
  <2>5. c[q + 1] = Contents[(q + 1) + 1]
    BY <2>1
  <2> HIDE DEF c
  <2>6. Contents[(q + 1) + 1] = mem.cell[Place(q + 1)]
    BY <2>1, ContentsAre
  <2> QED
    BY <2>2, <2>4, <2>5, <2>6
<1>8. ASSUME Sound(mem, Size)
      PROVE  ~mem'.misused /\ mem'.built = {Fwd(begin', q) : q \in 0 .. n - 1}
  <2>1. {Fwd(begin', q) : q \in 0 .. n - 1} = {Place(q) : q \in 1 .. Size - 1}
    <3>1. \A q \in 0 .. n - 1 : q \in 0 .. n /\ q + 1 \in 1 .. Size - 1
      BY <1>1
    <3>2. \A q \in 1 .. Size - 1 : q - 1 \in 0 .. n - 1 /\ q - 1 \in 0 .. n /\ (q - 1) + 1 = q
      BY <1>1
    <3> QED
      BY <1>4, <3>1, <3>2
  <2>2. First(Size) = {Place(q) : q \in 1 .. Size - 1} \union {begin}
    <3>1. 0 .. Size - 1 = (1 .. Size - 1) \union {0}
      BY <1>1
    <3> QED
      BY <1>3, <3>1 DEF First
  <2>3. begin \notin {Place(q) : q \in 1 .. Size - 1}
    <3>1. \A q \in 1 .. Size - 1 : q \in 0 .. MaxSize /\ q # 0
      BY <1>1
    <3>2. 0 \in 0 .. MaxSize
      BY <1>1
    <3> QED
      BY <1>3, <3>1, <3>2, Places
  <2>4. {begin} \subseteq mem.built
    BY <1>8, <2>2 DEF Sound
  <2> QED
    BY <1>2, <1>6, <1>8, <2>1, <2>2, <2>3, <2>4, Destroyed DEF Sound
<1>9. mem' \in Memory /\ (mem.misused => mem'.misused)
  BY <1>2, <1>6, Destroyed
<1> HIDE DEF c
<1>10. Leaves(n, FALSE, c)
  BY <1>1, <1>3, <1>5, <1>7, <1>8, <1>9 DEF Leaves
<1> QED
  BY <1>10 DEF c, n

LEMMA InsertAtItLeaves ==
  ASSUME InRing, mem \in Memory, NEW x \in Value, NEW k \in 0 .. Size, InsertAtIt(k, x), ~Full
  PROVE  Leaves(Size + 1, FALSE,
                [i \in 1 .. Size + 1 |->
                   IF i <= k THEN Contents[i] ELSE IF i = k + 1 THEN x ELSE Contents[i - 1]])
<1> DEFINE n == Size + 1
           c == [i \in 1 .. n |->
                   IF i <= k THEN Contents[i] ELSE IF i = k + 1 THEN x ELSE Contents[i - 1]]
           r == ShiftedBack(Place(k))
<1>1. /\ Size \in 0 .. MaxSize /\ n \in 0 .. MaxSize /\ MaxSize \in Nat /\ n \in Nat
      /\ n \in 0 .. Slots /\ Size \in 0 .. Slots /\ 1 \in 0 .. MaxSize /\ Size \in Nat /\ n = Size + 1
      /\ Size < MaxSize /\ k \in 0 .. MaxSize /\ k \in Nat /\ k <= Size
  <2>1. Size \in 0 .. MaxSize /\ Size # MaxSize
    BY Places DEF Full
  <2> HIDE DEF Size
  <2> QED
    BY <2>1, RingSize
<1>2. mem' = Move(r, Place(k), x) /\ begin' = begin /\ end' = Place(n)
  <2>1. mem' = Move(r, Place(k), x) /\ begin' = begin /\ end' = Fwd(end, 1)
    BY DEF InsertAtIt, Full, Place
  <2>2. end = Place(Size) /\ Fwd(Fwd(begin, Size), 1) = Fwd(begin, n)
    BY <1>1, Places, Moved DEF InRing
  <2> QED
    BY <2>1, <2>2 DEF Place
<1> HIDE DEF n
<1>3. /\ Size' = n /\ begin' \in Slot /\ end' \in Slot
      /\ \A q : Fwd(begin', q) = Place(q)
  BY <1>1, <1>2, SameBegin
<1>4. Rearranged(r, IF k < Size THEN Size + 1 ELSE Size, BackCells(k))
  BY <1>1, BackLoopDone
<1> HIDE DEF r
<1>5. Writes(r, mem', Place(k), x)
  BY <1>1, <1>2, <1>4, Places, Written DEF Cell, Rearranged
<1>6. ASSUME NEW q \in 0 .. n - 1 PROVE mem'.cell[Fwd(begin', q)] = c[q + 1]
  <2>1. /\ q \in 0 .. MaxSize /\ q + 1 \in 1 .. n /\ q <= Size /\ (q + 1) - 1 = q
        /\ q + 1 <= k <=> q < k
        /\ q + 1 = k + 1 <=> q = k
        /\ q < k => q \in 0 .. Size - 1 /\ ~(k < q)
        /\ q > k => q - 1 \in 0 .. Size - 1 /\ k < q /\ (q - 1) + 1 = q
        /\ q \in Nat
    BY <1>1
  <2>2. c[q + 1] = IF q < k THEN Contents[q + 1] ELSE IF q = k THEN x ELSE Contents[q]
    BY <2>1
  <2> HIDE DEF c
  <2>3. CASE q = k
    BY <1>3, <1>5, <2>2, <2>3, <2>1 DEF Writes
  <2>4. CASE q # k
    <3>1. Place(q) # Place(k) /\ Place(q) \in Slot
      BY <1>1, <2>1, <2>4, Places
    <3>2. mem'.cell[Place(q)] = BackCells(k)[q]
      BY <1>4, <1>5, <2>1, <3>1 DEF Writes, Rearranged
    <3>3. CASE q < k
      <4>1. BackCells(k)[q] = mem.cell[Place(q)]
        BY <2>1, <3>3 DEF BackCells
      <4>2. Contents[q + 1] = mem.cell[Place(q)]
        BY <2>1, <3>3, ContentsAre
      <4> QED
        BY <1>3, <2>2, <3>2, <3>3, <4>1, <4>2
    <3>4. CASE q > k
      <4>1. BackCells(k)[q] = mem.cell[Place(q - 1)]
        BY <2>1, <3>4 DEF BackCells
      <4>2. Contents[q] = mem.cell[Place(q - 1)]
        BY <2>1, <3>4, ContentsAre
      <4>3. ~(q < k)
        BY <1>1, <2>1, <3>4
      <4> QED
        BY <1>3, <2>2, <2>4, <3>2, <4>1, <4>2, <4>3
    <3> QED
      BY <1>1, <2>1, <2>4, <3>3, <3>4
  <2> QED
    BY <2>3, <2>4
<1>7. ASSUME Sound(mem, Size) PROVE Sound(mem', n)
  <2>1. CASE k = Size
    <3>1. ~(k < Size)
      BY <1>1, <2>1
    <3>2. Sound(r, Size)
      BY <1>4, <1>7, <3>1 DEF Rearranged
    <3>3. mem' = Construct(r, Place(Size), x)
      BY <1>2, <2>1, MovedBefore
    <3>4. Place(Size) \notin First(Size) /\ First(n) = First(Size) \union {Place(Size)}
      BY <1>1, Firsts
    <3> QED
      BY <3>2, <3>3, <3>4 DEF Sound, Construct
  <2>2. CASE k # Size
    <3>1. k < Size /\ k < n
      BY <1>1, <2>2
    <3>2. Sound(r, n)
      BY <1>1, <1>4, <1>7, <3>1 DEF Rearranged
    <3>3. mem' = Assign(r, Place(k), x)
      BY <1>2, <2>2, MovedBefore
    <3>4. Place(k) \in First(n)
      BY <1>1, <3>1, Firsts
    <3> QED
      BY <3>2, <3>3, <3>4 DEF Sound, Assign
  <2> QED
    BY <2>1, <2>2
<1>8. First(n) = {Fwd(begin', q) : q \in 0 .. n - 1}
  BY <1>3 DEF First
<1>9. mem' \in Memory /\ (mem.misused => mem'.misused)
  BY <1>4, <1>5 DEF Writes, Rearranged
<1> HIDE DEF c
<1>10. Leaves(n, FALSE, c)
  BY <1>1, <1>3, <1>6, <1>7, <1>8, <1>9 DEF Leaves, Sound
<1> QED
  BY <1>10 DEF c, n

(* erase and resize destroy the last c elements.                           *)
LEMMA LastDestroyed ==
  ASSUME InRing, NEW c \in 0 .. Size, begin' = begin, end' = Back(end, c),
         NEW m, NEW s, Rearranged(m, Size, s),
         mem' = Destroy(m, {Fwd(end', i) : i \in 0 .. c - 1})
  PROVE  Leaves(Size - c, FALSE, [i \in 1 .. Size - c |-> s[i - 1]])
<1> DEFINE n == Size - c
           us == {Fwd(end', i) : i \in 0 .. c - 1}
           left == [i \in 1 .. n |-> s[i - 1]]
<1>1. /\ Size \in 0 .. MaxSize /\ Size \in Nat /\ MaxSize \in Nat /\ n \in 0 .. MaxSize /\ n \in Nat
      /\ n \in 0 .. Slots /\ Size \in 0 .. Slots /\ c \in Nat /\ n + c = Size /\ c \in 0 .. MaxSize
      /\ Size - c = n
  <2>1. Size \in 0 .. MaxSize
    BY Places
  <2> HIDE DEF Size
  <2> QED
    BY <2>1, RingSize
<1> HIDE DEF n
<1>2. end' = Place(n)
  BY <1>1, Places, Moved DEF InRing, Place
<1>3. /\ Size' = n /\ begin' \in Slot /\ end' \in Slot
      /\ \A q : Fwd(begin', q) = Place(q)
  BY <1>1, <1>2, SameBegin
<1>4. us = {Place(q) : q \in n .. Size - 1}
  <2>1. \A i \in 0 .. c - 1 : Fwd(end', i) = Place(n + i) /\ n + i \in n .. Size - 1
    <3>1. \A i \in 0 .. c - 1 : i \in 0 .. MaxSize /\ n + i <= MaxSize /\ n + i \in n .. Size - 1
      BY <1>1
    <3> QED
      BY <1>1, <1>2, <3>1, Moved DEF Place, InRing
  <2>2. \A q \in n .. Size - 1 : q - n \in 0 .. c - 1 /\ n + (q - n) = q
    BY <1>1
  <2> QED
    BY <2>1, <2>2
<1> HIDE DEF us
<1>5. us \in SUBSET Slot /\ \A q \in 0 .. n - 1 : Place(q) \notin us /\ Place(q) \in Slot
  <2>1. /\ \A q \in n .. Size - 1 : q \in 0 .. MaxSize
        /\ \A q \in 0 .. n - 1 : q \in 0 .. MaxSize /\ q \notin n .. Size - 1
    BY <1>1
  <2> QED
    BY <1>4, <2>1, Places
<1>6. First(Size) = First(n) \union us /\ First(n) \intersect us = {}
  <2>1. 0 .. Size - 1 = (0 .. n - 1) \union (n .. Size - 1)
    BY <1>1
  <2> QED
    BY <1>4, <1>5, <2>1 DEF First
<1>7. m \in Memory /\ mem' = Destroy(m, us)
  BY DEF Rearranged, us
<1>8. ASSUME NEW q \in 0 .. n - 1 PROVE mem'.cell[Fwd(begin', q)] = left[q + 1]
  <2>1. q \in 0 .. MaxSize /\ q + 1 \in 1 .. n /\ (q + 1) - 1 = q
    BY <1>1
  <2>2. mem'.cell[Place(q)] = m.cell[Place(q)]
    BY <1>5, <1>7, Destroyed
  <2>3. m.cell[Place(q)] = s[q]
    BY <2>1 DEF Rearranged
  <2> QED
    BY <1>3, <2>1, <2>2, <2>3
<1>9. ASSUME Sound(mem, Size) PROVE Sound(mem', n)
  <2>1. Sound(m, Size)
    BY <1>9 DEF Rearranged
  <2>2. us \subseteq m.built /\ m.built \ us = First(n)
    BY <1>6, <2>1 DEF Sound
  <2>3. mem'.built = m.built \ us /\ (mem'.misused <=> m.misused)
    <3>1. m \in Memory /\ us \in SUBSET Slot /\ us \subseteq m.built
      BY <1>5, <1>7, <2>2
    <3>2. Destroy(m, us).built = m.built \ us /\ (Destroy(m, us).misused <=> m.misused)
      BY <3>1 DEF Destroy, Memory
    <3>3. mem' = Destroy(m, us)
      BY <1>7
    <3> QED
      BY <3>2, <3>3
  <2> QED
    BY <2>1, <2>2, <2>3 DEF Sound
<1>10. First(n) = {Fwd(begin', q) : q \in 0 .. n - 1}
  BY <1>3 DEF First
<1>11. mem' \in Memory /\ (mem.misused => mem'.misused)
  <2>1. mem' \in Memory /\ (m.misused => mem'.misused)
    BY <1>5, <1>7, Destroyed
  <2> QED
    BY <2>1 DEF Rearranged
<1> HIDE DEF left
<1>12. Leaves(n, FALSE, left)
  BY <1>1, <1>3, <1>8, <1>9, <1>10, <1>11 DEF Leaves, Sound
<1> QED
  BY <1>12 DEF left, n

LEMMA ErasedLeaves ==
  ASSUME InRing, mem \in Memory, NEW j \in 0 .. Size, NEW c \in 0 .. Size - j,
         begin' = begin, end' = Back(end, c),
         mem' = Destroy(ShiftedToFront(Place(j), c), {Fwd(end', i) : i \in 0 .. c - 1})
  PROVE  Leaves(Size - c, FALSE,
                [i \in 1 .. Size - c |-> IF i <= j THEN Contents[i] ELSE Contents[i + c]])
<1> DEFINE s == FrontCells(j, c, Size - j - c)
           left == [i \in 1 .. Size - c |-> IF i <= j THEN Contents[i] ELSE Contents[i + c]]
<1>1. /\ Size \in 0 .. MaxSize /\ Size \in Nat /\ MaxSize \in Nat /\ c \in 0 .. Size
      /\ j \in Nat /\ c \in Nat /\ j + c <= Size
  <2>1. Size \in 0 .. MaxSize
    BY Places
  <2> HIDE DEF Size
  <2> QED
    BY <2>1, RingSize
<1>2. Leaves(Size - c, FALSE, [i \in 1 .. Size - c |-> s[i - 1]])
  <2>1. Rearranged(ShiftedToFront(Place(j), c), Size, s)
    BY FrontLoopDone
  <2> HIDE DEF s
  <2> QED
    BY <1>1, <2>1, LastDestroyed
<1>3. ASSUME NEW i \in 1 .. Size - c
      PROVE  s[i - 1] = IF i <= j THEN Contents[i] ELSE Contents[i + c]
  <2>1. /\ i - 1 \in 0 .. MaxSize /\ i - 1 \in 0 .. Size - 1 /\ (i - 1) + 1 = i
        /\ i <= j => ~(j <= i - 1)
        /\ ~(i <= j) => j <= i - 1
        /\ i - 1 < j + (Size - j - c)
        /\ (i - 1) + c \in 0 .. Size - 1 /\ ((i - 1) + c) + 1 = i + c
    <3> HIDE DEF Size
    <3> QED
      BY <1>1
  <2>2. s[i - 1] = IF i <= j THEN mem.cell[Place(i - 1)] ELSE mem.cell[Place((i - 1) + c)]
    BY <2>1 DEF FrontCells
  <2> HIDE DEF s
  <2>3. /\ Contents[(i - 1) + 1] = mem.cell[Place(i - 1)]
        /\ Contents[((i - 1) + c) + 1] = mem.cell[Place((i - 1) + c)]
    BY <2>1, ContentsAre
  <2> HIDE DEF Size
  <2> QED
    BY <2>1, <2>2, <2>3
<1> HIDE DEF s
<1>4. [i \in 1 .. Size - c |-> s[i - 1]] = left
  BY <1>3
<1> HIDE DEF left
<1>5. Leaves(Size - c, FALSE, left)
  BY <1>2, <1>4
<1> QED
  BY <1>5 DEF left

LEMMA EraseAtItLeaves ==
  ASSUME InRing, mem \in Memory, NEW k \in 0 .. Size, k < Size \/ k = 0, EraseAtIt(k), begin # end
  PROVE  Leaves(Size - 1, FALSE,
                [i \in 1 .. Size - 1 |-> IF i <= k THEN Contents[i] ELSE Contents[i + 1]])
<1>1. 1 \in 0 .. Size - k /\ 1 \in 0 .. MaxSize
  <2>1. Size \in 0 .. MaxSize /\ Size # 0
    BY Places
  <2> HIDE DEF Size
  <2> QED
    BY <2>1, RingSize
<1>2. /\ end' = Back(end, 1) /\ begin' = begin
      /\ mem' = Destroy(ShiftedToFront(Place(k), 1), {end'})
  BY DEF EraseAtIt, Place
<1>3. {end'} = {Fwd(end', i) : i \in 0 .. 1 - 1}
  <2>1. end' \in Slot
    BY <1>1, <1>2, Moved DEF InRing
  <2>2. Fwd(end', 0) = end'
    BY <1>1, <2>1, Moved
  <2>3. 0 .. 1 - 1 = {0}
    OBVIOUS
  <2> QED
    BY <2>2, <2>3
<1> QED
  BY <1>1, <1>2, <1>3, ErasedLeaves

LEMMA EraseRangeLeaves ==
  ASSUME InRing, mem \in Memory, NEW j \in 0 .. Size, NEW k \in 0 .. Size, EraseRange(j, k)
  PROVE  /\ k < j => Throw
         /\ j <= k =>
              Leaves(Size - (k - j), FALSE,
                     [i \in 1 .. Size - (k - j) |->
                        IF i <= j THEN Contents[i] ELSE Contents[i + (k - j)]])
         /\ j <= k => thrown' = FALSE
<1>1. /\ j \in Nat /\ k \in Nat /\ (j <= k <=> ~(k < j))
      /\ j <= k => k - j \in 0 .. Size - j
  <2>1. Size \in 0 .. MaxSize
    BY Places
  <2> HIDE DEF Size
  <2> QED
    BY <2>1, RingSize
<1>2. /\ Lower(Place(k), Place(j)) <=> k < j
      /\ j <= k => Distance(Place(j), Place(k)) = k - j
  BY Ordered
<1>3. \/ Lower(Place(k), Place(j)) /\ Throw
      \/ /\ ~Lower(Place(k), Place(j))
         /\ end' = Back(end, Distance(Place(j), Place(k)))
         /\ mem' = Destroy(ShiftedToFront(Place(j), Distance(Place(j), Place(k))),
                           {Fwd(end', i) : i \in 0 .. Distance(Place(j), Place(k)) - 1})
         /\ thrown' = FALSE /\ begin' = begin
  BY DEF EraseRange, Place
<1>4. k < j => Throw
  BY <1>1, <1>2, <1>3
<1>5. ASSUME j <= k
      PROVE  /\ end' = Back(end, k - j) /\ begin' = begin /\ thrown' = FALSE
             /\ mem' = Destroy(ShiftedToFront(Place(j), k - j), {Fwd(end', i) : i \in 0 .. (k - j) - 1})
  BY <1>1, <1>2, <1>3, <1>5
<1>6. ASSUME j <= k
      PROVE  Leaves(Size - (k - j), FALSE,
                    [i \in 1 .. Size - (k - j) |->
                       IF i <= j THEN Contents[i] ELSE Contents[i + (k - j)]])
  BY <1>1, <1>5, <1>6, ErasedLeaves
<1> QED
  BY <1>4, <1>5, <1>6

LEMMA ShrunkLeaves ==
  ASSUME InRing, mem \in Memory, NEW n \in 0 .. Size, NEW x, Resize(n, x)
  PROVE  Leaves(n, FALSE, [i \in 1 .. n |-> Contents[i]]) /\ thrown' = FALSE
<1> DEFINE s == [q \in 0 .. MaxSize |-> mem.cell[Place(q)]]
           c == Size - n
<1>1. /\ ~(n > Size) /\ n <= Size /\ c \in 0 .. Size /\ Size - c = n
      /\ Size \in 0 .. MaxSize /\ MaxSize \in Nat
  <2>1. Size \in 0 .. MaxSize
    BY Places
  <2> HIDE DEF Size
  <2> QED
    BY <2>1, RingSize
<1>2. /\ end' = Back(end, c) /\ begin' = begin /\ thrown' = FALSE
      /\ mem' = Destroy(mem, {Fwd(end', i) : i \in 0 .. c - 1})
  BY <1>1 DEF Resize
<1>3. Rearranged(mem, Size, s)
  BY DEF Rearranged
<1> HIDE DEF c, s
<1>4. Leaves(n, FALSE, [i \in 1 .. n |-> s[i - 1]])
  <2>1. Leaves(Size - c, FALSE, [i \in 1 .. Size - c |-> s[i - 1]])
    BY <1>1, <1>2, <1>3, LastDestroyed
  <2> QED
    BY <1>1, <2>1
<1>5. ASSUME NEW i \in 1 .. n PROVE s[i - 1] = Contents[i]
  <2>1. i - 1 \in 0 .. MaxSize /\ i - 1 \in 0 .. Size - 1 /\ (i - 1) + 1 = i
    <3> HIDE DEF Size
    <3> QED
      BY <1>1
  <2>2. Contents[(i - 1) + 1] = mem.cell[Place(i - 1)]
    BY <2>1, ContentsAre
  <2> QED
    BY <2>1, <2>2 DEF s
<1>6. [i \in 1 .. n |-> s[i - 1]] = [i \in 1 .. n |-> Contents[i]]
  BY <1>5
<1>7. Leaves(n, FALSE, [i \in 1 .. n |-> Contents[i]])
  BY <1>4, <1>6
<1> QED
  BY <1>2, <1>7

LEMMA GrownLeaves ==
  ASSUME InRing, mem \in Memory, NEW n \in 0 .. MaxSize, Size < n, NEW x \in Value, Resize(n, x)
  PROVE  /\ Leaves(n, end + (n - Size) > Slots,
                   [i \in 1 .. n |-> IF i <= Size THEN Contents[i] ELSE x])
         /\ thrown' = FALSE
<1> DEFINE d == n - Size
           bad == end + d > Slots
           c == [i \in 1 .. n |-> IF i <= Size THEN Contents[i] ELSE x]
<1>1. /\ ~(n <= Size) /\ n > Size /\ d \in 0 .. MaxSize - Size /\ d \in 0 .. MaxSize
      /\ Size + d = n /\ ~(n > MaxSize) /\ n <= MaxSize /\ n \in Nat /\ n \in 0 .. Slots
      /\ Size \in 0 .. MaxSize /\ MaxSize \in Nat /\ Size \in Nat
  <2>1. Size \in 0 .. MaxSize
    BY Places
  <2> HIDE DEF Size
  <2> QED
    BY <2>1, RingSize
<1>2. /\ end' = Fwd(end, d) /\ begin' = begin /\ thrown' = FALSE
      /\ mem' = Extended(d, x)
  BY <1>1 DEF Resize
<1> HIDE DEF d
<1>3. end' = Place(n)
  BY <1>1, <1>2, Places, Moved DEF InRing, Place
<1>4. /\ Size' = n /\ begin' \in Slot /\ end' \in Slot
      /\ \A q : Fwd(begin', q) = Place(q)
  BY <1>1, <1>2, <1>3, SameBegin
<1>5. Grown(mem', d, x)
  BY <1>1, <1>2, ExtendLoopDone
<1>6. ASSUME NEW q \in 0 .. n - 1 PROVE mem'.cell[Fwd(begin', q)] = c[q + 1]
  <2>1. /\ q \in 0 .. MaxSize /\ q < Size + d /\ q + 1 \in 1 .. n
        /\ Size <= q <=> ~(q + 1 <= Size)
        /\ q + 1 <= Size => q \in 0 .. Size - 1
    <3> HIDE DEF Size
    <3> QED
      BY <1>1
  <2>2. c[q + 1] = IF q + 1 <= Size THEN Contents[q + 1] ELSE x
    BY <2>1
  <2> HIDE DEF c
  <2>3. mem'.cell[Place(q)] = IF Size <= q THEN x ELSE mem.cell[Place(q)]
    BY <1>5, <2>1 DEF Grown, ExtendCells
  <2>4. q + 1 <= Size => Contents[q + 1] = mem.cell[Place(q)]
    BY <2>1, ContentsAre
  <2> HIDE DEF Size
  <2> QED
    BY <1>4, <2>1, <2>2, <2>3, <2>4
<1>7. First(n) = {Fwd(begin', q) : q \in 0 .. n - 1}
  BY <1>4 DEF First
<1> HIDE DEF c
<1>8. Leaves(n, bad, c)
  <2>1. mem' \in Memory /\ (mem.misused => mem'.misused)
    BY <1>5 DEF Grown
  <2>2. Sound(mem, Size) =>
          IF bad THEN mem'.misused
          ELSE ~mem'.misused /\ mem'.built = {Fwd(begin', q) : q \in 0 .. n - 1}
    BY <1>1, <1>5, <1>7 DEF Grown, Sound
  <2> HIDE DEF bad
  <2> QED
    BY <1>1, <1>4, <1>6, <2>1, <2>2 DEF Leaves
<1> QED
  BY <1>2, <1>8 DEF c, d, bad

LEMMA SetAtLeaves ==
  ASSUME InRing, mem \in Memory, NEW k \in 0 .. Size, k < Size, NEW x \in Value, SetAt(k, x)
  PROVE  /\ Leaves(Size, FALSE, [i \in 1 .. Size |-> IF i = k + 1 THEN x ELSE Contents[i]])
         /\ thrown' = FALSE
<1> DEFINE c == [i \in 1 .. Size |-> IF i = k + 1 THEN x ELSE Contents[i]]
<1>1. /\ k \in 0 .. MaxSize /\ k \in Nat /\ ~(k >= Size) /\ Size \in 0 .. MaxSize
      /\ Size \in Nat /\ MaxSize \in Nat /\ Size \in 0 .. Slots
  <2>1. Size \in 0 .. MaxSize
    BY Places
  <2> HIDE DEF Size
  <2> QED
    BY <2>1, RingSize
<1>2. /\ mem' = Assign(mem, Place(k), x) /\ thrown' = FALSE
      /\ begin' = begin /\ end' = Place(Size)
  BY <1>1, Places DEF SetAt, Place
<1>3. /\ Size' = Size /\ begin' \in Slot /\ end' \in Slot
      /\ \A q : Fwd(begin', q) = Place(q)
  BY <1>1, <1>2, SameBegin
<1>4. Writes(mem, mem', Place(k), x)
  BY <1>1, <1>2, Places, Written DEF Cell
<1>5. ASSUME NEW q \in 0 .. Size - 1 PROVE mem'.cell[Fwd(begin', q)] = c[q + 1]
  <2>1. q \in 0 .. MaxSize /\ q + 1 \in 1 .. Size /\ (q + 1 = k + 1 <=> q = k)
    <3> HIDE DEF Size
    <3> QED
      BY <1>1
  <2>2. c[q + 1] = IF q = k THEN x ELSE Contents[q + 1]
    BY <2>1
  <2> HIDE DEF c
  <2>3. Contents[q + 1] = mem.cell[Place(q)]
    BY ContentsAre
  <2>4. q # k => Place(q) # Place(k) /\ Place(q) \in Slot
    BY <1>1, <2>1, Places
  <2> QED
    BY <1>3, <1>4, <2>2, <2>3, <2>4 DEF Writes
<1>6. ASSUME Sound(mem, Size) PROVE Sound(mem', Size)
  <2>1. Place(k) \in First(Size)
    BY <1>1, Firsts
  <2> QED
    BY <1>2, <1>6, <2>1 DEF Sound, Assign
<1>7. First(Size) = {Fwd(begin', q) : q \in 0 .. Size - 1}
  BY <1>3 DEF First
<1> HIDE DEF c
<1>8. Leaves(Size, FALSE, c)
  BY <1>1, <1>3, <1>4, <1>5, <1>6, <1>7 DEF Leaves, Writes, Sound
<1> QED
  BY <1>2, <1>8 DEF c

LEMMA ClearLeaves ==
  ASSUME InRing, mem \in Memory, NEW c, Clear
  PROVE  Leaves(0, FALSE, c) /\ thrown' = FALSE
<1> DEFINE us == IF begin > end THEN begin .. MaxSize \union 0 .. end - 1 ELSE begin .. end - 1
<1>1. /\ mem' = Destroy(mem, us) /\ begin' = 0 /\ end' = 0 /\ thrown' = FALSE
      /\ 0 \in Slot /\ 0 \in 0 .. MaxSize /\ Size \in 0 .. MaxSize
  BY Places, RingSize DEF Clear
<1>2. us = First(Size)
  <2>1. \A q \in 0 .. Size - 1 : Fwd(begin, q) \in us
    BY RingSize DEF Size, Fwd, InRing, Slot, Slots
  <2>2. \A u \in us : LET q == IF u < begin THEN u + Slots - begin ELSE u - begin
                      IN  q \in 0 .. Size - 1 /\ u = Fwd(begin, q)
    BY RingSize DEF Size, Fwd, InRing, Slot, Slots
  <2> HIDE DEF us, Size
  <2>3. \A u \in us : \E q \in 0 .. Size - 1 : u = Fwd(begin, q)
    BY <2>2
  <2> QED
    BY <2>1, <2>3 DEF First, Place
<1> HIDE DEF us
<1>3. us \in SUBSET Slot
  <2>1. Size \in 0 .. Slots
    <3> HIDE DEF Size
    <3> QED
      BY <1>1, RingSize
  <2> QED
    BY <1>2, <2>1, Firsts
<1>4. Size' = 0
  BY <1>1 DEF Size
<1>5. mem' \in Memory /\ (mem.misused => mem'.misused)
  BY <1>1, <1>3, Destroyed
<1>6. ASSUME Sound(mem, Size) PROVE ~mem'.misused /\ mem'.built = {}
  BY <1>1, <1>2, <1>3, <1>6, Destroyed DEF Sound
<1>7. 0 .. 0 - 1 = {}
  OBVIOUS
<1> QED
  BY <1>1, <1>4, <1>5, <1>6, <1>7 DEF Leaves

-----------------------------------------------------------------------------
(* The results the calls promise, element by element.                      *)
LEMMA WithoutRange ==
  ASSUME NEW S, NEW s \in Seq(S), NEW j \in 0 .. Len(s), NEW k \in j .. Len(s)
  PROVE  Deque!Without(s, j, k) =
         [i \in 1 .. Len(s) - (k - j) |-> IF i <= j THEN s[i] ELSE s[i + (k - j)]]
<1> DEFINE r == [i \in 1 .. Len(s) - (k - j) |-> IF i <= j THEN s[i] ELSE s[i + (k - j)]]
<1>1. Len(s) \in Nat /\ j \in Nat /\ k \in Nat /\ j <= k /\ k <= Len(s)
  OBVIOUS
<1>2. CASE j < k
  BY <1>2, CutOut DEF Deque!Without
<1>3. CASE ~(j < k)
  <2>1. Deque!Without(s, j, k) = s
    BY <1>3 DEF Deque!Without
  <2>2. k - j = 0 /\ Len(s) - (k - j) = Len(s)
    BY <1>1, <1>3
  <2>3. \A i \in 1 .. Len(s) : i + (k - j) = i
    BY <1>1, <2>2
  <2>4. r = [i \in 1 .. Len(s) |-> s[i]]
    BY <2>2, <2>3
  <2>5. s = [i \in 1 .. Len(s) |-> s[i]]
    OBVIOUS
  <2> QED
    BY <2>1, <2>4, <2>5
<1> QED
  BY <1>2, <1>3

LEMMA InsertedAt ==
  ASSUME NEW S, NEW s \in Seq(S), NEW k \in 0 .. Len(s), NEW x \in S
  PROVE  Deque!InsertAt(s, k + 1, x) =
         [i \in 1 .. Len(s) + 1 |-> IF i <= k THEN s[i] ELSE IF i = k + 1 THEN x ELSE s[i - 1]]
<1>1. SubSeq(s, 1, (k + 1) - 1) = SubSeq(s, 1, k)
  OBVIOUS
<1>2. Deque!InsertAt(s, k + 1, x) = With(s, k, x)
  BY <1>1, Zenon DEF Deque!InsertAt, With
<1> QED
  BY <1>2, Spliced

LEMMA ResizedTo ==
  ASSUME NEW S, NEW s \in Seq(S), NEW n \in Nat, NEW x \in S
  PROVE  Deque!Resized(s, n, x) = [i \in 1 .. n |-> IF i <= Len(s) THEN s[i] ELSE x]
<1>1. Len(s) \in Nat
  OBVIOUS
<1>2. CASE n <= Len(s)
  <2>1. Deque!Resized(s, n, x) = SubSeq(s, 1, n)
    BY <1>2 DEF Deque!Resized
  <2>2. SubSeq(s, 1, n) = [i \in 1 .. n |-> s[i]]
    BY <1>1, <1>2
  <2>3. \A i \in 1 .. n : i <= Len(s)
    BY <1>1, <1>2
  <2> QED
    BY <2>1, <2>2, <2>3
<1>3. CASE ~(n <= Len(s))
  <2> DEFINE t == [i \in 1 .. n - Len(s) |-> x]
  <2>1. Deque!Resized(s, n, x) = s \o t
    BY <1>3 DEF Deque!Resized, Deque!Copies
  <2>2. t \in Seq(S) /\ Len(t) = n - Len(s)
    BY <1>1, <1>3
  <2>3. \A i \in 1 .. n - Len(s) : t[i] = x
    OBVIOUS
  <2> HIDE DEF t
  <2>4. s \o t = [i \in 1 .. Len(s) + (n - Len(s)) |-> IF i <= Len(s) THEN s[i] ELSE t[i - Len(s)]]
    BY <2>2, Joined
  <2>5. Len(s) + (n - Len(s)) = n
    BY <1>1
  <2>6. \A i \in 1 .. n : ~(i <= Len(s)) => i - Len(s) \in 1 .. n - Len(s)
    BY <1>1
  <2> QED
    BY <2>1, <2>3, <2>4, <2>5, <2>6
<1> QED
  BY <1>2, <1>3

(* Every call throws or leaves what the deque promises.                    *)
Answers(c) ==
  \/ /\ Throw
     /\ Deque!Throws(MaxSize, Contents, c) = TRUE
     /\ ~GrowsAcrossEnd(c)
  \/ /\ thrown' = FALSE
     /\ Deque!Throws(MaxSize, Contents, c) = FALSE
     /\ \E n : LET r == Deque!Result(Contents, c)
               IN  r = [i \in 1 .. n |-> r[i]] /\ Leaves(n, GrowsAcrossEnd(c), r)

LEMMA AnswerLeaves ==
  ASSUME NEW c, NEW n, NEW r, NEW bad, Leaves(n, bad, r),
         thrown' = FALSE, Deque!Throws(MaxSize, Contents, c) = FALSE,
         Deque!Result(Contents, c) = r, r = [i \in 1 .. n |-> r[i]],
         bad <=> GrowsAcrossEnd(c)
  PROVE  Answers(c)
<1>1. Leaves(n, GrowsAcrossEnd(c), r)
  BY DEF Leaves
<1> QED
  BY <1>1 DEF Answers

LEMMA Ends ==
  ASSUME NEW S, NEW s \in Seq(S), NEW x \in S
  PROVE  /\ Append(s, x) = [i \in 1 .. Len(s) + 1 |-> IF i = Len(s) + 1 THEN x ELSE s[i]]
         /\ s # <<>> => Tail(s) = [i \in 1 .. Len(s) - 1 |-> s[i + 1]]
<1>1. \A u \in Seq(S) : u = [i \in 1 .. Len(u) |-> u[i]]
  OBVIOUS
<1>2. Append(s, x) = [i \in 1 .. Len(s) + 1 |-> IF i = Len(s) + 1 THEN x ELSE s[i]]
  <2>1. /\ Append(s, x) \in Seq(S) /\ Len(Append(s, x)) = Len(s) + 1
        /\ \A i \in 1 .. Len(s) + 1 : Append(s, x)[i] = IF i = Len(s) + 1 THEN x ELSE s[i]
    BY AppendProperties
  <2> QED
    BY <1>1, <2>1
<1>3. ASSUME s # <<>> PROVE Tail(s) = [i \in 1 .. Len(s) - 1 |-> s[i + 1]]
  <2>1. /\ Tail(s) \in Seq(S) /\ Len(Tail(s)) = Len(s) - 1
        /\ \A i \in 1 .. Len(s) - 1 : Tail(s)[i] = s[i + 1]
    BY <1>3, HeadTailProperties
  <2> QED
    BY <1>1, <2>1
<1> QED
  BY <1>2, <1>3

LEMMA NextAnswers ==
  ASSUME InRing, mem \in Memory, Next
  PROVE  Answers(call')
<1> DEFINE s == Contents
<1>1. /\ Size \in 0 .. MaxSize /\ Size \in Nat /\ MaxSize \in Nat /\ Size + 1 \in Nat
      /\ s \in Seq(Cell) /\ Len(s) = Size
      /\ begin = end <=> Size = 0
      /\ Full <=> Size = MaxSize
      /\ Value \subseteq Cell
  <2>1. Size \in 0 .. MaxSize /\ (begin = end <=> Size = 0)
    BY Places
  <2>2. s \in Seq(Cell) /\ Len(s) = Size
    BY ContentsAre
  <2> HIDE DEF Size, s
  <2> QED
    BY <2>1, <2>2, RingSize DEF Full, Cell
<1> HIDE DEF s, Size
<1>2. s = <<>> <=> begin = end
  BY <1>1
<1>3. ASSUME NEW x \in Value, PushBack(x), call' = <<"push_back", x>>
      PROVE  Answers(call')
  <2>1. CASE Full
    BY <1>1, <1>3, <2>1 DEF PushBack, Answers, Deque!Throws, GrowsAcrossEnd, s
  <2>2. CASE ~Full
    <3> DEFINE r == [i \in 1 .. Size + 1 |-> IF i = Size + 1 THEN x ELSE s[i]]
    <3>1. Append(s, x) = r
      <4>1. x \in Cell
        BY <1>1
      <4>2. Append(s, x) = [i \in 1 .. Len(s) + 1 |-> IF i = Len(s) + 1 THEN x ELSE s[i]]
        BY <1>1, <4>1, Ends
      <4> QED
        BY <1>1, <4>2
    <3>2. thrown' = FALSE
      BY <1>3, <2>2 DEF PushBack
    <3>3. Leaves(Size + 1, FALSE, r)
      BY <1>3, <2>2, PushBackLeaves DEF s
    <3>4. r = [i \in 1 .. Size + 1 |-> r[i]]
      OBVIOUS
    <3> HIDE DEF r
    <3>5. Deque!Result(Contents, call') = r
      BY <1>1, <1>3, <3>1 DEF Deque!Result, Deque!Front, s
    <3>6. Deque!Throws(MaxSize, Contents, call') = FALSE
      BY <1>1, <1>3, <2>2 DEF Deque!Throws, s
    <3>7. ~GrowsAcrossEnd(call')
      BY <1>3 DEF GrowsAcrossEnd
    <3> QED
      BY <3>2, <3>3, <3>4, <3>5, <3>6, <3>7, AnswerLeaves
  <2> QED
    BY <2>1, <2>2
<1>4. ASSUME NEW x \in Value, PushFront(x), call' = <<"push_front", x>>
      PROVE  Answers(call')
  <2>1. CASE Full
    BY <1>1, <1>4, <2>1 DEF PushFront, Answers, Deque!Throws, GrowsAcrossEnd, s
  <2>2. CASE ~Full
    <3> DEFINE r == [i \in 1 .. Size + 1 |-> IF i = 1 THEN x ELSE s[i - 1]]
    <3>1. <<x>> \o s = r
      <4>1. <<x>> \in Seq(Cell) /\ Len(<<x>>) = 1 /\ <<x>>[1] = x
        BY <1>1
      <4>2. <<x>> \o s = [i \in 1 .. 1 + Size |-> IF i <= 1 THEN <<x>>[i] ELSE s[i - 1]]
        BY <1>1, <4>1, Joined
      <4>3. 1 + Size = Size + 1 /\ \A i \in 1 .. Size + 1 : i <= 1 <=> i = 1
        BY <1>1
      <4> QED
        BY <4>1, <4>2, <4>3
    <3>2. thrown' = FALSE
      BY <1>4, <2>2 DEF PushFront
    <3>3. Leaves(Size + 1, FALSE, r)
      BY <1>4, <2>2, PushFrontLeaves DEF s
    <3>4. r = [i \in 1 .. Size + 1 |-> r[i]]
      OBVIOUS
    <3> HIDE DEF r
    <3>5. Deque!Result(Contents, call') = r
      BY <1>1, <1>4, <3>1 DEF Deque!Result, Deque!Front, s
    <3>6. Deque!Throws(MaxSize, Contents, call') = FALSE
      BY <1>1, <1>4, <2>2 DEF Deque!Throws, s
    <3>7. ~GrowsAcrossEnd(call')
      BY <1>4 DEF GrowsAcrossEnd
    <3> QED
      BY <3>2, <3>3, <3>4, <3>5, <3>6, <3>7, AnswerLeaves
  <2> QED
    BY <2>1, <2>2
<1>5. ASSUME PopBack, call' = <<"pop_back">>
      PROVE  Answers(call')
  <2>1. CASE begin = end
    BY <1>2, <1>5, <2>1 DEF PopBack, Answers, Deque!Throws, GrowsAcrossEnd, s
  <2>2. CASE begin # end
    <3> DEFINE r == [i \in 1 .. Size - 1 |-> s[i]]
    <3>1. SubSeq(s, 1, Size - 1) = r
      BY <1>1
    <3>2. thrown' = FALSE
      BY <1>5, <2>2 DEF PopBack
    <3>3. Leaves(Size - 1, FALSE, r)
      BY <1>5, <2>2, PopBackLeaves DEF s
    <3>4. r = [i \in 1 .. Size - 1 |-> r[i]]
      OBVIOUS
    <3> HIDE DEF r
    <3>5. Deque!Result(Contents, call') = r
      BY <1>1, <1>5, <3>1 DEF Deque!Result, Deque!Front, s
    <3>6. Deque!Throws(MaxSize, Contents, call') = FALSE
      BY <1>1, <1>2, <1>5, <2>2 DEF Deque!Throws, s
    <3>7. ~GrowsAcrossEnd(call')
      BY <1>5 DEF GrowsAcrossEnd
    <3> QED
      BY <3>2, <3>3, <3>4, <3>5, <3>6, <3>7, AnswerLeaves
  <2> QED
    BY <2>1, <2>2
<1>6. ASSUME PopFront, call' = <<"pop_front">>
      PROVE  Answers(call')
  <2>1. CASE begin = end
    BY <1>2, <1>6, <2>1 DEF PopFront, Answers, Deque!Throws, GrowsAcrossEnd, s
  <2>2. CASE begin # end
    <3> DEFINE r == [i \in 1 .. Size - 1 |-> s[i + 1]]
    <3>1. Tail(s) = r
      <4>1. s # <<>>
        BY <1>2, <2>2
      <4>2. Tail(s) = [i \in 1 .. Len(s) - 1 |-> s[i + 1]]
        BY <1>1, <4>1, Ends
      <4> QED
        BY <1>1, <4>2
    <3>2. thrown' = FALSE
      BY <1>6, <2>2 DEF PopFront
    <3>3. Leaves(Size - 1, FALSE, r)
      BY <1>6, <2>2, PopFrontLeaves DEF s
    <3>4. r = [i \in 1 .. Size - 1 |-> r[i]]
      OBVIOUS
    <3> HIDE DEF r
    <3>5. Deque!Result(Contents, call') = r
      BY <1>1, <1>6, <3>1 DEF Deque!Result, Deque!Front, s
    <3>6. Deque!Throws(MaxSize, Contents, call') = FALSE
      BY <1>1, <1>2, <1>6, <2>2 DEF Deque!Throws, s
    <3>7. ~GrowsAcrossEnd(call')
      BY <1>6 DEF GrowsAcrossEnd
    <3> QED
      BY <3>2, <3>3, <3>4, <3>5, <3>6, <3>7, AnswerLeaves
  <2> QED
    BY <2>1, <2>2
<1>7. ASSUME NEW x \in Value, NEW k \in 0 .. Size, InsertAtIt(k, x), call' = <<"insert", k, x>>
      PROVE  Answers(call')
  <2>1. CASE Full
    BY <1>1, <1>7, <2>1 DEF InsertAtIt, Answers, Deque!Throws, GrowsAcrossEnd, s
  <2>2. CASE ~Full
    <3> DEFINE r == [i \in 1 .. Size + 1 |->
                       IF i <= k THEN s[i] ELSE IF i = k + 1 THEN x ELSE s[i - 1]]
    <3>1. Deque!InsertAt(s, k + 1, x) = r
      <4>1. s \in Seq(Cell) /\ x \in Cell /\ k \in 0 .. Len(s)
        BY <1>1
      <4>2. Deque!InsertAt(s, k + 1, x) =
            [i \in 1 .. Len(s) + 1 |-> IF i <= k THEN s[i] ELSE IF i = k + 1 THEN x ELSE s[i - 1]]
        BY <4>1, InsertedAt
      <4> QED
        BY <1>1, <4>2
    <3>2. thrown' = FALSE
      BY <1>7, <2>2 DEF InsertAtIt
    <3>3. Leaves(Size + 1, FALSE, r)
      BY <1>7, <2>2, InsertAtItLeaves DEF s
    <3>4. r = [i \in 1 .. Size + 1 |-> r[i]]
      OBVIOUS
    <3> HIDE DEF r
    <3>5. Deque!Result(Contents, call') = r
      BY <1>1, <1>7, <3>1 DEF Deque!Result, Deque!Front, s
    <3>6. Deque!Throws(MaxSize, Contents, call') = FALSE
      BY <1>1, <1>7, <2>2 DEF Deque!Throws, s
    <3>7. ~GrowsAcrossEnd(call')
      BY <1>7 DEF GrowsAcrossEnd
    <3> QED
      BY <3>2, <3>3, <3>4, <3>5, <3>6, <3>7, AnswerLeaves
  <2> QED
    BY <2>1, <2>2
<1>8. ASSUME NEW k \in 0 .. Size, k < Size \/ k = 0, EraseAtIt(k), call' = <<"erase", k>>
      PROVE  Answers(call')
  <2>1. CASE begin = end
    BY <1>2, <1>8, <2>1 DEF EraseAtIt, Answers, Deque!Throws, GrowsAcrossEnd, s
  <2>2. CASE begin # end
    <3> DEFINE r == [i \in 1 .. Size - 1 |-> IF i <= k THEN s[i] ELSE s[i + 1]]
    <3>1. Deque!Without(s, k, k + 1) = r
      <4>1. s \in Seq(Cell) /\ k \in 0 .. Len(s) /\ k + 1 \in k .. Len(s) /\ (k + 1) - k = 1
        <5> QED
          BY <1>1, <1>8, <2>2
      <4>2. ASSUME NEW l \in k .. Len(s)
            PROVE  Deque!Without(s, k, l) =
                   [i \in 1 .. Len(s) - (l - k) |-> IF i <= k THEN s[i] ELSE s[i + (l - k)]]
        BY <4>1, WithoutRange
      <4> QED
        BY <1>1, <4>1, <4>2
    <3>2. thrown' = FALSE
      BY <1>8, <2>2 DEF EraseAtIt
    <3>3. Leaves(Size - 1, FALSE, r)
      BY <1>8, <2>2, EraseAtItLeaves DEF s
    <3>4. r = [i \in 1 .. Size - 1 |-> r[i]]
      OBVIOUS
    <3> HIDE DEF r
    <3>5. Deque!Result(Contents, call') = r
      BY <1>1, <1>8, <3>1 DEF Deque!Result, Deque!Front, s
    <3>6. Deque!Throws(MaxSize, Contents, call') = FALSE
      BY <1>1, <1>2, <1>8, <2>2 DEF Deque!Throws, s
    <3>7. ~GrowsAcrossEnd(call')
      BY <1>8 DEF GrowsAcrossEnd
    <3> QED
      BY <3>2, <3>3, <3>4, <3>5, <3>6, <3>7, AnswerLeaves
  <2> QED
    BY <2>1, <2>2
<1>9. ASSUME NEW j \in 0 .. Size, NEW k \in 0 .. Size, EraseRange(j, k),
             call' = <<"erase_range", j, k>>
      PROVE  Answers(call')
  <2>1. CASE k < j
    <3>1. Throw
      BY <1>9, <2>1, EraseRangeLeaves
    <3> QED
      BY <1>9, <2>1, <3>1 DEF Answers, Deque!Throws, GrowsAcrossEnd
  <2>2. CASE j <= k
    <3> DEFINE d == k - j
               r == [i \in 1 .. Size - d |-> IF i <= j THEN s[i] ELSE s[i + d]]
    <3>1. Deque!Without(s, j, k) = r
      <4>1. s \in Seq(Cell) /\ j \in 0 .. Len(s) /\ k \in j .. Len(s)
        <5> QED
          BY <1>1, <1>9, <2>2
      <4>2. Deque!Without(s, j, k) =
            [i \in 1 .. Len(s) - (k - j) |-> IF i <= j THEN s[i] ELSE s[i + (k - j)]]
        BY <4>1, WithoutRange
      <4> QED
        BY <1>1, <4>2
    <3>2. Leaves(Size - d, FALSE, r) /\ thrown' = FALSE
      BY <1>9, <2>2, EraseRangeLeaves DEF s
    <3>3. r = [i \in 1 .. Size - d |-> r[i]]
      OBVIOUS
    <3>4. ~(k < j)
      <4> QED
        BY <1>1, <1>9, <2>2
    <3> HIDE DEF d, r
    <3>5. Deque!Result(Contents, call') = r
      BY <1>1, <1>9, <3>1 DEF Deque!Result, Deque!Front, s
    <3>6. Deque!Throws(MaxSize, Contents, call') = FALSE
      BY <1>9, <3>4 DEF Deque!Throws, s
    <3>7. ~GrowsAcrossEnd(call')
      BY <1>9 DEF GrowsAcrossEnd
    <3> QED
      BY <3>2, <3>3, <3>5, <3>6, <3>7, AnswerLeaves
  <2>3. k < j \/ j <= k
    <3> QED
      BY <1>1, <1>9
  <2> QED
    BY <2>1, <2>2, <2>3
<1>10. ASSUME NEW x \in Value, NEW n \in 0 .. Size + MaxGrowth, Resize(n, x),
              call' = <<"resize", n, x>>
       PROVE  Answers(call')
  <2> DEFINE r == [i \in 1 .. n |-> IF i <= Size THEN s[i] ELSE x]
  <2>1. /\ n \in Nat
        /\ (n > MaxSize => n > Size) /\ (n > Size <=> ~(n <= Size))
        /\ (n > Size <=> Size < n) /\ (n > MaxSize <=> ~(n <= MaxSize))
        /\ (n <= Size => n \in 0 .. Size /\ n <= MaxSize /\ ~(Size < n))
        /\ (n <= MaxSize => n \in 0 .. MaxSize)
    <3> QED
      BY <1>1, <1>10, FixedDequeAssumption
  <2>2. Deque!Resized(s, n, x) = r
    <3>1. x \in Cell
      BY <1>1
    <3>2. Deque!Resized(s, n, x) = [i \in 1 .. n |-> IF i <= Len(s) THEN s[i] ELSE x]
      BY <1>1, <2>1, <3>1, ResizedTo
    <3> QED
      BY <1>1, <3>2
  <2>3. r = [i \in 1 .. n |-> r[i]]
    OBVIOUS
  <2>4. CASE n > MaxSize
    <3>1. Throw
      BY <1>10, <2>1, <2>4 DEF Resize
    <3>2. Deque!Throws(MaxSize, s, call') = TRUE /\ ~GrowsAcrossEnd(call')
      <4> QED
        BY <1>10, <2>1, <2>4 DEF Deque!Throws, GrowsAcrossEnd
    <3> QED
      BY <3>1, <3>2 DEF Answers, s
  <2>5. CASE n <= Size
    <3>1. /\ Deque!Result(s, call') = r
          /\ Deque!Throws(MaxSize, s, call') = FALSE
          /\ ~GrowsAcrossEnd(call')
      <4> HIDE DEF r
      <4> QED
        BY <1>10, <2>1, <2>2, <2>5 DEF Deque!Throws, Deque!Result, GrowsAcrossEnd
    <3>2. r = [i \in 1 .. n |-> s[i]]
      <4>1. \A i \in 1 .. n : i <= Size
        <5> QED
          BY <1>1, <2>1, <2>5
      <4> QED
        BY <4>1
    <3>3. Leaves(n, FALSE, r) /\ thrown' = FALSE
      <4>1. Leaves(n, FALSE, [i \in 1 .. n |-> Contents[i]]) /\ thrown' = FALSE
        BY <1>10, <2>1, <2>5, ShrunkLeaves
      <4> QED
        BY <3>2, <4>1 DEF s
    <3> HIDE DEF r
    <3> QED
      BY <2>3, <3>1, <3>3, AnswerLeaves DEF s
  <2>6. CASE Size < n /\ n <= MaxSize
    <3> DEFINE bad == end + (n - Size) > Slots
    <3>1. /\ Deque!Result(s, call') = r
          /\ Deque!Throws(MaxSize, s, call') = FALSE
          /\ bad <=> GrowsAcrossEnd(call')
      <4> HIDE DEF r
      <4> QED
        BY <1>10, <2>1, <2>2, <2>6 DEF Deque!Throws, Deque!Result, GrowsAcrossEnd
    <3>2. Leaves(n, bad, r) /\ thrown' = FALSE
      BY <1>10, <2>1, <2>6, GrownLeaves DEF s
    <3> HIDE DEF r, bad
    <3>3. Leaves(n, GrowsAcrossEnd(call'), r)
      BY <3>1, <3>2 DEF Leaves
    <3> QED
      BY <2>3, <3>1, <3>2, <3>3 DEF Answers, s
  <2> QED
    BY <2>1, <2>4, <2>5, <2>6
<1>11. ASSUME NEW x \in Value, NEW k \in 0 .. Size, SetAt(k, x), call' = <<"set", k, x>>
       PROVE  Answers(call')
  <2>1. k >= Size <=> ~(k < Size)
    <3> QED
      BY <1>1, <1>11
  <2>2. CASE k >= Size
    BY <1>1, <1>11, <2>1, <2>2 DEF SetAt, Throw, Answers, Deque!Throws, GrowsAcrossEnd, s
  <2>3. CASE k < Size
    <3> DEFINE r == [i \in 1 .. Size |-> IF i = k + 1 THEN x ELSE s[i]]
    <3>1. [s EXCEPT ![k + 1] = x] = r
      <4>1. s = [i \in 1 .. Size |-> s[i]]
        BY <1>1
      <4> QED
        BY <4>1
    <3>2. Leaves(Size, FALSE, r) /\ thrown' = FALSE
      BY <1>11, <2>3, SetAtLeaves DEF s
    <3>3. r = [i \in 1 .. Size |-> r[i]]
      OBVIOUS
    <3> HIDE DEF r
    <3>4. Deque!Result(Contents, call') = r
      BY <1>1, <1>11, <3>1 DEF Deque!Result, Deque!Front, s
    <3>5. Deque!Throws(MaxSize, Contents, call') = FALSE
      BY <1>1, <1>11, <2>1, <2>3 DEF Deque!Throws, s
    <3>6. ~GrowsAcrossEnd(call')
      BY <1>11 DEF GrowsAcrossEnd
    <3> QED
      BY <3>2, <3>3, <3>4, <3>5, <3>6, AnswerLeaves
  <2> QED
    BY <2>1, <2>2, <2>3
<1>12. ASSUME Clear, call' = <<"clear">>
       PROVE  Answers(call')
  <2>1. /\ Deque!Result(Contents, call') = <<>>
        /\ Deque!Throws(MaxSize, Contents, call') = FALSE
        /\ ~GrowsAcrossEnd(call')
    BY <1>12 DEF Deque!Throws, Deque!Result, GrowsAcrossEnd
  <2>2. Leaves(0, FALSE, <<>>) /\ thrown' = FALSE
    BY <1>12, ClearLeaves
  <2>3. <<>> = [i \in 1 .. 0 |-> <<>>[i]]
    OBVIOUS
  <2> QED
    BY <2>1, <2>2, <2>3, AnswerLeaves
<1> QED
  BY <1>3, <1>4, <1>5, <1>6, <1>7, <1>8, <1>9, <1>10, <1>11, <1>12 DEF Next

-----------------------------------------------------------------------------
(* The inductive invariant: what a call leaves depends on begin and end    *)
(* being slots, and whether it misuses one on where the elements are.      *)
IInv == TypeOK /\ LifetimesRespected

LEMMA Typed == TypeOK <=> mem \in Memory /\ InRing /\ thrown \in BOOLEAN
BY DEF TypeOK, Memory, Cell, InRing

LEMMA SoundUnlessMisused ==
  ASSUME TypeOK
  PROVE  LifetimesRespected <=> (~mem.misused => Sound(mem, Size))
BY DEF LifetimesRespected, Sound, First, Place

LEMMA InitInvariant == Init => IInv
<1> SUFFICES ASSUME Init PROVE TypeOK /\ LifetimesRespected
  BY DEF IInv
<1>1. TypeOK
  BY RingSize DEF Init, TypeOK
<1>2. Size = 0
  BY DEF Init, Size
<1>3. 0 .. Size - 1 = {}
  BY <1>2
<1>4. mem.built = {}
  BY DEF Init
<1> QED
  BY <1>1, <1>3, <1>4 DEF LifetimesRespected

LEMMA CallInvariant ==
  ASSUME IInv, Next
  PROVE  IInv' /\ (~mem.misused => (mem'.misused <=> GrowsAcrossEnd(call')))
<1>1. mem \in Memory /\ InRing
  BY Typed DEF IInv
<1>2. ~mem.misused => Sound(mem, Size)
  BY SoundUnlessMisused DEF IInv
<1>3. Answers(call')
  BY <1>1, NextAnswers
<1>4. CASE Throw /\ ~GrowsAcrossEnd(call')
  <2>1. mem' = mem /\ begin' = begin /\ end' = end /\ thrown' = TRUE
    BY <1>4 DEF Throw
  <2>2. Size' = Size
    BY <2>1 DEF Size
  <2>3. TypeOK'
    BY <2>1 DEF IInv, TypeOK
  <2>4. LifetimesRespected'
    BY <2>1, <2>2 DEF IInv, LifetimesRespected, Fwd
  <2> QED
    BY <1>4, <2>1, <2>3, <2>4 DEF IInv
<1>5. ASSUME thrown' = FALSE, NEW n, NEW r, Leaves(n, GrowsAcrossEnd(call'), r)
      PROVE  IInv' /\ (~mem.misused => (mem'.misused <=> GrowsAcrossEnd(call')))
  <2>1. TypeOK'
    BY <1>5 DEF Leaves, TypeOK, Memory, Cell
  <2>2. ~mem.misused => (mem'.misused <=> GrowsAcrossEnd(call'))
    BY <1>2, <1>5 DEF Leaves
  <2>3. LifetimesRespected'
    BY <1>2, <1>5 DEF Leaves, LifetimesRespected
  <2> QED
    BY <2>1, <2>2, <2>3 DEF IInv
<1> QED
  BY <1>3, <1>4, <1>5 DEF Answers

LEMMA StepInvariant == IInv /\ [Next]_vars => IInv'
<1> SUFFICES ASSUME IInv, [Next]_vars PROVE IInv'
  OBVIOUS
<1>1. CASE Next
  BY <1>1, CallInvariant
<1>2. CASE UNCHANGED vars
  BY <1>2 DEF vars, IInv, TypeOK, LifetimesRespected, Size, Fwd
<1> QED
  BY <1>1, <1>2

(* The inductive invariant holds of every sequence of calls.               *)
THEOREM Invariance == Spec => []IInv
BY InitInvariant, StepInvariant, PTL DEF Spec

(* begin and end stay in the storage, for a ring of any size.              *)
THEOREM TypeCorrect == Spec => []TypeOK
BY Invariance, PTL DEF IInv

(* As long as no slot was misused, those between begin and end, and no     *)
(* others, hold an element: construct, destroy and _move (fixed_deque.h)   *)
(* keep the array and the two pointers in step.                            *)
THEOREM Lifetimes == Spec => []LifetimesRespected
BY Invariance, PTL DEF IInv

(* The iterators' operators tell the positions of the elements apart,      *)
(* wherever in the ring they are.                                          *)
THEOREM IteratorsAgree == Spec => []IteratorsOrdered
<1>1. TypeOK => IteratorsOrdered
  <2> SUFFICES ASSUME InRing PROVE IteratorsOrdered
    BY Typed
  <2> HIDE DEF Size
  <2> QED
    BY Ordered DEF IteratorsOrdered, Place
<1> QED
  BY <1>1, TypeCorrect, PTL

(* No call uses a slot without an element, constructs over one or destroys *)
(* one twice, but a resize that grows over the end of the storage.         *)
THEOREM OnlyGrowthMisuses == Spec => MisusedByGrowthOnly
<1>1. IInv /\ [Next]_vars => [~mem.misused => (mem'.misused <=> GrowsAcrossEnd(call'))]_vars
  BY CallInvariant
<1> QED
  BY <1>1, Invariance, PTL DEF Spec, MisusedByGrowthOnly

(* What the ring holds, step by step, is what the bounded deque holds.     *)
LEMMA InitImplements == Init => Deque!Init
<1> SUFFICES ASSUME Init PROVE Deque!Init
  OBVIOUS
<1>1. Size = 0
  BY DEF Init, Size
<1>2. Contents = <<>>
  BY <1>1 DEF Contents
<1> QED
  BY <1>2 DEF Init, Deque!Init

LEMMA CallImplements ==
  ASSUME TypeOK, Next
  PROVE  Deque!Next
<1>1. Answers(call')
  BY Typed, NextAnswers
<1>2. CASE Throw /\ Deque!Throws(MaxSize, Contents, call') = TRUE
  <2>1. Contents' = Contents
    BY <1>2 DEF Throw, Contents, Size, At, Fwd
  <2> QED
    BY <1>2, <2>1 DEF Throw, Deque!Next
<1>3. CASE /\ thrown' = FALSE
           /\ Deque!Throws(MaxSize, Contents, call') = FALSE
           /\ \E n : LET r == Deque!Result(Contents, call')
                     IN  r = [i \in 1 .. n |-> r[i]] /\ Leaves(n, GrowsAcrossEnd(call'), r)
  <2> DEFINE r == Deque!Result(Contents, call')
  <2>1. PICK n : r = [i \in 1 .. n |-> r[i]] /\ Leaves(n, GrowsAcrossEnd(call'), r)
    BY <1>3
  <2> HIDE DEF r
  <2>2. Contents' = r
    BY <2>1, LeftContents
  <2> QED
    BY <1>3, <2>2 DEF Deque!Next, r
<1> QED
  BY <1>1, <1>2, <1>3 DEF Answers

(* The ring implements the bounded deque: at every call the elements from  *)
(* begin to end become those promised, and it throws only when it must.    *)
THEOREM Implementation == Spec => ImplementsBoundedDeque
<1>1. TypeOK /\ [Next]_vars => [Deque!Next]_Deque!vars
  <2> SUFFICES ASSUME TypeOK, [Next]_vars PROVE [Deque!Next]_Deque!vars
    OBVIOUS
  <2>1. CASE Next
    BY <2>1, CallImplements
  <2>2. CASE UNCHANGED vars
    BY <2>2 DEF vars, Deque!vars, Contents, Size, At, Fwd
  <2> QED
    BY <2>1, <2>2
<1> QED
  BY <1>1, InitImplements, TypeCorrect, PTL DEF Spec, ImplementsBoundedDeque, Deque!Spec
=============================================================================
