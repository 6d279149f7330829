----------------------------- MODULE FixedDeque -----------------------------
(***************************************************************************)
(* FixedDeque<T> (igush/fixed_deque.h): a deque in one array of MaxSize+1  *)
(* slots used as a ring.  The array is raw memory: an element is           *)
(* constructed in a slot before it is assigned to or read, and destroyed   *)
(* once.  Pointers and iterators are slot numbers; end is the first slot   *)
(* after the elements, and the ring is never quite full, or begin = end    *)
(* would not mean that it is empty.                                        *)
(***************************************************************************)
EXTENDS Naturals, Sequences

CONSTANTS
  Value,
  Raw,       (* what a slot without an element holds                       *)
  MaxSize,   (* the argument of the constructor                            *)
  MaxGrowth  (* bound: elements one resize adds                            *)

ASSUME FixedDequeAssumption ==
  /\ MaxSize \in Nat \ {0}
  /\ MaxGrowth \in Nat
  /\ Raw \notin Value

VARIABLES
  mem,     (* the slots, which of them hold an element, and whether an     *)
           (* element was assigned to, read or destroyed where none was,   *)
           (* or constructed over another                                  *)
  begin,   (* _begin                                                       *)
  end,     (* _end                                                         *)
  thrown,  (* the last call threw std::out_of_range                        *)
  call     (* the last call: its name and arguments                        *)

vars == <<mem, begin, end, thrown, call>>

(* What the calls depend on, and do.                                       *)
Ring == <<mem, begin, end, thrown>>

Slots == MaxSize + 1
Slot  == 0 .. MaxSize

(* Broken: the slot after the last is a slot.                              *)
FwdTooFar(u, n) == IF u + n > Slots THEN u + n - Slots ELSE u + n

(* A pointer moved forward or back around the ring, at most once.          *)
Fwd(u, n)  == IF u + n > MaxSize THEN u + n - Slots ELSE u + n
Back(u, n) == IF u < n THEN u + Slots - n ELSE u - n

Size == IF end < begin THEN end + Slots - begin ELSE end - begin
FullLate == Size > MaxSize  (* broken: end may meet begin                  *)
Full == Size = MaxSize

(* The iterators' order.  u and w are on different sides of the gap of a   *)
(* ring that wraps around, u on the side of begin.                         *)
SpecialLowerNever(u, w) == FALSE  (* broken: slots are compared            *)
SpecialLower(u, w) == u >= begin /\ begin > end /\ end >= w

Lower(u, w)  == SpecialLower(u, w) \/ (~SpecialLower(w, u) /\ u < w)
Higher(u, w) == ~SpecialLower(u, w) /\ (SpecialLower(w, u) \/ u > w)

(* w - u, for w not lower than u.                                          *)
Distance(u, w) == IF SpecialLower(u, w) THEN w + Slots - u ELSE w - u

-----------------------------------------------------------------------------
(* operator[](n).                                                          *)
At(n) == mem.cell[Fwd(begin, n)]

(***************************************************************************)
(* What is done to a slot of m.                                            *)
(***************************************************************************)
Construct(m, u, x) ==
  [cell |-> [m.cell EXCEPT ![u] = x], built |-> m.built \union {u},
   misused |-> m.misused \/ u \in m.built]

Assign(m, u, x) ==
  [cell |-> [m.cell EXCEPT ![u] = x], built |-> m.built,
   misused |-> m.misused \/ u \notin m.built]

Destroy(m, us) ==
  [cell |-> [u \in Slot |-> IF u \in us THEN Raw ELSE m.cell[u]],
   built |-> m.built \ us, misused |-> m.misused \/ ~(us \subseteq m.built)]

(* _move: the slots from end on hold no element yet.                       *)
MoveAssigns(m, u, x) == Assign(m, u, x)  (* broken *)
Move(m, u, x) ==
  IF Higher(u, end) \/ u = end THEN Construct(m, u, x) ELSE Assign(m, u, x)

(* The loops of insert and erase: elements one slot back, from end down to *)
(* it, and n slots to the front, from it + n up to end.                    *)
ShiftedBack(it) ==
  LET m[i \in 0 .. Distance(it, end)] ==
        IF i = 0 THEN mem
        ELSE Move(m[i - 1], Back(Fwd(end, 1), i), m[i - 1].cell[Back(end, i)])
  IN  m[Distance(it, end)]

ShiftedToFront(it, n) ==
  LET last == Distance(it, end) - n
      m[i \in 0 .. last] ==
        IF i = 0 THEN mem
        ELSE Assign(m[i - 1], Fwd(it, i - 1), m[i - 1].cell[Fwd(Fwd(it, i - 1), n)])
  IN  m[last]

Extended(n, x) ==
  LET m[i \in 0 .. n] == IF i = 0 THEN mem ELSE Move(m[i - 1], Fwd(end, i - 1), x)
  IN  m[n]

-----------------------------------------------------------------------------
Init ==
  /\ mem = [cell |-> [u \in Slot |-> Raw], built |-> {}, misused |-> FALSE]
  /\ begin = 0 /\ end = 0
  /\ thrown = FALSE
  /\ call = <<"create">>

Throw == thrown' = TRUE /\ UNCHANGED <<mem, begin, end>>

PushBack(x) ==
  \/ Full /\ Throw
  \/ /\ ~Full
     /\ mem' = Construct(mem, end, x)
     /\ end' = Fwd(end, 1)
     /\ thrown' = FALSE /\ UNCHANGED begin

PopBack ==
  \/ begin = end /\ Throw
  \/ /\ begin # end
     /\ end' = Back(end, 1)
     /\ mem' = Destroy(mem, {end'})
     /\ thrown' = FALSE /\ UNCHANGED begin

PushFront(x) ==
  \/ Full /\ Throw
  \/ /\ ~Full
     /\ begin' = Back(begin, 1)
     /\ mem' = Construct(mem, begin', x)
     /\ thrown' = FALSE /\ UNCHANGED end

PopFront ==
  \/ begin = end /\ Throw
  \/ /\ begin # end
     /\ mem' = Destroy(mem, {begin})
     /\ begin' = Fwd(begin, 1)
     /\ thrown' = FALSE /\ UNCHANGED end

(* it = begin() + k.                                                       *)
InsertAtIt(k, x) ==
  LET it == Fwd(begin, k)
  IN  \/ Full /\ Throw
      \/ /\ ~Full
         /\ mem' = Move(ShiftedBack(it), it, x)
         /\ end' = Fwd(end, 1)
         /\ thrown' = FALSE /\ UNCHANGED begin

EraseAtIt(k) ==
  \/ begin = end /\ Throw
  \/ /\ begin # end
     /\ end' = Back(end, 1)
     /\ mem' = Destroy(ShiftedToFront(Fwd(begin, k), 1), {end'})
     /\ thrown' = FALSE /\ UNCHANGED begin

(* erase(begin() + j, begin() + k).  How many to erase is unsigned: for    *)
(* k < j it is more than there are.                                        *)
EraseRange(j, k) ==
  LET first == Fwd(begin, j)
      last  == Fwd(begin, k)
      n     == Distance(first, last)
  IN  \/ Lower(last, first) /\ Throw
      \/ /\ ~Lower(last, first)
         /\ end' = Back(end, n)
         /\ mem' = Destroy(ShiftedToFront(first, n), {Fwd(end', i) : i \in 0 .. n - 1})
         /\ thrown' = FALSE /\ UNCHANGED begin

Resize(n, x) ==
  \/ n > Size /\ n > MaxSize /\ Throw
  \/ /\ n > Size /\ n <= MaxSize
     /\ mem' = Extended(n - Size, x)
     /\ end' = Fwd(end, n - Size)
     /\ thrown' = FALSE /\ UNCHANGED begin
  \/ /\ n <= Size
     /\ end' = Back(end, Size - n)
     /\ mem' = Destroy(mem, {Fwd(end', i) : i \in 0 .. Size - n - 1})
     /\ thrown' = FALSE /\ UNCHANGED begin

(* at(k) = x.                                                              *)
SetAt(k, x) ==
  \/ k >= Size /\ Throw
  \/ /\ k < Size
     /\ mem' = Assign(mem, Fwd(begin, k), x)
     /\ thrown' = FALSE /\ UNCHANGED <<begin, end>>

(* Broken: the elements after the wrap are forgotten.                      *)
ClearToStorageEnd ==
  /\ mem' = Destroy(mem, IF begin > end THEN begin .. MaxSize ELSE begin .. end - 1)
  /\ begin' = 0 /\ end' = 0
  /\ thrown' = FALSE

Clear ==
  /\ mem' = Destroy(mem, IF begin > end THEN begin .. MaxSize \union 0 .. end - 1
                                        ELSE begin .. end - 1)
  /\ begin' = 0 /\ end' = 0
  /\ thrown' = FALSE

Next ==
  \/ \E x \in Value : PushBack(x) /\ call' = <<"push_back", x>>
  \/ \E x \in Value : PushFront(x) /\ call' = <<"push_front", x>>
  \/ PopBack /\ call' = <<"pop_back">>
  \/ PopFront /\ call' = <<"pop_front">>
  \/ \E x \in Value : \E k \in 0 .. Size : InsertAtIt(k, x) /\ call' = <<"insert", k, x>>
  \/ \E k \in 0 .. Size :
       (k < Size \/ k = 0) /\ EraseAtIt(k) /\ call' = <<"erase", k>>
  \/ \E j, k \in 0 .. Size : EraseRange(j, k) /\ call' = <<"erase_range", j, k>>
  \/ \E x \in Value : \E n \in 0 .. Size + MaxGrowth :
       Resize(n, x) /\ call' = <<"resize", n, x>>
  \/ \E x \in Value : \E k \in 0 .. Size : SetAt(k, x) /\ call' = <<"set", k, x>>
  \/ Clear /\ call' = <<"clear">>

Spec == Init /\ [][Next]_vars

-----------------------------------------------------------------------------
TypeOK ==
  /\ mem \in [cell : [Slot -> Value \union {Raw}], built : SUBSET Slot, misused : BOOLEAN]
  /\ begin \in Slot
  /\ end \in Slot
  /\ thrown \in BOOLEAN

(* The slots between begin and end, and no others, hold an element: every  *)
(* one was constructed before it was used and destroyed once after         *)
(* (construct, destroy and _move), as long as none was misused.            *)
LifetimesRespected ==
  ~mem.misused => mem.built = {Fwd(begin, i) : i \in 0 .. Size - 1}

(* A resize that adds elements beyond the end of the storage: there they   *)
(* compare lower than the end, and _move assigns where nothing was         *)
(* constructed.                                                            *)
GrowsAcrossEnd(c) ==
  /\ c[1] = "resize"
  /\ Size < c[2] /\ c[2] <= MaxSize
  /\ end + (c[2] - Size) > Slots

(* Slots are misused by such a resize, and by no other call; IgushArray    *)
(* only shrinks a deque (_decrease_size).                                  *)
MisusedByGrowthOnly ==
  [][~mem.misused => (mem'.misused <=> GrowsAcrossEnd(call'))]_vars

(* The iterators' operators agree with the positions they stand for,       *)
(* wherever in the ring the elements are: <, > and - of begin() + j and    *)
(* begin() + k, end() included.                                            *)
IteratorsOrdered ==
  \A j, k \in 0 .. Size :
    LET u == Fwd(begin, j)
        w == Fwd(begin, k)
    IN  /\ Lower(u, w) <=> j < k
        /\ Higher(u, w) <=> j > k
        /\ j <= k => Distance(u, w) = k - j
        /\ Back(w, k) = begin

(* The ring is a deque: what begin()[0], begin()[1], ... hold changes as   *)
(* the operations promise, and they throw only when they must.             *)
Contents == [i \in 1 .. Size |-> At(i - 1)]

Deque == INSTANCE BoundedDeque WITH contents <- Contents

ImplementsBoundedDeque == Deque!Spec
=============================================================================
