------------------------------- MODULE Deques -------------------------------
(***************************************************************************)
(* The operations of IgushArray<T> (igush/igush_array.h) on its vector of  *)
(* deques, as operators on constants: vs stands for *_v, the deques, and d *)
(* for _deq_size, how many elements one takes.  A deque is a sequence      *)
(* here, changed by the calls that FixedDeque is shown to implement, each  *)
(* of which may throw.                                                     *)
(*                                                                         *)
(* Indices and offsets are those of the code, from 0; an iterator is the   *)
(* number of a deque, from 1, and an offset in it.                         *)
(***************************************************************************)
EXTENDS Integers, SequenceCalls

CONSTANTS
  Value,
  Thrown  (* stands for a deque one of whose calls threw                   *)

ASSUME DequesAssumption == Value # {} /\ Thrown \notin Seq(Value)

Ceil(n, d)  == (n + d - 1) \div d
AtLeast1(n) == IF n = 0 THEN 1 ELSE n
Least(m, n) == IF m < n THEN m ELSE n

SizeOf(vs, d) == IF vs = <<>> THEN 0 ELSE (Len(vs) - 1) * d + Len(Last(vs))

-----------------------------------------------------------------------------
(***************************************************************************)
(* Iterators.                                                              *)
(***************************************************************************)
Begin   == [vec |-> 1, deq |-> 0]
End(vs) == [vec |-> Len(vs), deq |-> Len(Last(vs))]

ItLower(a, b) == a.vec < b.vec \/ (a.vec = b.vec /\ a.deq < b.deq)

(* Broken: the end of a deque is not taken for the beginning of the next.  *)
PlusStaying(vs, d, it, n) ==
  LET toEnd == Len(vs[it.vec]) - it.deq
      skip  == Least((n - toEnd) \div d, Len(vs) - it.vec - 1)
  IN  IF n = 0 \/ n <= toEnd \/ it.vec = Len(vs)
      THEN [it EXCEPT !.deq = @ + n]
      ELSE [vec |-> it.vec + 1 + skip, deq |-> n - toEnd - skip * d]

(* it + n and it - n, for n >= 0.                                          *)
Plus(vs, d, it, n) ==
  LET toEnd == Len(vs[it.vec]) - it.deq
      skip  == Least((n - toEnd) \div d, Len(vs) - it.vec - 1)
  IN  IF n = 0 \/ n < toEnd \/ it.vec = Len(vs)
      THEN [it EXCEPT !.deq = @ + n]
      ELSE [vec |-> it.vec + 1 + skip, deq |-> n - toEnd - skip * d]

Minus(vs, d, it, n) ==
  LET left == n - it.deq - 1
      skip == Least(left \div d, it.vec - 2)
      to   == it.vec - 1 - skip
  IN  IF n <= it.deq
      THEN [it EXCEPT !.deq = @ - n]
      ELSE [vec |-> to, deq |-> Len(vs[to]) - 1 - (left - skip * d)]

(* b - a, for b not lower than a.                                          *)
Distance(vs, d, a, b) ==
  IF b.vec > a.vec
  THEN (b.vec - a.vec - 1) * d + b.deq + Len(vs[a.vec]) - a.deq
  ELSE b.deq - a.deq

(* ++it and --it.                                                          *)
Incremented(vs, it) ==
  IF it.deq + 1 = Len(vs[it.vec]) /\ it.vec < Len(vs)
  THEN [vec |-> it.vec + 1, deq |-> 0]
  ELSE [it EXCEPT !.deq = @ + 1]

Decremented(vs, it) ==
  IF it.deq = 0 /\ it.vec # 1
  THEN [vec |-> it.vec - 1, deq |-> Len(vs[it.vec - 1]) - 1]
  ELSE [it EXCEPT !.deq = @ - 1]

Deref(vs, it) == vs[it.vec][it.deq + 1]

(* operator[]: the deque the element n is in, and its offset there.        *)
At(d, n) == [vec |-> n \div d + 1, deq |-> n % d]

(* at(n) throws.                                                           *)
AtThrows(vs, d, n) ==
  At(d, n).vec > Len(vs) \/ At(d, n).deq >= Len(vs[At(d, n).vec])

-----------------------------------------------------------------------------
(***************************************************************************)
(* The vector of deques after an operation.                                *)
(***************************************************************************)

(* _reserve: square, or as near to it as whole deques allow.               *)
DeqSizeFor(n)  == AtLeast1(CHOOSE r \in 0 .. n : r * r <= n /\ (r + 1) * (r + 1) > n)
CapacityForZero(n) == Ceil(n, DeqSizeFor(n)) * DeqSizeFor(n)  (* broken: no deque for none *)
CapacityFor(n) == AtLeast1(Ceil(n, DeqSizeFor(n))) * DeqSizeFor(n)

(* A deque of that size after a call, and after some; after one that       *)
(* throws nothing more is done.                                            *)
Called(size, deq, c) ==
  IF deq = Thrown \/ Throws(size, deq, c) THEN Thrown ELSE Result(deq, c)

Do(size, deq, calls) ==
  LET after[i \in 0 .. Len(calls)] ==
        IF i = 0 THEN deq ELSE Called(size, after[i - 1], calls[i])
  IN  after[Len(calls)]

Puts(xs) == [i \in 1 .. Len(xs) |-> <<"push_back", xs[i]>>]

WithLast(deqs, deq) == Append(Front(deqs), deq)

(* push_back and _push_back.                                               *)
Pushed(deqs, size, x) ==
  LET full == Last(deqs) # Thrown /\ Len(Last(deqs)) = size
      room == IF full THEN Append(deqs, <<>>) ELSE deqs
  IN  WithLast(room, Do(size, Last(room), Puts(<<x>>)))

PushedAll(deqs, size, xs) ==
  LET after[i \in 0 .. Len(xs)] ==
        IF i = 0 THEN deqs ELSE Pushed(after[i - 1], size, xs[i])
  IN  after[Len(xs)]

(* Broken: an emptied last deque is kept.                                  *)
TrimmedNot(deqs) == deqs

(* A last deque that has become empty goes, unless it is the only one.     *)
Trimmed(deqs) == IF Len(deqs) > 1 /\ Last(deqs) = <<>> THEN Front(deqs) ELSE deqs

Popped(vs, d) == Trimmed(WithLast(vs, Do(d, Last(vs), <<<<"pop_back">>>>)))

(* T(): the value of an argument that is not given.                        *)
Default == CHOOSE x \in Value : TRUE

(* _decrease_size.                                                         *)
Decreased(vs, d, n) ==
  LET vecs == AtLeast1(Ceil(n, d))
      resize == <<"resize", n - (vecs - 1) * d, Default>>
  IN  WithLast(SubSeq(vs, 1, vecs), Do(d, vs[vecs], <<resize>>))

(* Broken: the elements of the next deque stay in front.                   *)
PassedOnAtEnd(d, deq, x) == Do(d, deq, <<<<"pop_back">>, <<"push_back", x>>>>)

(* Broken: x is put before there is room.                                  *)
PassedOnPutFirst(d, deq, x) == Do(d, deq, <<<<"push_front", x>>, <<"pop_back">>>>)

(* A deque gives up its last element and takes x in front.                 *)
PassedOn(d, deq, x) == Do(d, deq, <<<<"pop_back">>, <<"push_front", x>>>>)

(* insert(it, x): x takes its place, and the last element of this deque    *)
(* and of each later one is passed on to the next.                         *)
Inserted(vs, d, it, x) ==
  LET toEnd    == Len(vs[it.vec]) - it.deq
      put      == IF toEnd = 1 THEN <<"push_back", x>> ELSE <<"insert", it.deq, x>>
      carry(i) == IF i = it.vec /\ toEnd = 0 THEN x ELSE Last(vs[i])
      deqs     == [i \in 1 .. Len(vs) |->
                     CASE i < it.vec               -> vs[i]
                       [] i = it.vec /\ toEnd = 0  -> vs[i]
                       [] i = it.vec /\ toEnd # 0  -> Do(d, vs[i], <<<<"pop_back">>, put>>)
                       [] i > it.vec               -> PassedOn(d, vs[i], carry(i - 1))]
  IN  Pushed(deqs, d, carry(Len(vs)))

(* erase(it): the first element of each later deque goes to the end of the *)
(* one before it.                                                          *)
Erased(vs, d, it) ==
  LET take(i)  == IF i = it.vec THEN <<"erase", it.deq>> ELSE <<"pop_front">>
      carry(i) == IF i < Len(vs) THEN Puts(<<Head(vs[i + 1])>>) ELSE <<>>
  IN  Trimmed([i \in 1 .. Len(vs) |->
        IF i < it.vec THEN vs[i] ELSE Do(d, vs[i], <<take(i)>> \o carry(i))])

(* The deques that have not become empty.                                  *)
NonEmpty(deqs) ==
  LET some[i \in 0 .. Len(deqs)] ==
        IF i = 0 THEN <<>>
        ELSE IF deqs[i] = <<>> THEN some[i - 1] ELSE Append(some[i - 1], deqs[i])
  IN  some[Len(deqs)]

(* erase(first, last).  The elements of the last deque it touches that     *)
(* stay are kept aside with those in front of first, and up to `move'      *)
(* elements are taken from the front of each later deque and put at the    *)
(* end of the one before it, the last of them aside as well.  What was put *)
(* aside fills the deques from first's on, and the rest of the range goes. *)
ErasedRange(vs, d, first, end) ==
  LET move   == Least(Distance(vs, d, first, end) % d, Distance(vs, d, end, End(vs)))
      last   == IF end.deq = 0 THEN [vec |-> end.vec - 1, deq |-> Len(vs[end.vec - 1])] ELSE end
      taken(i) == IF i <= Len(vs) THEN SubSeq(vs[i], 1, Least(move, Len(vs[i]))) ELSE <<>>
      take(i)  == [j \in 1 .. Len(taken(i)) |-> <<"pop_front">>]
      later  == [i \in last.vec + 1 .. Len(vs) |->
                   Do(d, vs[i], take(i) \o Puts(taken(i + 1)))]
      after  == NonEmpty([i \in 1 .. Len(vs) - last.vec |-> later[last.vec + i]])
      aside  == SubSeq(vs[first.vec], 1, first.deq)
                  \o SubSeq(vs[last.vec], last.deq + 1, Len(vs[last.vec])) \o taken(last.vec + 1)
      toSave == Ceil(Len(aside), d)
      all    == last.vec - first.vec + 1 - toSave >= last.vec + Len(after)
      chunk(i) == SubSeq(aside, (i - 1) * d + 1, Least(i * d, Len(aside)))
      saved  == [i \in 1 .. toSave |-> Do(d, <<>>, Puts(chunk(i)))]
  IN  SubSeq(vs, 1, first.vec - 1) \o saved \o (IF all THEN <<<<>>>> ELSE <<>>) \o after

(* What operator[] refers to, assigned to.                                 *)
Written(vs, d, n, x) ==
  [vs EXCEPT ![At(d, n).vec] = Do(d, @, <<<<"set", At(d, n).deq, x>>>>)]

(* A new array with its sizes chosen for n, filled with xs.                *)
Built(n, xs) ==
  [v |-> PushedAll(<<<<>>>>, DeqSizeFor(n), xs), deqSize |-> DeqSizeFor(n), capacity |-> CapacityFor(n)]
=============================================================================
