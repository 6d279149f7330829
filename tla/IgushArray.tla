----------------------------- MODULE IgushArray -----------------------------
(***************************************************************************)
(* IgushArray<T> (igush/igush_array.h): an array kept as a vector of       *)
(* deques of one fixed size, all of them full but the last, with what      *)
(* Deques says of its operations.                                          *)
(***************************************************************************)
EXTENDS Deques

CONSTANTS
  MaxSize,    (* bound: elements                                           *)
  MaxReserve  (* bound: the argument of reserve                            *)

ASSUME IgushArrayAssumption == MaxSize \in Nat /\ MaxReserve \in Nat

VARIABLES
  v,        (* *_v: the deques                                             *)
  deqSize,  (* _deq_size: how many elements a deque takes                  *)
  capacity, (* _capacity                                                   *)
  call      (* the last call: its name and arguments                       *)

vars == <<v, deqSize, capacity, call>>

(* What the calls depend on.                                               *)
Array == <<v, deqSize, capacity>>

-----------------------------------------------------------------------------
IsEmpty == Len(v) = 1 /\ Last(v) = <<>>
Size    == SizeOf(v, deqSize)

(* begin() + k.                                                            *)
It(k) == Plus(v, deqSize, Begin, k)

(* What the elements are, from begin() to end().                           *)
Contents == FlattenSeq(v)

Init ==
  /\ v = <<<<>>>>
  /\ deqSize = DeqSizeFor(0)
  /\ capacity = CapacityFor(0)
  /\ call = <<"create">>

(* clear() leaves no deque at all, and every operation but size(), empty() *)
(* and swap needs one: it would read an element of an empty vector.  No    *)
(* more is done with an array after a deque threw.                         *)
Intact == Thrown \notin Range(v)
Usable == v # <<>> /\ Intact

(* A new array takes the place of this one.                                *)
Rebuild(n, xs) ==
  /\ v' = Built(n, xs).v
  /\ deqSize' = Built(n, xs).deqSize
  /\ capacity' = Built(n, xs).capacity

Keep == UNCHANGED <<deqSize, capacity>>

Reserve(n) == Usable /\ n > capacity /\ Rebuild(n, Contents)

(* The copy constructor, and operator= with it: the copy replaces it.      *)
Copy == Usable /\ Rebuild(capacity, Contents)

PushBack(x) == Usable /\ Size < MaxSize /\ v' = Pushed(v, deqSize, x) /\ Keep

PopBack == Usable /\ Size > 0 /\ v' = Popped(v, deqSize) /\ Keep

Insert(k, x) == Usable /\ Size < MaxSize /\ v' = Inserted(v, deqSize, It(k), x) /\ Keep

Erase(k) == Usable /\ v' = Erased(v, deqSize, It(k)) /\ Keep

EraseRange(j, k) ==
  /\ Usable
  /\ v' = IF j < k THEN ErasedRange(v, deqSize, It(j), It(k)) ELSE v
  /\ Keep

Set(n, x) == Usable /\ v' = Written(v, deqSize, n, x) /\ Keep

(* mode is what resize may do to the sizes: NO, IF_NEEDED or YES.          *)
Resize(n, x, mode) ==
  LET xs == SubSeq(Contents, 1, Least(n, Size)) \o Copies(n - Least(n, Size), x)
  IN  /\ Usable
      /\ IF mode = "YES" \/ (mode = "IF_NEEDED" /\ n > capacity)
         THEN Rebuild(n, xs)
         ELSE /\ v' = IF n >= Size THEN PushedAll(v, deqSize, Copies(n - Size, x))
                                   ELSE Decreased(v, deqSize, n)
              /\ Keep

(* clear() twice is harmless.                                              *)
Clear == Intact /\ v' = <<>> /\ Keep

(* swap with a new array that has reserved n, or has n elements x.         *)
Swap(n)       == Intact /\ Rebuild(n, <<>>)
Replace(n, x) == Intact /\ Rebuild(n, Copies(n, x))

Next ==
  \/ \E x \in Value : PushBack(x) /\ call' = <<"push_back", x>>
  \/ PopBack /\ call' = <<"pop_back">>
  \/ \E x \in Value : \E k \in 0 .. Size : Insert(k, x) /\ call' = <<"insert", k, x>>
  \/ \E k \in 0 .. Size - 1 : Erase(k) /\ call' = <<"erase", k>>
  \/ \E j, k \in 0 .. Size : EraseRange(j, k) /\ call' = <<"erase_range", j, k>>
  \/ \E x \in Value, n \in 0 .. MaxSize, mode \in {"NO", "IF_NEEDED", "YES"} :
       Resize(n, x, mode) /\ call' = <<"resize", n, x, mode>>
  \/ \E n \in 0 .. MaxReserve : Reserve(n) /\ call' = <<"reserve", n>>
  \/ \E n \in 0 .. MaxReserve : Swap(n) /\ call' = <<"swap", n>>
  \/ \E x \in Value, n \in 0 .. MaxSize : Replace(n, x) /\ call' = <<"replace", n, x>>
  \/ \E x \in Value : \E n \in 0 .. Size - 1 : Set(n, x) /\ call' = <<"set", n, x>>
  \/ Copy /\ call' = <<"copy">>
  \/ Clear /\ call' = <<"clear">>

Spec == Init /\ [][Next]_vars

-----------------------------------------------------------------------------
TypeOK ==
  /\ v \in Seq({Thrown} \union Seq(Value))
  /\ deqSize \in Nat \ {0}
  /\ capacity \in Nat \ {0}

(* Every deque but the last is full, none takes more than it can, and only *)
(* an empty array has an empty one: what operator[], size() and the        *)
(* iterators rely on.                                                      *)
Structure ==
  Usable =>
    /\ \A i \in 1 .. Len(v) - 1 : Len(v[i]) = deqSize
    /\ Len(Last(v)) <= deqSize
    /\ Last(v) = <<>> => Len(v) = 1

(* No call of a deque throws: each is made where there is room, or an      *)
(* element, and an operation that moves elements from deque to deque is    *)
(* never left in the middle.                                               *)
DequesNeverThrow == Intact

(* However an element is reached, by its index, by an iterator moved in    *)
(* one step or by one moved along the array, it is the same element, and   *)
(* the iterator's difference and order are those of the indices; at()      *)
(* throws just beyond the last one.                                        *)
IteratorsAgree ==
  Usable =>
    /\ \A k \in 0 .. Size + deqSize : AtThrows(v, deqSize, k) <=> k >= Size
    /\ Size = Len(Contents) /\ It(Size) = End(v)
    /\ \A k \in 0 .. Size - 1 :
         /\ Deref(v, At(deqSize, k)) = Contents[k + 1] /\ Deref(v, It(k)) = Contents[k + 1]
         /\ Incremented(v, It(k)) = It(k + 1) /\ Decremented(v, It(k + 1)) = It(k)
    /\ \A j, k \in 0 .. Size :
         /\ ItLower(It(j), It(k)) <=> j < k
         /\ j <= k => /\ Distance(v, deqSize, It(j), It(k)) = k - j
                      /\ Plus(v, deqSize, It(j), k - j) = It(k)
                      /\ Minus(v, deqSize, It(k), k - j) = It(j)

(* empty() says whether size() is 0 ("totally implements std::vector       *)
(* interface", igush_array.h:5).                                           *)
EmptyIsSizeZero == IsEmpty <=> Size = 0

(* The operations are those of a vector.                                   *)
Sequence == INSTANCE Vector WITH contents <- Contents

ImplementsVector == Sequence!Spec
=============================================================================
