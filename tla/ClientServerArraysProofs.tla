---------------------- MODULE ClientServerArraysProofs ----------------------
(***************************************************************************)
(* What the replicas do with their arrays of deques is what ClientServer   *)
(* says of sequences, for any number of clients and any values of the      *)
(* bounds: every array holds the chunks of its replica's sequence.         *)
(***************************************************************************)
EXTENDS ClientServerArrays, MergeProofs

(* The lemmas about IgushArray that are about any vector of deques.        *)
DP == INSTANCE IgushArrayProofs WITH
  v <- <<>>, deqSize <- 1, capacity <- 1, call <- <<>>, MaxSize <- 0, MaxReserve <- 0

(* What is proved of ClientServer; the loops that drive it do not matter.  *)
CP == INSTANCE ClientServerProofs WITH
  datas <- [c \in 0 .. NClients |-> ContentsOf(arrays[c])],
  session <- 0, MaxSessions <- 0, Rounds <- 0, OpsPerRound <- 0, JoinPeriod <- 1, TestPeriod <- 0, MaxStart <- 0,
  phase <- "join", round <- 0, turn <- 1

-----------------------------------------------------------------------------
(* Both instances of Deques say the same.                                  *)
LEMMA DoSame ==
  ASSUME NEW size, NEW deq, NEW calls
  PROVE  D!Do(size, deq, calls) = DP!Do(size, deq, calls)
BY Zenon DEF D!Do, D!Called, D!Throws, D!Result, D!InsertAt, D!Without, D!Resized, D!Copies, D!Front,
   DP!Do, DP!Called, DP!Throws, DP!Result, DP!InsertAt, DP!Without, DP!Resized, DP!Copies, DP!Front

LEMMA PushedSame ==
  ASSUME NEW vs, NEW d, NEW x
  PROVE  D!Pushed(vs, d, x) = DP!Pushed(vs, d, x)
BY DoSame, Zenon DEF D!Pushed, D!WithLast, D!Puts, D!Last, D!Front,
   DP!Pushed, DP!WithLast, DP!Puts, DP!Last, DP!Front

LEMMA InsertedSame ==
  ASSUME NEW vs, NEW d, NEW it, NEW x
  PROVE  D!Inserted(vs, d, it, x) = DP!Inserted(vs, d, it, x)
BY Zenon DEF D!Inserted, D!PassedOn, D!Pushed, D!WithLast, D!Puts, D!Do, D!Called, D!Throws, D!Result,
   D!InsertAt, D!Without, D!Resized, D!Copies, D!Front, D!Last,
   DP!Inserted, DP!PassedOn, DP!Pushed, DP!WithLast, DP!Puts, DP!Do, DP!Called, DP!Throws, DP!Result,
   DP!InsertAt, DP!Without, DP!Resized, DP!Copies, DP!Front, DP!Last

LEMMA ErasedSame ==
  ASSUME NEW vs, NEW d, NEW it
  PROVE  D!Erased(vs, d, it) = DP!Erased(vs, d, it)
BY DoSame, Zenon DEF D!Erased, D!Trimmed, D!Puts, D!Last, D!Front,
   DP!Erased, DP!Trimmed, DP!Puts, DP!Last, DP!Front

LEMMA WrittenSame ==
  ASSUME NEW vs, NEW d, NEW n, NEW x
  PROVE  D!Written(vs, d, n, x) = DP!Written(vs, d, n, x)
BY DoSame, Zenon DEF D!Written, D!At, DP!Written, DP!At

LEMMA BuiltSame ==
  ASSUME NEW n, NEW xs
  PROVE  D!Built(n, xs) = DP!Built(n, xs)
BY PushedSame, Zenon DEF D!Built, D!PushedAll, D!DeqSizeFor, D!CapacityFor, D!AtLeast1, D!Ceil,
   DP!Built, DP!PushedAll, DP!DeqSizeFor, DP!CapacityFor, DP!AtLeast1, DP!Ceil

LEMMA PlacesSame ==
  ASSUME NEW vs, NEW d, NEW n
  PROVE  /\ D!SizeOf(vs, d) = DP!SizeOf(vs, d)
         /\ D!Plus(vs, d, D!Begin, n) = DP!Plus(vs, d, DP!Begin, n)
         /\ D!Deref(vs, D!At(d, n)) = DP!Deref(vs, DP!At(d, n))
         /\ DP!FlattenSeq(vs) = FlattenSeq(vs) /\ DP!Last(vs) = Last(vs)
<1>1. D!SizeOf(vs, d) = DP!SizeOf(vs, d)
  BY Zenon DEF D!SizeOf, D!Last, DP!SizeOf, DP!Last
<1>2. D!Plus(vs, d, D!Begin, n) = DP!Plus(vs, d, DP!Begin, n)
  BY Zenon DEF D!Plus, D!Begin, D!Least, DP!Plus, DP!Begin, DP!Least
<1>3. D!Deref(vs, D!At(d, n)) = DP!Deref(vs, DP!At(d, n))
  BY Zenon DEF D!Deref, D!At, DP!Deref, DP!At
<1>4. DP!FlattenSeq(vs) = FlattenSeq(vs)
  BY Zenon DEF FlattenSeq, DP!FlattenSeq
<1>5. DP!Last(vs) = Last(vs)
  BY Zenon DEF Last, DP!Last
<1> QED
  BY <1>1, <1>2, <1>3, <1>4, <1>5

LEMMA SequencesSame ==
  ASSUME NEW s, NEW k, NEW x
  PROVE  /\ DP!With(s, k, x) = With(s, k, x)
         /\ DP!Without(s, k, x) = IF k < x THEN SubSeq(s, 1, k) \o SubSeq(s, x + 1, Len(s)) ELSE s
<1>1. DP!With(s, k, x) = With(s, k, x)
  BY Zenon DEF With, DP!With
<1>2. DP!Without(s, k, x) = IF k < x THEN SubSeq(s, 1, k) \o SubSeq(s, x + 1, Len(s)) ELSE s
  BY Zenon DEF DP!Without
<1> QED
  BY <1>1, <1>2

-----------------------------------------------------------------------------
(* What is assumed of the constants of the two instances is true.          *)
LEMMA DequesMet == Value # {} /\ Thrown \notin Seq(Value) /\ 0 \in Nat
<1>1. 0 \in Unsigned
  BY UModAssumption DEF Unsigned
<1> QED
  BY <1>1, ClientServerArraysAssumption

LEMMA ClientServerMet ==
  /\ UMod \in Nat /\ UMod > 1
  /\ {NClients, InitSize, MaxPack, MaxOps, MaxRounds, 0} \subseteq CP!Unsigned
  /\ InitSize + NClients * MaxOps * (0 + 1) < UMod
  /\ Filtered \in BOOLEAN
  /\ \A i \in CP!Unsigned : OldValue(i) \in Value
  /\ \A c \in CP!Client, r \in CP!Unsigned : NewValue(c, r) \in Value
  /\ {0, 0, 0} \subseteq CP!Unsigned /\ 0 <= MaxPack
  /\ 1 \in CP!Unsigned \ {0} /\ {0, 0 + 1} \subseteq CP!Unsigned
<1>1. CP!Unsigned = Unsigned /\ CP!Client = 1 .. NClients
  BY DEF CP!Unsigned, CP!Client, Unsigned
<1>2. UMod \in Nat /\ UMod > 1 /\ Unsigned = 0 .. UMod - 1
  BY UModAssumption DEF Unsigned
<1>3. 0 \in Unsigned /\ 1 \in Unsigned /\ 0 + 1 \in Unsigned
  BY <1>2
<1>4. MaxPack \in Unsigned
  BY ClientServerArraysAssumption
<1>5. 0 <= MaxPack
  BY <1>2, <1>4
<1>6. InitSize + NClients * MaxOps * (0 + 1) < UMod
  <2>1. PICK n, k \in Nat : n = NClients /\ k = MaxOps
    BY <1>2, ClientServerArraysAssumption
  <2>2. n * k * (0 + 1) = n * k
    BY <2>1
  <2> QED
    BY <2>1, <2>2, ClientServerArraysAssumption
<1> QED
  BY <1>1, <1>2, <1>3, <1>5, <1>6, ClientServerArraysAssumption

-----------------------------------------------------------------------------
(***************************************************************************)
(* One array.                                                              *)
(***************************************************************************)
AnArray == [v : Seq(Seq(Value)), deqSize : Nat \ {0}, capacity : Nat \ {0}]

(* Its deques are the chunks of s.                                         *)
Held(a, s) == a \in AnArray /\ DP!Chunks(a.v, a.deqSize, s)

LEMMA HeldFacts ==
  ASSUME NEW a, NEW s, Held(a, s)
  PROVE  /\ a.v \in Seq(Seq(Value)) /\ a.deqSize \in Nat \ {0} /\ a.capacity \in Nat \ {0}
         /\ DP!Chunks(a.v, a.deqSize, s)
         /\ s \in Seq(Value) /\ Len(s) \in Nat
         /\ SizeOf(a) = Len(s) /\ ContentsOf(a) = s
<1>1. PICK vs, d : vs = a.v /\ d = a.deqSize
  OBVIOUS
<1>2. vs \in Seq(Seq(Value)) /\ d \in Nat \ {0} /\ a.capacity \in Nat \ {0} /\ DP!Chunks(vs, d, s)
  BY <1>1 DEF Held, AnArray
<1>3. DP!FlattenSeq(vs) = s /\ s \in Seq(Value) /\ Len(s) \in Nat
  BY <1>2, DP!WhatIsHeld, DequesMet
<1>4. DP!SizeOf(vs, d) = Len(s)
  BY <1>2, DP!EndsRefer, DequesMet
<1>5. SizeOf(a) = Len(s) /\ ContentsOf(a) = s
  BY <1>1, <1>3, <1>4, PlacesSame DEF SizeOf, ContentsOf
<1> QED
  BY <1>1, <1>2, <1>3, <1>5

(* operator[] finds the elements.                                          *)
LEMMA ElementHeld ==
  ASSUME NEW a, NEW s, Held(a, s), NEW n \in 0 .. Len(s) - 1
  PROVE  ElementAt(a, n) = s[n + 1]
<1>1. PICK vs, d : vs = a.v /\ d = a.deqSize
  OBVIOUS
<1>2. d \in Nat \ {0} /\ DP!Chunks(vs, d, s) /\ n \in Nat /\ n < Len(s)
  BY <1>1, HeldFacts
<1>3. PICK it : it = DP!At(d, n) /\ DP!Refers(vs, d, it, n)
  BY <1>2, DP!AtRefers, DequesMet
<1>4. DP!Deref(vs, it) = s[n + 1]
  BY <1>2, <1>3, DP!DerefRefers, DequesMet
<1> QED
  BY <1>1, <1>3, <1>4, PlacesSame DEF ElementAt

(* The structure IgushArray needs is that of the chunks.                   *)
LEMMA HeldSound ==
  ASSUME NEW a, NEW s, Held(a, s)
  PROVE  Sound(a)
<1>1. PICK vs, d : vs = a.v /\ d = a.deqSize
  OBVIOUS
<1>2. d \in Nat \ {0} /\ DP!Chunks(vs, d, s) /\ vs \in Seq(Seq(Value))
  BY <1>1, HeldFacts
<1>3. DP!Filled(vs, d, s) /\ (Len(vs) > 1 => vs[Len(vs)] # <<>>)
  BY <1>2 DEF DP!Chunks
<1>4. /\ Len(vs) \in Nat \ {0} /\ Len(vs) \in 1 .. Len(vs) /\ DP!Last(vs) = vs[Len(vs)]
      /\ \A i \in 1 .. Len(vs) :
           vs[i] # Thrown /\ Len(vs[i]) <= d /\ (i < Len(vs) => Len(vs[i]) = d)
  BY <1>2, <1>3, DP!FilledFacts, DequesMet
<1>5. Last(vs) = vs[Len(vs)]
  BY <1>4, PlacesSame
<1>6. vs # <<>> /\ Thrown \notin Range(vs)
  <2>1. DOMAIN vs = 1 .. Len(vs)
    BY <1>2
  <2> QED
    BY <1>4, <2>1 DEF Range
<1>7. \A i \in 1 .. Len(vs) - 1 : Len(vs[i]) = d
  <2>1. \A i \in 1 .. Len(vs) - 1 : i \in 1 .. Len(vs) /\ i < Len(vs)
    BY <1>4
  <2> QED
    BY <1>4, <2>1
<1>8. Last(vs) = <<>> => Len(vs) = 1
  <2>1. Last(vs) = <<>> => ~(Len(vs) > 1)
    BY <1>3, <1>5
  <2>2. PICK l \in Nat \ {0} : l = Len(vs)
    BY <1>4
  <2>3. ~(l > 1) => l = 1
    OBVIOUS
  <2> QED
    BY <2>1, <2>2, <2>3
<1> QED
  BY <1>1, <1>4, <1>5, <1>6, <1>7, <1>8 DEF Sound

(* Arrays that hold the same are equal to StateEq, however long their      *)
(* deques are.                                                             *)
LEMMA HeldEqual ==
  ASSUME NEW a, NEW b, NEW s, Held(a, s), Held(b, s)
  PROVE  StateEq(a, b)
<1>1. SizeOf(a) = Len(s) /\ SizeOf(b) = Len(s)
  BY HeldFacts
<1>2. \A n \in 0 .. Len(s) - 1 : ElementAt(a, n) = s[n + 1] /\ ElementAt(b, n) = s[n + 1]
  BY ElementHeld
<1> QED
  BY <1>1, <1>2 DEF StateEq

(* A new array with sizes chosen for n.                                    *)
LEMMA BuiltHeld ==
  ASSUME NEW n \in Nat, NEW xs \in Seq(Value)
  PROVE  Held(D!Built(n, xs), xs)
<1>1. PICK a : a = D!Built(n, xs) /\ a = DP!Built(n, xs)
  BY BuiltSame
<1>2. DP!Chunks(a.v, a.deqSize, xs) /\ a.deqSize \in Nat \ {0} /\ a.capacity \in Nat \ {0}
  BY <1>1, DP!BuiltChunks, DequesMet
<1>3. a = [v |-> a.v, deqSize |-> a.deqSize, capacity |-> a.capacity]
  BY <1>1 DEF D!Built
<1>4. a.v \in Seq(Seq(Value))
  BY <1>2 DEF DP!Chunks, DP!Filled
<1> QED
  BY <1>1, <1>2, <1>3, <1>4 DEF Held, AnArray

(* The array with other deques.                                            *)
LEMMA HeldAfter ==
  ASSUME NEW a, NEW s, Held(a, s), NEW vs, NEW t, DP!Chunks(vs, a.deqSize, t)
  PROVE  Held([a EXCEPT !.v = vs], t)
<1>1. vs \in Seq(Seq(Value))
  BY DEF DP!Chunks, DP!Filled
<1>2. a \in AnArray
  BY DEF Held
<1>3. PICK b : b = [a EXCEPT !.v = vs]
  OBVIOUS
<1>4. b \in AnArray /\ b.v = vs /\ b.deqSize = a.deqSize
  BY <1>1, <1>2, <1>3 DEF AnArray
<1> QED
  BY <1>3, <1>4 DEF Held

(* begin() + k is at element k.                                            *)
LEMMA PlaceHeld ==
  ASSUME NEW a, NEW s, Held(a, s), NEW k \in Nat, k <= Len(s)
  PROVE  DP!Refers(a.v, a.deqSize, D!Plus(a.v, a.deqSize, D!Begin, k), k)
<1>1. PICK vs, d : vs = a.v /\ d = a.deqSize
  OBVIOUS
<1>2. d \in Nat \ {0} /\ DP!Chunks(vs, d, s) /\ 0 \in Nat /\ 0 + k <= Len(s) /\ 0 + k = k
  BY <1>1, HeldFacts
<1>3. DP!Refers(vs, d, DP!Begin, 0)
  BY <1>2, DP!EndsRefer, DequesMet
<1>4. PICK it : it = DP!Begin
  OBVIOUS
<1>5. DP!Refers(vs, d, DP!Plus(vs, d, it, k), 0 + k)
  BY <1>2, <1>3, <1>4, DP!PlusRefers, DequesMet
<1> QED
  BY <1>1, <1>2, <1>4, <1>5, PlacesSame

(* What State::apply does with the element that posser names.              *)
LEMMA InsertHeld ==
  ASSUME NEW a, NEW s, Held(a, s), NEW k \in Nat, k < Len(s), NEW x \in Value
  PROVE  Held([a EXCEPT !.v = D!Inserted(@, a.deqSize, D!Plus(a.v, a.deqSize, D!Begin, k), x)],
              InsertAt(s, k + 1, x))
<1>1. PICK vs, d : vs = a.v /\ d = a.deqSize
  OBVIOUS
<1>2. d \in Nat \ {0} /\ DP!Chunks(vs, d, s) /\ k <= Len(s) /\ Len(s) \in Nat
  BY <1>1, HeldFacts
<1>3. PICK it : it = D!Plus(vs, d, D!Begin, k) /\ DP!Refers(vs, d, it, k)
  BY <1>1, <1>2, PlaceHeld
<1>4. DP!Chunks(DP!Inserted(vs, d, it, x), d, DP!With(s, k, x))
  BY <1>2, <1>3, DP!InsertedChunks, DequesMet
<1>5. DP!With(s, k, x) = InsertAt(s, k + 1, x)
  <2>1. (k + 1) - 1 = k
    OBVIOUS
  <2> QED
    BY <2>1, SequencesSame, Zenon DEF With, InsertAt
<1>6. DP!Chunks(D!Inserted(vs, d, it, x), d, InsertAt(s, k + 1, x))
  BY <1>4, <1>5, InsertedSame
<1>7. Held([a EXCEPT !.v = D!Inserted(vs, d, it, x)], InsertAt(s, k + 1, x))
  BY <1>1, <1>6, HeldAfter
<1> QED
  BY <1>1, <1>3, <1>7

LEMMA EraseHeld ==
  ASSUME NEW a, NEW s, Held(a, s), NEW k \in Nat, k < Len(s)
  PROVE  Held([a EXCEPT !.v = D!Erased(@, a.deqSize, D!Plus(a.v, a.deqSize, D!Begin, k))],
              RemoveAt(s, k + 1))
<1>1. PICK vs, d : vs = a.v /\ d = a.deqSize
  OBVIOUS
<1>2. d \in Nat \ {0} /\ DP!Chunks(vs, d, s) /\ k <= Len(s) /\ Len(s) \in Nat
  BY <1>1, HeldFacts
<1>3. PICK it : it = D!Plus(vs, d, D!Begin, k) /\ DP!Refers(vs, d, it, k)
  BY <1>1, <1>2, PlaceHeld
<1>4. DP!Chunks(DP!Erased(vs, d, it), d, DP!Without(s, k, k + 1))
  BY <1>2, <1>3, DP!ErasedChunks, DequesMet
<1>5. DP!Without(s, k, k + 1) = RemoveAt(s, k + 1)
  <2>1. (k + 1) - 1 = k /\ k < k + 1
    OBVIOUS
  <2>2. DP!Without(s, k, k + 1) = SubSeq(s, 1, k) \o SubSeq(s, (k + 1) + 1, Len(s))
    BY <2>1, SequencesSame
  <2>3. RemoveAt(s, k + 1) = SubSeq(s, 1, k) \o SubSeq(s, (k + 1) + 1, Len(s))
    BY <2>1, Zenon DEF RemoveAt
  <2> QED
    BY <2>2, <2>3
<1>6. DP!Chunks(D!Erased(vs, d, it), d, RemoveAt(s, k + 1))
  BY <1>4, <1>5, ErasedSame
<1>7. Held([a EXCEPT !.v = D!Erased(vs, d, it)], RemoveAt(s, k + 1))
  BY <1>1, <1>6, HeldAfter
<1> QED
  BY <1>1, <1>3, <1>7

LEMMA WriteHeld ==
  ASSUME NEW a, NEW s, Held(a, s), NEW k \in Nat, k < Len(s), NEW x \in Value
  PROVE  Held([a EXCEPT !.v = D!Written(@, a.deqSize, k, x)], [s EXCEPT ![k + 1] = x])
<1>1. PICK vs, d : vs = a.v /\ d = a.deqSize
  OBVIOUS
<1>2. d \in Nat \ {0} /\ DP!Chunks(vs, d, s)
  BY <1>1, HeldFacts
<1>3. DP!Chunks(DP!Written(vs, d, k, x), d, [s EXCEPT ![k + 1] = x])
  BY <1>2, DP!WrittenChunks, DequesMet
<1>4. Held([a EXCEPT !.v = D!Written(vs, d, k, x)], [s EXCEPT ![k + 1] = x])
  BY <1>1, <1>3, WrittenSame, HeldAfter
<1> QED
  BY <1>1, <1>4

LEMMA PushHeld ==
  ASSUME NEW a, NEW s, Held(a, s), NEW x \in Value
  PROVE  Held([a EXCEPT !.v = D!Pushed(@, a.deqSize, x)], Append(s, x))
<1>1. PICK vs, d : vs = a.v /\ d = a.deqSize
  OBVIOUS
<1>2. d \in Nat \ {0} /\ DP!Filled(vs, d, s)
  BY <1>1, HeldFacts DEF DP!Chunks
<1>3. DP!Chunks(DP!Pushed(vs, d, x), d, Append(s, x))
  BY <1>2, DP!PushedFilled, DequesMet
<1>4. Held([a EXCEPT !.v = D!Pushed(vs, d, x)], Append(s, x))
  BY <1>1, <1>3, PushedSame, HeldAfter
<1> QED
  BY <1>1, <1>4

(* State::apply(op) on an array is that on its sequence.                   *)
LEMMA ApplyHeld ==
  ASSUME NEW a, NEW s, Held(a, s), NEW op \in OpDescriptor
  PROVE  Held(ApplyTo(a, op), Apply(s, op))
<1>1. /\ op.typ \in OpType /\ op.posser \in Nat /\ op.value \in Value
  BY UModAssumption DEF OpDescriptor, Unsigned
<1>2. SizeOf(a) = Len(s) /\ Len(s) \in Nat /\ s \in Seq(Value)
  BY HeldFacts
<1>3. PICK k : k = BoundOf(a, op) /\ k = IF op.posser >= Len(s) THEN Len(s) - 1 ELSE op.posser
  BY <1>2 DEF BoundOf
<1>4. Len(s) # 0 => k \in Nat /\ k < Len(s) /\ Bound(s, op) = k + 1
  BY <1>1, <1>2, <1>3 DEF Bound
<1>5. s = <<>> <=> Len(s) = 0
  BY <1>2
<1>6. CASE op.typ = "nothing"
  BY <1>6 DEF ApplyTo, Apply
<1>7. CASE op.typ = "insert" /\ op.posser >= Len(s)
  <2>0. ~(op.posser < Len(s))
    BY <1>1, <1>2, <1>7
  <2>1. ApplyTo(a, op) = [a EXCEPT !.v = D!Pushed(@, a.deqSize, op.value)]
    BY <1>2, <1>7, <2>0 DEF ApplyTo
  <2>2. Apply(s, op) = Append(s, op.value)
    BY <1>7, <2>0 DEF Apply
  <2> QED
    BY <1>1, <2>1, <2>2, PushHeld
<1>8. CASE op.typ = "insert" /\ op.posser < Len(s)
  <2>1. Len(s) # 0 /\ ~(op.posser >= Len(s))
    BY <1>1, <1>2, <1>8
  <2>2. ApplyTo(a, op)
          = [a EXCEPT !.v = D!Inserted(@, a.deqSize, D!Plus(a.v, a.deqSize, D!Begin, k), op.value)]
    BY <1>2, <1>3, <1>8, <2>1 DEF ApplyTo
  <2>3. Apply(s, op) = InsertAt(s, k + 1, op.value)
    BY <1>4, <1>8, <2>1 DEF Apply
  <2> QED
    BY <1>1, <1>4, <2>1, <2>2, <2>3, InsertHeld
<1>9. CASE op.typ \in {"remove", "update"} /\ Len(s) = 0
  <2>1. ApplyTo(a, op) = a
    BY <1>2, <1>9 DEF ApplyTo
  <2>2. Apply(s, op) = s
    BY <1>5, <1>9 DEF Apply
  <2> QED
    BY <2>1, <2>2
<1>10. CASE op.typ = "remove" /\ Len(s) # 0
  <2>1. ApplyTo(a, op) = [a EXCEPT !.v = D!Erased(@, a.deqSize, D!Plus(a.v, a.deqSize, D!Begin, k))]
    BY <1>2, <1>3, <1>10 DEF ApplyTo
  <2>2. Apply(s, op) = RemoveAt(s, k + 1)
    BY <1>4, <1>5, <1>10 DEF Apply
  <2> QED
    BY <1>4, <1>10, <2>1, <2>2, EraseHeld
<1>11. CASE op.typ = "update" /\ Len(s) # 0
  <2>1. ApplyTo(a, op) = [a EXCEPT !.v = D!Written(@, a.deqSize, k, op.value)]
    BY <1>2, <1>3, <1>11 DEF ApplyTo
  <2>2. Apply(s, op) = [s EXCEPT ![k + 1] = op.value]
    BY <1>4, <1>5, <1>11 DEF Apply
  <2>3. k \in Nat /\ k < Len(s) /\ op.value \in Value
    BY <1>1, <1>4, <1>11
  <2>4. Held([a EXCEPT !.v = D!Written(@, a.deqSize, k, op.value)], [s EXCEPT ![k + 1] = op.value])
    BY <2>3, WriteHeld
  <2> QED
    BY <2>1, <2>2, <2>4
<1> QED
  BY <1>1, <1>2, <1>6, <1>7, <1>8, <1>9, <1>10, <1>11 DEF OpType

-----------------------------------------------------------------------------
(* A replica that keeps its document in an array.                          *)
Keeps(r, replica) == Held(r.array, replica.doc) /\ r.pack = replica.pack

LEMMA IntegrateKeeps ==
  ASSUME NEW r, NEW replica \in Replica, Keeps(r, replica), NEW op \in OpDescriptor, NEW own
  PROVE  Keeps(IntegrateOtherTo(r, op, own), IntegrateOther(replica, op, own))
<1>1. CASE op.cid \in own
  BY <1>1 DEF IntegrateOtherTo, IntegrateOther
<1>2. CASE op.cid \notin own
  <2>1. PICK newop \in OpDescriptor : newop = TransformAll(op, replica.pack)
    BY TransformAllType DEF Replica
  <2>2. IntegrateOtherTo(r, op, own)
          = [array |-> ApplyTo(r.array, newop), pack |-> Append(replica.pack, newop)]
    BY <1>2, <2>1 DEF Keeps, IntegrateOtherTo, IntegrateTo
  <2>3. IntegrateOther(replica, op, own)
          = [doc |-> Apply(replica.doc, newop), pack |-> Append(replica.pack, newop)]
    BY <1>2, <2>1 DEF IntegrateOther, Integrate
  <2>4. Held(ApplyTo(r.array, newop), Apply(replica.doc, newop))
    BY ApplyHeld DEF Keeps
  <2> QED
    BY <2>2, <2>3, <2>4 DEF Keeps
<1> QED
  BY <1>1, <1>2

(* The states of the loop, each of which keeps some document.              *)
Kept == {r \in [array : AnArray, pack : Seq(OpDescriptor)] : \E replica \in Replica : Keeps(r, replica)}

LEMMA IntegrateKept ==
  ASSUME NEW r \in Kept, NEW op \in OpDescriptor, NEW own
  PROVE  IntegrateOtherTo(r, op, own) \in Kept
<1>1. PICK replica \in Replica : Keeps(r, replica)
  BY DEF Kept
<1>2. Keeps(IntegrateOtherTo(r, op, own), IntegrateOther(replica, op, own))
  BY <1>1, IntegrateKeeps
<1>3. IntegrateOther(replica, op, own) \in Replica
  BY IntegrateType DEF IntegrateOther
<1>4. IntegrateOtherTo(r, op, own) \in [array : AnArray, pack : Seq(OpDescriptor)]
  <2>1. CASE op.cid \in own
    BY <2>1 DEF IntegrateOtherTo, Kept
  <2>2. CASE op.cid \notin own
    <3>1. PICK q : q = IntegrateOtherTo(r, op, own)
      OBVIOUS
    <3>2. q = [array |-> q.array, pack |-> q.pack]
      BY <2>2, <3>1 DEF IntegrateOtherTo, IntegrateTo
    <3>3. q.array \in AnArray /\ q.pack \in Seq(OpDescriptor)
      BY <1>2, <1>3, <3>1 DEF Keeps, Held, Replica
    <3> QED
      BY <3>1, <3>2, <3>3
  <2> QED
    BY <2>1, <2>2
<1> QED
  BY <1>2, <1>3, <1>4 DEF Kept

(* State::apply(pack) and State::applyFromOthers on an array are those on  *)
(* its sequence.                                                           *)
LEMMA ApplyAllHeld ==
  ASSUME NEW a, NEW s, Held(a, s), NEW sent \in Seq(OpDescriptor), NEW src \in Seq(OpDescriptor), NEW own
  PROVE  Held(ApplyAllTo(a, sent, src, own), IntegrateAll([doc |-> s, pack |-> sent], src, own).doc)
<1> DEFINE n == Len(src)
           first == [array |-> a, pack |-> sent]
           step == [i \in 1 .. n |-> [r \in Kept |-> IntegrateOtherTo(r, src[i], own)]]
           R(t) == t = [i \in 0 .. n |->
                          IF i = 0 THEN first ELSE IntegrateOtherTo(t[i - 1], src[i], own)]
<1>1. PICK whole \in Replica : whole = [doc |-> s, pack |-> sent]
  BY HeldFacts DEF Replica
<1>2. PICK t : Integration(t, whole, src, own)
  BY IntegrateAllSteps
<1>3. /\ t \in [0 .. n -> Replica] /\ t[0] = whole
      /\ \A i \in 1 .. n : t[i] = IntegrateOther(t[i - 1], src[i], own)
      /\ IntegrateAll(whole, src, own) = t[n]
  BY <1>2 DEF Integration
<1>4. n \in Nat /\ \A i \in 1 .. n : src[i] \in OpDescriptor
  OBVIOUS
<1>5. Keeps(first, whole) /\ first \in Kept
  <2>1. Keeps(first, whole)
    BY <1>1 DEF Keeps
  <2>2. first \in [array : AnArray, pack : Seq(OpDescriptor)]
    BY DEF Held
  <2> HIDE DEF first
  <2> QED
    BY <2>1, <2>2 DEF Kept
<1>6. step \in Steps(n, Kept)
  BY <1>4, IntegrateKept DEF Steps
<1>7. PICK g : Iteration(g, n, Kept, first, step)
  <2> HIDE DEF n, first, step
  <2> QED
    BY <1>4, <1>5, <1>6, Iterates
<1>8. /\ g \in [0 .. n -> Kept] /\ g[0] = first
      /\ \A i \in 1 .. n : g[i] = step[i][g[i - 1]]
  <2> HIDE DEF n, first, step
  <2> QED
    BY <1>7 DEF Iteration
<1>9. ASSUME NEW i \in 1 .. n PROVE g[i] = IntegrateOtherTo(g[i - 1], src[i], own)
  <2>1. i - 1 \in 0 .. n /\ g[i - 1] \in Kept
    BY <1>4, <1>8
  <2>2. step[i][g[i - 1]] = IntegrateOtherTo(g[i - 1], src[i], own)
    BY <2>1
  <2> QED
    BY <1>8, <2>2
<1>10. R(g)
  <2> HIDE DEF first, step
  <2> QED
    BY <1>8, <1>9
<1> DEFINE u == CHOOSE h : R(h)
<1>11. ApplyAllTo(a, sent, src, own) = u[n].array
  BY DEF ApplyAllTo
<1>12. R(u)
  <2> HIDE DEF R
  <2> QED
    BY <1>10
<1> HIDE DEF u, step
<1>13. u[0] = first /\ \A i \in 1 .. n : u[i] = IntegrateOtherTo(u[i - 1], src[i], own)
  <2> HIDE DEF first
  <2> QED
    BY <1>4, <1>12
<1> HIDE DEF R, first
<1> DEFINE T == {i \in 0 .. n : Keeps(u[i], t[i])}
<1>14. 0 \in T
  BY <1>3, <1>4, <1>5, <1>13
<1>15. ASSUME NEW i \in 0 .. n - 1, i \in T PROVE i + 1 \in T
  <2>1. i + 1 \in 1 .. n /\ i + 1 \in 0 .. n /\ (i + 1) - 1 = i /\ i \in 0 .. n
    BY <1>4
  <2>2. t[i] \in Replica /\ Keeps(u[i], t[i]) /\ src[i + 1] \in OpDescriptor
    BY <1>3, <1>4, <1>15, <2>1
  <2>3. Keeps(IntegrateOtherTo(u[i], src[i + 1], own), IntegrateOther(t[i], src[i + 1], own))
    BY <2>2, IntegrateKeeps
  <2>4. u[i + 1] = IntegrateOtherTo(u[i], src[i + 1], own)
    BY <1>13, <2>1
  <2>5. t[i + 1] = IntegrateOther(t[i], src[i + 1], own)
    BY <1>3, <2>1
  <2> QED
    BY <2>1, <2>3, <2>4, <2>5
<1>16. n \in T
  <2> HIDE DEF T
  <2>1. 0 .. n \subseteq T
    BY <1>4, <1>14, <1>15, UpTo
  <2> QED
    BY <1>4, <2>1
<1>17. Held(u[n].array, t[n].doc)
  BY <1>16 DEF Keeps
<1> QED
  BY <1>1, <1>3, <1>11, <1>17

-----------------------------------------------------------------------------
(***************************************************************************)
(* All the arrays.                                                         *)
(***************************************************************************)

(* Both instances of ClientServer say the same.                            *)
LEMMA PartsSame ==
  /\ P!Client = CP!Client /\ P!Connected = CP!Connected /\ P!Clone = CP!Clone
  /\ P!MayConnect = CP!MayConnect /\ P!MayReset = CP!MayReset
  /\ P!vars = CP!vars
<1>1. P!Client = CP!Client /\ P!Connected = CP!Connected
  BY Zenon DEF P!Client, CP!Client, P!Connected, CP!Connected
<1>2. P!Clone = CP!Clone
  BY Zenon DEF P!Clone, CP!Clone
<1>3. P!MayConnect = CP!MayConnect /\ P!MayReset = CP!MayReset
  BY Zenon DEF P!MayConnect, CP!MayConnect, P!MayReset, CP!MayReset
<1>4. P!vars = CP!vars
  BY Zenon DEF P!vars, CP!vars
<1> QED
  BY <1>1, <1>2, <1>3, <1>4

LEMMA NumberedSame == \A n : P!Numbered(n) = CP!Numbered(n)
BY Zenon DEF P!Numbered, CP!Numbered

LEMMA SignedSame == \A c, ops : P!Signed(c, ops) = CP!Signed(c, ops)
BY Zenon DEF P!Signed, CP!Signed, P!MakeOp, CP!MakeOp

LEMMA LocalOpsSame == \A s : P!LocalOps(s) = CP!LocalOps(s)
BY Zenon DEF P!LocalOps, CP!LocalOps, P!LocalOp, CP!LocalOp, P!Unsigned, CP!Unsigned,
   P!IsDuplication, CP!IsDuplication, P!SamePos, CP!SamePos

LEMMA TransSame == \A op, ops : P!TransformAll(op, ops) = TransformAll(op, ops)
BY Zenon DEF P!TransformAll, TransformAll, P!Trans, Trans, P!Dropped, Dropped, P!Unmoved, Unmoved,
   P!SamePos, SamePos, P!UInc, UInc, P!UDec, UDec

LEMMA ApplySame == \A s, op : P!Apply(s, op) = Apply(s, op)
BY Zenon DEF P!Apply, Apply, P!Bound, Bound, P!InsertAt, InsertAt, P!RemoveAt, RemoveAt

LEMMA IntegrateSame ==
  \A replica, src, own : P!IntegrateAll(replica, src, own) = IntegrateAll(replica, src, own)
<1>1. \A r, op, own : P!IntegrateOther(r, op, own) = IntegrateOther(r, op, own)
  BY TransSame, ApplySame, Zenon DEF P!IntegrateOther, IntegrateOther, P!Integrate, Integrate
<1> QED
  BY <1>1, Zenon DEF P!IntegrateAll, IntegrateAll

LEMMA ApplyAllSame ==
  ASSUME NEW s, NEW sent, NEW src, NEW c
  PROVE  /\ P!ApplyPack(s, src) = IntegrateAll([doc |-> s, pack |-> <<>>], src, {}).doc
         /\ P!ApplyFromOthers(c, s, sent, src)
              = IntegrateAll([doc |-> s, pack |-> sent], src, {c}).doc
<1>1. P!IntegrateAll([doc |-> s, pack |-> <<>>], src, {})
        = IntegrateAll([doc |-> s, pack |-> <<>>], src, {})
  BY IntegrateSame
<1>2. P!IntegrateAll([doc |-> s, pack |-> sent], src, {c})
        = IntegrateAll([doc |-> s, pack |-> sent], src, {c})
  BY IntegrateSame
<1>3. P!ApplyPack(s, src) = IntegrateAll([doc |-> s, pack |-> <<>>], src, {}).doc
  BY <1>1, Zenon DEF P!ApplyPack
<1>4. P!ApplyFromOthers(c, s, sent, src) = IntegrateAll([doc |-> s, pack |-> sent], src, {c}).doc
  BY <1>2, Zenon DEF P!ApplyFromOthers
<1> QED
  BY <1>3, <1>4

LEMMA TransSameThere == \A op, ops : P!TransformAll(op, ops) = CP!TransformAll(op, ops)
BY Zenon DEF P!TransformAll, CP!TransformAll, P!Trans, CP!Trans, P!Dropped, CP!Dropped,
   P!Unmoved, CP!Unmoved, P!SamePos, CP!SamePos, P!UInc, CP!UInc, P!UDec, CP!UDec

LEMMA ApplySameThere == \A s, op : P!Apply(s, op) = CP!Apply(s, op)
BY Zenon DEF P!Apply, CP!Apply, P!Bound, CP!Bound, P!InsertAt, CP!InsertAt, P!RemoveAt, CP!RemoveAt

LEMMA IntegrateSameThere ==
  \A replica, src, own : P!IntegrateAll(replica, src, own) = CP!IntegrateAll(replica, src, own)
<1>1. \A r, op, own : P!IntegrateOther(r, op, own) = CP!IntegrateOther(r, op, own)
  BY TransSameThere, ApplySameThere, Zenon
  DEF P!IntegrateOther, CP!IntegrateOther, P!Integrate, CP!Integrate
<1> QED
  BY <1>1, Zenon DEF P!IntegrateAll, CP!IntegrateAll

LEMMA SpecSame ==
  /\ P!Init = CP!Init
  /\ [P!Next]_P!vars => [CP!Next]_CP!vars
<1>1. P!Init = CP!Init
  BY PartsSame, NumberedSame, Zenon DEF P!Init, CP!Init
<1>2. P!Connecting = CP!Connecting
  BY PartsSame, Zenon DEF P!Connecting, CP!Connecting, P!ReservedDatas, CP!ReservedDatas,
     P!ReservedClients, CP!ReservedClients
<1>3. P!Connect = CP!Connect
  BY <1>2, PartsSame, Zenon DEF P!Connect, CP!Connect
<1>4. \A c, ops : P!Pushing(c, ops) = CP!Pushing(c, ops)
  BY SignedSame, Zenon DEF P!Pushing, CP!Pushing, P!Kept, CP!Kept
<1>5. \A c, ops : P!MakeLocalOps(c, ops) = CP!MakeLocalOps(c, ops)
  BY <1>4, SignedSame, IntegrateSameThere, Zenon
  DEF P!MakeLocalOps, CP!MakeLocalOps, P!ApplyPack, CP!ApplyPack
<1>6. P!Update = CP!Update
  BY PartsSame, IntegrateSameThere, Zenon
  DEF P!Update, CP!Update, P!Updating, CP!Updating, P!ApplyFromOthers, CP!ApplyFromOthers
<1>7. P!Reset = CP!Reset
  BY PartsSame, NumberedSame, Zenon DEF P!Reset, CP!Reset, P!Resetting, CP!Resetting
<1>8. P!Next = CP!Next
  BY <1>3, <1>5, <1>6, <1>7, PartsSame, LocalOpsSame, Zenon
  DEF P!Next, CP!Next, P!MayPush, CP!MayPush
<1>9. UNCHANGED P!vars => UNCHANGED CP!vars
  BY Zenon DEF P!vars, CP!vars
<1> QED
  BY <1>1, <1>8, <1>9

-----------------------------------------------------------------------------
(* What the replicas hold, as ClientServer sees it.                        *)
Docs == [c \in 0 .. NClients |-> ContentsOf(arrays[c])]

ArraysHeld ==
  /\ arrays \in [0 .. NClients -> AnArray]
  /\ \A c \in 0 .. connected : Held(arrays[c], ContentsOf(arrays[c]))

(* Inductive with the types of what the arrays are in.                     *)
AInv == CP!TypeOK /\ ArraysHeld

LEMMA Parts ==
  ASSUME AInv
  PROVE  /\ NClients \in Nat /\ InitSize \in Nat
         /\ P!Client = 1 .. NClients /\ P!Connected = 1 .. connected
         /\ connected \in 0 .. NClients /\ accum \in Seq(OpDescriptor)
         /\ applied \in [1 .. NClients -> Seq(OpDescriptor)]
         /\ P!Connected \subseteq P!Client
<1>1. NClients \in Unsigned /\ InitSize \in Unsigned /\ Unsigned \subseteq Nat
  BY ClientServerArraysAssumption, UModAssumption DEF Unsigned
<1>2. P!Client = 1 .. NClients /\ P!Connected = 1 .. connected /\ CP!Client = 1 .. NClients
  BY DEF P!Client, P!Connected, CP!Client
<1>3. CP!OpDescriptor = OpDescriptor
  BY DEF CP!OpDescriptor, OpDescriptor, CP!OpType, OpType, CP!Unsigned, Unsigned
<1>4. /\ connected \in 0 .. NClients /\ accum \in Seq(OpDescriptor)
      /\ applied \in [1 .. NClients -> Seq(OpDescriptor)]
  BY <1>2, <1>3 DEF AInv, CP!TypeOK
<1> QED
  BY <1>1, <1>2, <1>4

LEMMA NoArrayHolds == NoArray \in AnArray /\ ContentsOf(NoArray) = <<>>
<1>1. FlattenSeq(<<>>) = <<>>
  BY DEF FlattenSeq
<1>2. NoArray \in AnArray
  BY DEF NoArray, AnArray
<1> QED
  BY <1>1, <1>2 DEF NoArray, ContentsOf

LEMMA NumberedHolds == \A n \in Nat : P!Numbered(n) \in Seq(Value)
BY CP!NumberedType, ClientServerMet, NumberedSame

(* A new array for the server, and for a client that connects.             *)
LEMMA InitHeld == Init => P!Init /\ ArraysHeld
<1> SUFFICES ASSUME Init PROVE P!Init /\ ArraysHeld
  OBVIOUS
<1>1. InitSize \in Nat /\ NClients \in Nat
  BY ClientServerArraysAssumption, UModAssumption DEF Unsigned
<1>2. PICK a : a = D!Built(InitSize, P!Numbered(InitSize))
  OBVIOUS
<1>3. Held(a, P!Numbered(InitSize))
  BY <1>1, <1>2, NumberedHolds, BuiltHeld
<1>4. a \in AnArray /\ ContentsOf(a) = P!Numbered(InitSize)
  BY <1>3, HeldFacts DEF Held
<1>5. arrays = [c \in 0 .. NClients |-> IF c = 0 THEN a ELSE NoArray] /\ connected = 0
  BY <1>2 DEF Init
<1>6. Docs = [c \in 0 .. NClients |-> IF c = 0 THEN P!Numbered(InitSize) ELSE <<>>]
  BY <1>4, <1>5, NoArrayHolds DEF Docs
<1>7. P!Init
  BY <1>6 DEF Init, P!Init, Docs
<1>8. ArraysHeld
  <2>1. arrays \in [0 .. NClients -> AnArray]
    BY <1>4, <1>5, NoArrayHolds
  <2>2. arrays[0] = a /\ 0 .. connected = {0}
    BY <1>1, <1>5
  <2> QED
    BY <1>3, <1>4, <2>1, <2>2 DEF ArraysHeld
<1> QED
  BY <1>7, <1>8

LEMMA ConnectHeld ==
  ASSUME AInv, P!MayConnect, Connect
  PROVE  P!Connect /\ ArraysHeld'
<1> DEFINE c == connected + 1
           s == ContentsOf(arrays[0])
<1>1. c \in 0 .. NClients /\ 0 \in 0 .. connected /\ 0 \in 0 .. NClients
  BY Parts DEF P!MayConnect
<1>2. Held(arrays[0], s)
  BY <1>1 DEF AInv, ArraysHeld
<1>3. PICK a : a = D!Built(arrays[0].capacity, s)
  OBVIOUS
<1>4. Held(a, s) /\ a \in AnArray /\ ContentsOf(a) = s
  <2>1. arrays[0].capacity \in Nat /\ s \in Seq(Value)
    BY <1>2, HeldFacts
  <2>2. Held(a, s)
    BY <1>3, <2>1, BuiltHeld
  <2> QED
    BY <2>2, HeldFacts DEF Held
<1>5. arrays' = [arrays EXCEPT ![c] = a] /\ connected' = c
  BY <1>3 DEF Connect, P!Connecting, P!Clone
<1>6. arrays \in [0 .. NClients -> AnArray]
  BY DEF AInv, ArraysHeld
<1>7. ArraysHeld'
  <2>1. arrays' \in [0 .. NClients -> AnArray]
    BY <1>4, <1>5, <1>6
  <2>2. ASSUME NEW d \in 0 .. c PROVE Held(arrays'[d], ContentsOf(arrays'[d]))
    <3>1. CASE d = c
      BY <1>1, <1>4, <1>5, <1>6, <3>1
    <3>2. CASE d # c
      <4>1. d \in 0 .. connected /\ d \in 0 .. NClients
        BY <3>2, Parts
      <4>2. arrays'[d] = arrays[d]
        BY <1>5, <1>6, <3>2, <4>1
      <4> QED
        BY <4>1, <4>2 DEF AInv, ArraysHeld
    <3> QED
      BY <3>1, <3>2
  <2> QED
    BY <1>5, <2>1, <2>2 DEF ArraysHeld
<1>8. Docs' = [Docs EXCEPT ![c] = Docs[0]]
  <2>1. ASSUME NEW d \in 0 .. NClients
        PROVE  ContentsOf(arrays'[d]) = IF d = c THEN s ELSE ContentsOf(arrays[d])
    BY <1>1, <1>4, <1>5, <1>6
  <2> QED
    BY <1>1, <2>1 DEF Docs
<1>9. P!Connect
  BY <1>8 DEF Connect, P!Connect, P!Clone, Docs
<1> QED
  BY <1>7, <1>9

(* A client applies what its owner made: it is signed, and of the type the *)
(* array takes.                                                            *)
LEMMA MakeLocalOpsHeld ==
  ASSUME AInv, NEW c \in P!Connected, NEW ops \in P!LocalOps(ContentsOf(arrays[c])),
         MakeLocalOps(c, ops)
  PROVE  P!MakeLocalOps(c, ops) /\ ArraysHeld'
<1> DEFINE s == ContentsOf(arrays[c])
           src == P!Signed(c, ops)
<1>1. c \in 0 .. NClients /\ c \in 0 .. connected /\ c \in CP!Client /\ Docs[c] = s
  BY Parts, PartsSame DEF Docs
<1>2. src \in Seq(OpDescriptor)
  <2>1. crev[c] + Len(ops) <= MaxOps
    BY DEF MakeLocalOps, P!Pushing
  <2>2. ops \in CP!LocalOps(Docs[c]) /\ CP!TypeOK
    BY <1>1, LocalOpsSame DEF AInv
  <2>3. CP!Signed(c, ops) \in Seq(CP!OpDescriptor)
    BY <1>1, <2>1, <2>2, CP!SignedType, ClientServerMet DEF Docs
  <2>4. CP!OpDescriptor = OpDescriptor
    BY DEF CP!OpDescriptor, OpDescriptor, CP!OpType, OpType, CP!Unsigned, Unsigned
  <2> QED
    BY <2>3, <2>4, SignedSame
<1> HIDE DEF src
<1>3. Held(arrays[c], s)
  BY <1>1 DEF AInv, ArraysHeld
<1>4. PICK a : a = ApplyAllTo(arrays[c], <<>>, src, {})
  OBVIOUS
<1>5. PICK t : t = P!ApplyPack(s, src)
  OBVIOUS
<1>6. Held(a, t) /\ a \in AnArray /\ ContentsOf(a) = t
  <2>1. <<>> \in Seq(OpDescriptor)
    OBVIOUS
  <2>2. Held(a, IntegrateAll([doc |-> s, pack |-> <<>>], src, {}).doc)
    BY <1>2, <1>3, <1>4, <2>1, ApplyAllHeld
  <2>3. Held(a, t)
    BY <1>5, <2>2, ApplyAllSame
  <2> QED
    BY <2>3, HeldFacts DEF Held
<1>7. arrays' = [arrays EXCEPT ![c] = a] /\ connected' = connected
  BY <1>4 DEF MakeLocalOps, P!Pushing, src
<1>8. arrays \in [0 .. NClients -> AnArray]
  BY DEF AInv, ArraysHeld
<1>9. ASSUME NEW d \in 0 .. NClients
      PROVE  arrays'[d] = IF d = c THEN a ELSE arrays[d]
  BY <1>1, <1>7, <1>8
<1>10. ArraysHeld'
  <2>1. arrays' \in [0 .. NClients -> AnArray]
    BY <1>6, <1>7, <1>8
  <2>2. ASSUME NEW d \in 0 .. connected PROVE Held(arrays'[d], ContentsOf(arrays'[d]))
    <3>1. d \in 0 .. NClients
      BY Parts
    <3>2. Held(arrays[d], ContentsOf(arrays[d]))
      BY DEF AInv, ArraysHeld
    <3> QED
      BY <1>6, <1>9, <3>1, <3>2
  <2> QED
    BY <1>7, <2>1, <2>2 DEF ArraysHeld
<1>11. Docs' = [Docs EXCEPT ![c] = t]
  <2>1. ASSUME NEW d \in 0 .. NClients
        PROVE  ContentsOf(arrays'[d]) = IF d = c THEN t ELSE ContentsOf(arrays[d])
    BY <1>6, <1>9
  <2> QED
    BY <1>1, <2>1 DEF Docs
<1>12. Docs' = [Docs EXCEPT ![c] = P!ApplyPack(@, src)]
  BY <1>1, <1>5, <1>11
<1> QED
  BY <1>10, <1>12 DEF MakeLocalOps, P!MakeLocalOps, Docs, src

(* The server and every client apply what was pushed.                      *)
LEMMA UpdateHeld ==
  ASSUME AInv, Update
  PROVE  P!Update /\ ArraysHeld'
<1> DEFINE s(c) == ContentsOf(arrays[c])
           t(c) == CASE c = 0 -> P!ApplyFromOthers(0, s(0), <<>>, accum)
                     [] c \in P!Connected -> P!ApplyFromOthers(c, s(c), applied[c], accum)
                     [] c \notin P!Connected /\ c # 0 -> s(c)
<1>1. /\ connected' = connected /\ accum \in Seq(OpDescriptor) /\ <<>> \in Seq(OpDescriptor)
      /\ \A c \in 0 .. NClients : (c # 0 /\ c \notin P!Connected) \/ c \in 0 .. connected
      /\ \A c \in 0 .. connected : c \in 0 .. NClients /\ (c # 0 => c \in P!Connected)
      /\ 0 \notin P!Connected
  BY Parts DEF Update, P!Updating
<1>2. arrays' = [c \in 0 .. NClients |->
        CASE c = 0 -> ApplyAllTo(arrays[0], <<>>, accum, {0})
          [] c \in P!Connected -> ApplyAllTo(arrays[c], applied[c], accum, {c})
          [] c \notin P!Connected /\ c # 0 -> arrays[c]]
  BY DEF Update
<1>3. arrays \in [0 .. NClients -> AnArray]
  BY DEF AInv, ArraysHeld
<1>4. ASSUME NEW c \in 0 .. connected
      PROVE  Held(arrays'[c], t(c)) /\ ContentsOf(arrays'[c]) = t(c)
  <2>1. Held(arrays[c], s(c))
    BY DEF AInv, ArraysHeld
  <2>2. PICK sent \in Seq(OpDescriptor) : sent = IF c = 0 THEN <<>> ELSE applied[c]
    BY <1>1, Parts
  <2>3. arrays'[c] = ApplyAllTo(arrays[c], sent, accum, {c})
    BY <1>1, <1>2, <2>2
  <2>4. t(c) = P!ApplyFromOthers(c, s(c), sent, accum)
    BY <1>1, <2>2
  <2>5. Held(ApplyAllTo(arrays[c], sent, accum, {c}),
             IntegrateAll([doc |-> s(c), pack |-> sent], accum, {c}).doc)
    BY <1>1, <2>1, <2>2, ApplyAllHeld
  <2> HIDE DEF t
  <2>6. Held(arrays'[c], t(c))
    <3>1. P!ApplyFromOthers(c, s(c), sent, accum)
            = IntegrateAll([doc |-> s(c), pack |-> sent], accum, {c}).doc
      BY ApplyAllSame
    <3> QED
      BY <2>3, <2>4, <2>5, <3>1
  <2> QED
    BY <2>6, HeldFacts
<1>5. ASSUME NEW c \in 0 .. NClients, c # 0, c \notin P!Connected
      PROVE  arrays'[c] = arrays[c] /\ t(c) = s(c)
  BY <1>2, <1>5
<1>6. Docs' = [c \in 0 .. NClients |-> t(c)]
  <2>1. ASSUME NEW c \in 0 .. NClients PROVE ContentsOf(arrays'[c]) = t(c)
    <3> HIDE DEF t
    <3> QED
      BY <1>1, <1>4, <1>5
  <2> HIDE DEF t
  <2> QED
    BY <2>1 DEF Docs
<1>7. P!Update
  <2>1. \A c \in 0 .. NClients : Docs[c] = s(c)
    BY DEF Docs
  <2>2. 0 \in 0 .. NClients
    BY Parts
  <2>3. Docs' = [c \in 0 .. NClients |->
          CASE c = 0 -> P!ApplyFromOthers(0, Docs[0], <<>>, accum)
            [] c \in P!Connected -> P!ApplyFromOthers(c, Docs[c], applied[c], accum)
            [] c \notin P!Connected /\ c # 0 -> Docs[c]]
    BY <1>6, <2>1, <2>2
  <2> QED
    BY <2>3 DEF Update, P!Update, Docs
<1>8. ArraysHeld'
  <2>1. arrays' \in [0 .. NClients -> AnArray]
    <3>1. ASSUME NEW c \in 0 .. NClients PROVE arrays'[c] \in AnArray
      <4>1. CASE c \in 0 .. connected
        <5>1. Held(arrays'[c], t(c))
          BY <1>4, <4>1
        <5> QED
          BY <5>1 DEF Held
      <4>2. CASE c # 0 /\ c \notin P!Connected
        BY <1>3, <1>5, <4>2
      <4> QED
        BY <1>1, <4>1, <4>2
    <3> QED
      BY <1>2, <3>1
  <2>2. ASSUME NEW c \in 0 .. connected PROVE Held(arrays'[c], ContentsOf(arrays'[c]))
    <3> HIDE DEF t
    <3> QED
      BY <1>4
  <2> QED
    BY <1>1, <2>1, <2>2 DEF ArraysHeld
<1> QED
  BY <1>7, <1>8

-----------------------------------------------------------------------------
(* Every step on the arrays is a step on the sequences they hold.          *)
LEMMA StepHeld ==
  ASSUME AInv, [Next]_vars
  PROVE  [P!Next]_P!vars /\ AInv'
<1>1. [P!Next]_P!vars /\ ArraysHeld'
  <2>1. CASE P!MayConnect /\ Connect
    BY <2>1, ConnectHeld DEF P!Next
  <2>2. ASSUME NEW c \in P!Connected, P!MayPush(c),
               NEW ops \in P!LocalOps(ContentsOf(arrays[c])), MakeLocalOps(c, ops)
        PROVE  [P!Next]_P!vars /\ ArraysHeld'
    <3>1. P!MakeLocalOps(c, ops) /\ ArraysHeld'
      BY <2>2, MakeLocalOpsHeld
    <3>2. ops \in P!LocalOps(Docs[c])
      BY <2>2, Parts DEF Docs
    <3> QED
      BY <2>2, <3>1, <3>2 DEF P!Next, Docs
  <2>3. CASE Update
    BY <2>3, UpdateHeld DEF P!Next
  <2>5. CASE UNCHANGED vars
    BY <2>5 DEF vars, P!vars, AInv, ArraysHeld
  <2> QED
    BY <2>1, <2>2, <2>3, <2>5 DEF Next
<1>2. [CP!Next]_CP!vars
  BY <1>1, SpecSame
<1>3. CP!TypeOK'
  BY <1>2, CP!NextTyped, ClientServerMet DEF AInv
<1> QED
  BY <1>1, <1>3 DEF AInv

LEMMA InitAInv == Init => P!Init /\ AInv
<1> SUFFICES ASSUME Init PROVE P!Init /\ AInv
  OBVIOUS
<1>1. P!Init /\ ArraysHeld
  BY InitHeld
<1>2. CP!TypeOK
  BY <1>1, SpecSame, CP!InitTyped, ClientServerMet
<1> QED
  BY <1>1, <1>2 DEF AInv

(* Whatever the clients push, every array holds its replica's sequence in  *)
(* full deques.                                                            *)
THEOREM Invariance == Spec => []AInv
<1>1. Init => AInv
  BY InitAInv
<1>2. AInv /\ [Next]_vars => AInv'
  BY StepHeld
<1> QED
  BY <1>1, <1>2, PTL DEF Spec

(* The arrays stay as operator[] and the iterators need them, and no call  *)
(* of State::apply throws, however far the arrays grow.                    *)
THEOREM ArraysStaySound == Spec => []ArraysSound
<1>1. AInv => ArraysSound
  <2> SUFFICES ASSUME AInv, NEW c \in {0} \union P!Connected PROVE Sound(arrays[c])
    BY DEF ArraysSound
  <2>1. c \in 0 .. connected
    BY Parts
  <2> QED
    BY <2>1, HeldSound DEF AInv, ArraysHeld
<1> QED
  BY <1>1, Invariance, PTL

(* What the system does with arrays of deques is what ClientServer does    *)
(* with sequences, so that whatever is proved of it holds of the arrays.   *)
THEOREM Implementation == Spec => ImplementsClientServer
<1>1. Init => P!Init
  BY InitAInv
<1>2. AInv /\ [Next]_vars => [P!Next]_P!vars
  BY StepHeld
<1> QED
  BY <1>1, <1>2, Invariance, PTL DEF Spec, ImplementsClientServer, P!Spec

(* When nothing is left to be sent, the program's own comparison finds     *)
(* every client's array equal to the server's, though each moved its       *)
(* elements through its deques in another order.                           *)
THEOREM ArraysConverge ==
  ASSUME Filtered \/ MaxPack <= 1
  PROVE  Spec => []StatesEqual
<1>1. CP!Spec => []CP!Converged
  BY CP!AllConverge, ClientServerMet DEF CP!NoDuplications
<1>2. Init => CP!Init
  BY InitAInv, SpecSame
<1>3. AInv /\ [Next]_vars => [CP!Next]_CP!vars
  BY StepHeld, SpecSame
<1>4. AInv /\ CP!Converged => StatesEqual
  <2> SUFFICES ASSUME AInv, CP!Converged, accum = <<>>, NEW c \in P!Connected
               PROVE  StateEq(arrays[0], arrays[c])
    BY DEF StatesEqual
  <2>1. c \in 0 .. connected /\ 0 \in 0 .. connected /\ c \in 0 .. NClients /\ 0 \in 0 .. NClients
    BY Parts
  <2>2. Held(arrays[0], ContentsOf(arrays[0])) /\ Held(arrays[c], ContentsOf(arrays[c]))
    BY <2>1 DEF AInv, ArraysHeld
  <2>3. Docs[c] = Docs[0]
    BY PartsSame DEF CP!Converged, Docs
  <2>4. ContentsOf(arrays[c]) = ContentsOf(arrays[0])
    BY <2>1, <2>3 DEF Docs
  <2> QED
    BY <2>2, <2>4, HeldEqual
<1> QED
  BY <1>1, <1>2, <1>3, <1>4, Invariance, PTL DEF Spec, CP!Spec
=============================================================================
