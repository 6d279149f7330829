---------------------------- MODULE MergeProofs ----------------------------
(***************************************************************************)
(* The operators of Ops return operations and documents, and they compute  *)
(* the merge.  Keys are totally ordered, so a document that represents a   *)
(* set of items is determined by it; an operation moved past those already *)
(* applied is applied at the rank of its key; hence a replica's document   *)
(* is the merge of the operations it received, in whichever order they     *)
(* came.                                                                   *)
(***************************************************************************)
EXTENDS Ops, Merge, Lemmas, FiniteSetTheorems

-----------------------------------------------------------------------------
(* Transforming keeps an operation what it is: its author, number, place   *)
(* and value, whatever is done to its type and to where it is applied.     *)
SameButMoved(t, op) ==
  t.cid = op.cid /\ t.rev = op.rev /\ t.pos = op.pos /\ t.value = op.value

LEMMA TransType ==
  ASSUME NEW op \in OpDescriptor, NEW pre \in OpDescriptor
  PROVE  /\ Trans(op, pre) \in OpDescriptor
         /\ SameButMoved(Trans(op, pre), op)
<1>1. UInc(op.posser) \in Unsigned /\ UDec(op.posser) \in Unsigned
  BY UModAssumption DEF UInc, UDec, Unsigned, OpDescriptor
<1>2. "nothing" \in OpType
  BY DEF OpType
<1>3. pre.typ \in {"nothing", "update"} => Unmoved(op, pre)
  BY DEF Unmoved
<1>4. pre.typ \in {"nothing", "insert", "remove", "update"}
  BY DEF OpDescriptor, OpType
<1> HIDE DEF OpDescriptor
<1>5. CASE Unmoved(op, pre)
  BY <1>2, <1>5 DEF Trans, OpDescriptor, SameButMoved
<1>6. CASE ~Unmoved(op, pre) /\ pre.typ = "remove"
  BY <1>1, <1>2, <1>6 DEF Trans, OpDescriptor, SameButMoved
<1>7. CASE ~Unmoved(op, pre) /\ pre.typ = "insert"
  BY <1>1, <1>2, <1>7 DEF Trans, OpDescriptor, SameButMoved
<1> QED
  BY <1>3, <1>4, <1>5, <1>6, <1>7

(* OpPack::transformAndPut.                                                *)
LEMMA TransformAllSteps ==
  ASSUME NEW op \in OpDescriptor, NEW pack \in Seq(OpDescriptor)
  PROVE  \E t \in [0 .. Len(pack) -> OpDescriptor] :
           /\ t[0] = op
           /\ \A i \in 1 .. Len(pack) : t[i] = Trans(t[i - 1], pack[i])
           /\ \A i \in 0 .. Len(pack) : SameButMoved(t[i], op)
           /\ TransformAll(op, pack) = t[Len(pack)]
<1> DEFINE n == Len(pack)
           S == {o \in OpDescriptor : SameButMoved(o, op)}
           step == [i \in 1 .. n |-> [o \in S |-> Trans(o, pack[i])]]
           R(t) == t = [i \in 0 .. n |-> IF i = 0 THEN op ELSE Trans(t[i - 1], pack[i])]
<1>1. n \in Nat /\ op \in S /\ \A i \in 1 .. n : pack[i] \in OpDescriptor
  BY DEF SameButMoved
<1>2. ASSUME NEW i \in 1 .. n, NEW o \in S PROVE Trans(o, pack[i]) \in S
  BY <1>1, <1>2, TransType DEF SameButMoved
<1>3. step \in Steps(n, S)
  BY <1>2 DEF Steps
<1>4. PICK g : Iteration(g, n, S, op, step)
  <2>1. n \in Nat /\ op \in S
    BY <1>1
  <2> HIDE DEF n, S, step
  <2> QED
    BY <1>3, <2>1, Iterates
<1>5. /\ g \in [0 .. n -> S]
      /\ g[0] = op
      /\ \A i \in 1 .. n : g[i] = step[i][g[i - 1]]
  <2> HIDE DEF n, S, step
  <2> QED
    BY <1>4 DEF Iteration
<1>6. ASSUME NEW i \in 1 .. n PROVE g[i] = Trans(g[i - 1], pack[i])
  <2>1. i - 1 \in 0 .. n /\ g[i - 1] \in S
    BY <1>1, <1>5
  <2>2. step[i][g[i - 1]] = Trans(g[i - 1], pack[i])
    BY <2>1
  <2> QED
    BY <1>5, <2>2
<1>7. R(g)
  <2> HIDE DEF S, step
  <2> QED
    BY <1>5, <1>6
<1> DEFINE t == CHOOSE u : R(u)
<1>8. TransformAll(op, pack) = t[n]
  BY DEF TransformAll
<1>9. R(t)
  <2> HIDE DEF R
  <2> QED
    BY <1>7
<1> HIDE DEF t
<1>10. t[0] = op /\ DOMAIN t = 0 .. n /\ \A i \in 1 .. n : t[i] = Trans(t[i - 1], pack[i])
  <2> HIDE DEF S, step
  <2> QED
    BY <1>1, <1>9
<1>11. 0 .. n \subseteq {i \in 0 .. n : t[i] \in S}
  <2> DEFINE T == {i \in 0 .. n : t[i] \in S}
  <2>2. 0 \in T
    BY <1>1, <1>10
  <2>3. ASSUME NEW i \in 0 .. n - 1, i \in T PROVE i + 1 \in T
    <3>1. i + 1 \in 1 .. n /\ i + 1 \in 0 .. n /\ (i + 1) - 1 = i /\ t[i] \in S
      BY <1>1, <2>3
    <3>2. t[i + 1] = Trans(t[i], pack[i + 1])
      BY <1>10, <3>1
    <3>3. t[i + 1] \in S
      BY <1>2, <3>1, <3>2
    <3> QED
      BY <3>1, <3>3
  <2>4. n \in Nat
    BY <1>1
  <2> HIDE DEF T
  <2> QED
    BY <2>2, <2>3, <2>4, UpTo DEF T
<1>12. t \in [0 .. n -> OpDescriptor]
  <2> HIDE DEF R, step
  <2>1. t = [i \in 0 .. n |-> t[i]]
    BY <1>9 DEF R
  <2> QED
    BY <1>11, <2>1
<1> QED
  BY <1>8, <1>10, <1>11, <1>12

LEMMA TransformAllType ==
  ASSUME NEW op \in OpDescriptor, NEW pack \in Seq(OpDescriptor)
  PROVE  /\ TransformAll(op, pack) \in OpDescriptor
         /\ SameButMoved(TransformAll(op, pack), op)
BY TransformAllSteps

-----------------------------------------------------------------------------
LEMMA InsertAtType ==
  ASSUME NEW S, NEW s \in Seq(S), NEW i \in 1 .. Len(s), NEW e \in S
  PROVE  InsertAt(s, i, e) \in Seq(S) /\ Len(InsertAt(s, i, e)) = Len(s) + 1
<1>1. /\ SubSeq(s, 1, i - 1) \in Seq(S)
      /\ Len(SubSeq(s, 1, i - 1)) = i - 1
      /\ SubSeq(s, i, Len(s)) \in Seq(S)
      /\ Len(SubSeq(s, i, Len(s))) = Len(s) - i + 1
  BY SubSeqProperties
<1>2. <<e>> \in Seq(S) /\ Len(<<e>>) = 1
  OBVIOUS
<1>3. /\ SubSeq(s, 1, i - 1) \o <<e>> \in Seq(S)
      /\ Len(SubSeq(s, 1, i - 1) \o <<e>>) = i
  BY <1>1, <1>2, ConcatProperties
<1> QED
  BY <1>1, <1>3, ConcatProperties DEF InsertAt

LEMMA RemoveAtType ==
  ASSUME NEW S, NEW s \in Seq(S), NEW i \in 1 .. Len(s)
  PROVE  RemoveAt(s, i) \in Seq(S) /\ Len(RemoveAt(s, i)) = Len(s) - 1
<1>1. /\ SubSeq(s, 1, i - 1) \in Seq(S)
      /\ Len(SubSeq(s, 1, i - 1)) = i - 1
      /\ SubSeq(s, i + 1, Len(s)) \in Seq(S)
      /\ Len(SubSeq(s, i + 1, Len(s))) = Len(s) - i
  BY SubSeqProperties
<1>2. Len(s) \in Nat /\ (i - 1) + (Len(s) - i) = Len(s) - 1
  OBVIOUS
<1> DEFINE a == SubSeq(s, 1, i - 1)
           b == SubSeq(s, i + 1, Len(s))
<1>3. RemoveAt(s, i) = a \o b
  BY DEF RemoveAt
<1> HIDE DEF a, b
<1>4. a \o b \in Seq(S) /\ Len(a \o b) = Len(a) + Len(b)
  BY <1>1, ConcatProperties DEF a, b
<1> QED
  BY <1>1, <1>2, <1>3, <1>4 DEF a, b

(* State::apply(op): an operation of any kind leaves an array, one longer, *)
(* one shorter (unless it was empty) or as long as it was.                 *)
LEMMA ApplyType ==
  ASSUME NEW doc \in Seq(Value), NEW op \in OpDescriptor
  PROVE  /\ Apply(doc, op) \in Seq(Value)
         /\ Len(Apply(doc, op)) =
              CASE op.typ \in {"nothing", "update"} -> Len(doc)
                [] op.typ = "insert"                -> Len(doc) + 1
                [] op.typ = "remove"                -> IF doc = <<>> THEN 0 ELSE Len(doc) - 1
<1>1. /\ op.typ \in {"nothing", "insert", "remove", "update"}
      /\ op.posser \in Nat
      /\ op.value \in Value
  BY UModAssumption DEF OpDescriptor, OpType, Unsigned
<1>2. CASE op.typ = "nothing"
  BY <1>2 DEF Apply
<1>3. CASE op.typ = "insert" /\ op.posser >= Len(doc)
  BY <1>1, <1>3, AppendProperties DEF Apply
<1>4. CASE op.typ = "insert" /\ op.posser < Len(doc)
  <2>1. Bound(doc, op) \in 1 .. Len(doc)
    BY <1>1, <1>4 DEF Bound
  <2>2. Apply(doc, op) = InsertAt(doc, Bound(doc, op), op.value)
    BY <1>1, <1>4 DEF Apply
  <2> QED
    BY <1>1, <1>4, <2>1, <2>2, InsertAtType
<1>5. CASE op.typ \in {"remove", "update"} /\ doc = <<>>
  BY <1>5 DEF Apply
<1>6. CASE op.typ \in {"remove", "update"} /\ doc # <<>>
  <2>1. Bound(doc, op) \in 1 .. Len(doc)
    BY <1>1, <1>6 DEF Bound
  <2>2. CASE op.typ = "remove"
    <3>1. Apply(doc, op) = RemoveAt(doc, Bound(doc, op))
      BY <1>6, <2>2 DEF Apply
    <3> QED
      BY <1>6, <2>1, <2>2, <3>1, RemoveAtType
  <2>3. CASE op.typ = "update"
    <3>1. Apply(doc, op) = [doc EXCEPT ![Bound(doc, op)] = op.value]
      BY <1>6, <2>3 DEF Apply
    <3> QED
      BY <1>1, <2>1, <2>3, <3>1, ExceptSeq
  <2> QED
    BY <1>6, <2>2, <2>3
<1> QED
  BY <1>1, <1>2, <1>3, <1>4, <1>5, <1>6

(* State::apply(pack, op).                                                 *)
LEMMA IntegrateType ==
  ASSUME NEW replica \in Replica, NEW op \in OpDescriptor
  PROVE  Integrate(replica, op) \in Replica
<1> DEFINE newop == TransformAll(op, replica.pack)
<1>1. replica.doc \in Seq(Value) /\ replica.pack \in Seq(OpDescriptor)
  BY DEF Replica
<1>2. newop \in OpDescriptor
  BY <1>1, TransformAllType
<1>3. Apply(replica.doc, newop) \in Seq(Value)
  BY <1>1, <1>2, ApplyType
<1>4. Append(replica.pack, newop) \in Seq(OpDescriptor)
  BY <1>1, <1>2, AppendProperties
<1> QED
  BY <1>3, <1>4 DEF Integrate, Replica

(* The loops of State::apply(pack) and State::applyFromOthers: t[i] is the *)
(* replica after the first i operations of src.                            *)
Integration(t, replica, src, own) ==
  /\ t \in [0 .. Len(src) -> Replica]
  /\ t[0] = replica
  /\ \A i \in 1 .. Len(src) : t[i] = IntegrateOther(t[i - 1], src[i], own)
  /\ IntegrateAll(replica, src, own) = t[Len(src)]

LEMMA IntegrateAllSteps ==
  ASSUME NEW replica \in Replica, NEW src \in Seq(OpDescriptor), NEW own
  PROVE  \E t : Integration(t, replica, src, own)
<1> DEFINE n == Len(src)
           S == Replica
           step == [i \in 1 .. n |-> [r \in S |-> IntegrateOther(r, src[i], own)]]
           R(t) == t = [i \in 0 .. n |->
                          IF i = 0 THEN replica ELSE IntegrateOther(t[i - 1], src[i], own)]
<1>1. n \in Nat /\ replica \in S /\ \A i \in 1 .. n : src[i] \in OpDescriptor
  OBVIOUS
<1>2. ASSUME NEW i \in 1 .. n, NEW r \in S PROVE IntegrateOther(r, src[i], own) \in S
  BY <1>1, <1>2, IntegrateType DEF IntegrateOther
<1>3. step \in Steps(n, S)
  BY <1>2 DEF Steps
<1>4. PICK g : Iteration(g, n, S, replica, step)
  <2>1. n \in Nat /\ replica \in S
    BY <1>1
  <2> HIDE DEF n, S, step
  <2> QED
    BY <1>3, <2>1, Iterates
<1>5. /\ g \in [0 .. n -> S]
      /\ g[0] = replica
      /\ \A i \in 1 .. n : g[i] = step[i][g[i - 1]]
  <2> HIDE DEF n, S, step
  <2> QED
    BY <1>4 DEF Iteration
<1>6. ASSUME NEW i \in 1 .. n PROVE g[i] = IntegrateOther(g[i - 1], src[i], own)
  <2>1. i - 1 \in 0 .. n /\ g[i - 1] \in S
    BY <1>1, <1>5
  <2>2. step[i][g[i - 1]] = IntegrateOther(g[i - 1], src[i], own)
    BY <2>1
  <2> QED
    BY <1>5, <2>2
<1>7. R(g)
  <2> HIDE DEF S, step
  <2> QED
    BY <1>5, <1>6
<1> DEFINE t == CHOOSE u : R(u)
<1>8. IntegrateAll(replica, src, own) = t[n]
  BY DEF IntegrateAll
<1>9. R(t)
  <2> HIDE DEF R
  <2> QED
    BY <1>7
<1> HIDE DEF t
<1>10. t[0] = replica /\ DOMAIN t = 0 .. n
       /\ \A i \in 1 .. n : t[i] = IntegrateOther(t[i - 1], src[i], own)
  <2> HIDE DEF S, step
  <2> QED
    BY <1>1, <1>9
<1>11. 0 .. n \subseteq {i \in 0 .. n : t[i] \in S}
  <2> DEFINE T == {i \in 0 .. n : t[i] \in S}
  <2>2. 0 \in T
    BY <1>1, <1>10
  <2>3. ASSUME NEW i \in 0 .. n - 1, i \in T PROVE i + 1 \in T
    <3>1. i + 1 \in 1 .. n /\ i + 1 \in 0 .. n /\ (i + 1) - 1 = i /\ t[i] \in S
      BY <1>1, <2>3
    <3>2. t[i + 1] = IntegrateOther(t[i], src[i + 1], own)
      BY <1>10, <3>1
    <3>3. t[i + 1] \in S
      BY <1>2, <3>1, <3>2
    <3> QED
      BY <3>1, <3>3
  <2>4. n \in Nat
    BY <1>1
  <2> HIDE DEF T
  <2> QED
    BY <2>2, <2>3, <2>4, UpTo DEF T
<1>12. t \in [0 .. n -> Replica]
  <2> HIDE DEF R, step
  <2>1. t = [i \in 0 .. n |-> t[i]]
    BY <1>9 DEF R
  <2> QED
    BY <1>11, <2>1
<1> QED
  BY <1>8, <1>10, <1>12 DEF Integration

LEMMA IntegrateAllType ==
  ASSUME NEW replica \in Replica, NEW src \in Seq(OpDescriptor), NEW own
  PROVE  IntegrateAll(replica, src, own) \in Replica
<1>1. PICK t : Integration(t, replica, src, own)
  BY IntegrateAllSteps
<1> QED
  BY <1>1, LenProperties DEF Integration

-----------------------------------------------------------------------------
(* Keys are ordered lexicographically.                                     *)
Keys == Nat \X {0, 1} \X Nat \X Int

LEMMA KeyType ==
  /\ \A p \in Nat : OldKey(p) \in Keys
  /\ \A op : op.pos \in Nat /\ op.cid \in Nat /\ op.rev \in Nat => NewKey(op) \in Keys
BY DEF OldKey, NewKey, Keys

LEMMA BeforeLexicographic ==
  ASSUME NEW x \in Keys, NEW y \in Keys
  PROVE  Before(x, y) <=>
           \/ x[1] < y[1]
           \/ x[1] = y[1] /\ x[2] < y[2]
           \/ x[1] = y[1] /\ x[2] = y[2] /\ x[3] < y[3]
           \/ x[1] = y[1] /\ x[2] = y[2] /\ x[3] = y[3] /\ x[4] < y[4]
<1> DEFINE At(k) == x[k] < y[k] /\ \A j \in 1 .. k - 1 : x[j] = y[j]
<1>1. Before(x, y) <=> At(1) \/ At(2) \/ At(3) \/ At(4)
  BY DEF Before
<1>2. At(1) <=> x[1] < y[1]
  OBVIOUS
<1>3. At(2) <=> x[1] = y[1] /\ x[2] < y[2]
  OBVIOUS
<1>4. At(3) <=> x[1] = y[1] /\ x[2] = y[2] /\ x[3] < y[3]
  OBVIOUS
<1>5. At(4) <=> x[1] = y[1] /\ x[2] = y[2] /\ x[3] = y[3] /\ x[4] < y[4]
  OBVIOUS
<1> HIDE DEF At
<1> QED
  BY <1>1, <1>2, <1>3, <1>4, <1>5

LEMMA BeforeIsOrder ==
  ASSUME NEW x \in Keys, NEW y \in Keys, NEW z \in Keys
  PROVE  /\ ~Before(x, x)
         /\ Before(x, y) /\ Before(y, z) => Before(x, z)
         /\ Before(x, y) \/ x = y \/ Before(y, x)
<1>1. /\ x = <<x[1], x[2], x[3], x[4]>> /\ y = <<y[1], y[2], y[3], y[4]>>
      /\ \A k \in 1 .. 4 : x[k] \in Int /\ y[k] \in Int /\ z[k] \in Int
  BY DEF Keys
<1>2. x[1] = y[1] /\ x[2] = y[2] /\ x[3] = y[3] /\ x[4] = y[4] => x = y
  BY <1>1
<1>3. ~Before(x, x)
  BY <1>1, BeforeLexicographic
<1>4. Before(x, y) /\ Before(y, z) => Before(x, z)
  BY <1>1, BeforeLexicographic
<1>5. Before(x, y) \/ x = y \/ Before(y, x)
  BY <1>1, <1>2, BeforeLexicographic
<1> QED
  BY <1>3, <1>4, <1>5

(* The rank of x in S counts the elements of S before x.                   *)
LEMMA RankType ==
  ASSUME NEW S \in SUBSET Keys, IsFiniteSet(S), NEW x \in Keys
  PROVE  /\ Cardinality(S) \in Nat
         /\ Rank(S, x) \in 0 .. Cardinality(S)
         /\ x \in S => Rank(S, x) < Cardinality(S)
<1> DEFINE T == {y \in S : Before(y, x)}
<1>1. IsFiniteSet(T) /\ Cardinality(T) <= Cardinality(S) /\ (Cardinality(S) = Cardinality(T) => S = T)
  BY FS_Subset
<1>2. Cardinality(T) \in Nat /\ Cardinality(S) \in Nat
  BY <1>1, FS_CardinalityType
<1>3. x \in S => S # T
  BY BeforeIsOrder
<1>4. Rank(S, x) = Cardinality(T)
  BY DEF Rank
<1> HIDE DEF T
<1> QED
  BY <1>1, <1>2, <1>3, <1>4

LEMMA RankAdd ==
  ASSUME NEW S \in SUBSET Keys, IsFiniteSet(S), NEW x \in Keys, NEW y \in Keys, y \notin S
  PROVE  Rank(S \union {y}, x) = IF Before(y, x) THEN Rank(S, x) + 1 ELSE Rank(S, x)
<1> DEFINE T == {z \in S : Before(z, x)}
<1>1. IsFiniteSet(T) /\ y \notin T
  BY FS_Subset
<1>2. {z \in S \union {y} : Before(z, x)} = IF Before(y, x) THEN T \union {y} ELSE T
  OBVIOUS
<1>3. Cardinality(T \union {y}) = Cardinality(T) + 1
  BY <1>1, FS_AddElement
<1> QED
  BY <1>2, <1>3 DEF Rank

LEMMA RankRemove ==
  ASSUME NEW S \in SUBSET Keys, IsFiniteSet(S), NEW x \in Keys, NEW y \in S
  PROVE  Rank(S \ {y}, x) = IF Before(y, x) THEN Rank(S, x) - 1 ELSE Rank(S, x)
<1> DEFINE T == {z \in S : Before(z, x)}
<1>1. IsFiniteSet(T)
  BY FS_Subset
<1>2. {z \in S \ {y} : Before(z, x)} = IF Before(y, x) THEN T \ {y} ELSE T
  OBVIOUS
<1>3. Before(y, x) => Cardinality(T \ {y}) = Cardinality(T) - 1
  BY <1>1, FS_RemoveElement
<1> QED
  BY <1>2, <1>3 DEF Rank

LEMMA RankMonotonic ==
  ASSUME NEW S \in SUBSET Keys, IsFiniteSet(S), NEW x \in Keys, NEW y \in Keys, Before(x, y)
  PROVE  /\ Rank(S, x) <= Rank(S, y)
         /\ x \in S => Rank(S, x) < Rank(S, y)
<1> DEFINE T(z) == {w \in S : Before(w, z)}
<1>1. T(x) \subseteq T(y)
  BY BeforeIsOrder
<1>2. IsFiniteSet(T(x)) /\ IsFiniteSet(T(y))
  BY FS_Subset
<1>3. Cardinality(T(x)) <= Cardinality(T(y)) /\ (Cardinality(T(y)) = Cardinality(T(x)) => T(y) = T(x))
  BY <1>1, <1>2, FS_Subset
<1>4. Cardinality(T(x)) \in Nat /\ Cardinality(T(y)) \in Nat
  BY <1>2, FS_CardinalityType
<1>5. x \in S => T(x) # T(y)
  BY BeforeIsOrder
<1>6. Rank(S, x) = Cardinality(T(x)) /\ Rank(S, y) = Cardinality(T(y))
  BY DEF Rank
<1> HIDE DEF T
<1> QED
  BY <1>3, <1>4, <1>5, <1>6

(* Elements are told apart by their ranks, and every rank is one's.        *)
LEMMA RankInjective ==
  ASSUME NEW S \in SUBSET Keys, IsFiniteSet(S), NEW x \in S, NEW y \in S,
         Rank(S, x) = Rank(S, y)
  PROVE  x = y
<1>1. Rank(S, x) \in Nat /\ Rank(S, y) \in Nat
  BY RankType
<1> QED
  BY <1>1, RankMonotonic, BeforeIsOrder

LEMMA RankSurjective ==
  ASSUME NEW S \in SUBSET Keys, IsFiniteSet(S), NEW n \in 0 .. Cardinality(S) - 1
  PROVE  \E x \in S : Rank(S, x) = n
<1> DEFINE T == 0 .. Cardinality(S) - 1
           f == [x \in S |-> Rank(S, x)]
<1>1. Cardinality(S) \in Nat
  BY FS_CardinalityType
<1>2. IsFiniteSet(T) /\ Cardinality(T) = Cardinality(S)
  BY <1>1, FS_Interval
<1>3. f \in [S -> T]
  BY <1>1, RankType
<1>4. f \in Injection(S, T)
  BY <1>3, RankInjective DEF Injection, IsInjective
<1>5. f \in Surjection(S, T)
  BY <1>2, <1>4, FS_Injection
<1> QED
  BY <1>5 DEF Surjection

-----------------------------------------------------------------------------
(* Where an operation belongs among the items.                             *)
Key(op) == IF op.typ = "insert" THEN NewKey(op) ELSE OldKey(op.pos)

LEMMA OpFields ==
  ASSUME NEW op \in OpDescriptor
  PROVE  /\ op.typ \in {"nothing", "insert", "remove", "update"}
         /\ op.pos \in Nat /\ op.posser \in Nat /\ op.cid \in Nat /\ op.rev \in Nat
         /\ op.value \in Value
         /\ Key(op) \in Keys /\ NewKey(op) \in Keys /\ OldKey(op.pos) \in Keys
<1>1. /\ op.typ \in {"nothing", "insert", "remove", "update"}
      /\ op.pos \in Nat /\ op.posser \in Nat /\ op.cid \in Nat /\ op.rev \in Nat
      /\ op.value \in Value
  BY UModAssumption DEF OpDescriptor, OpType, Unsigned
<1> QED
  BY <1>1, KeyType DEF Key

(* Two of the keys of one operation and another, compared.                 *)
LEMMA KeysCompared ==
  ASSUME NEW p \in Nat, NEW q \in Nat,
         NEW a, a.pos \in Nat, a.cid \in Nat, a.rev \in Nat,
         NEW b, b.pos \in Nat, b.cid \in Nat, b.rev \in Nat
  PROVE  /\ Before(OldKey(p), OldKey(q)) <=> p < q
         /\ Before(OldKey(p), NewKey(b)) <=> p < b.pos
         /\ Before(NewKey(b), OldKey(p)) <=> b.pos <= p
         /\ Before(NewKey(a), NewKey(b)) <=>
              \/ a.pos < b.pos
              \/ a.pos = b.pos /\ a.cid < b.cid
              \/ a.pos = b.pos /\ a.cid = b.cid /\ b.rev < a.rev
         /\ OldKey(p) = OldKey(q) => p = q
         /\ OldKey(p) # NewKey(b)
         /\ NewKey(a) = NewKey(b) => a.pos = b.pos /\ a.cid = b.cid /\ a.rev = b.rev
<1>1. /\ OldKey(p) \in Keys /\ OldKey(q) \in Keys
      /\ NewKey(a) \in Keys /\ NewKey(b) \in Keys
  BY KeyType
<1>2. /\ OldKey(p)[1] = p /\ OldKey(p)[2] = 1 /\ OldKey(p)[3] = 0 /\ OldKey(p)[4] = 0
      /\ OldKey(q)[1] = q /\ OldKey(q)[2] = 1 /\ OldKey(q)[3] = 0 /\ OldKey(q)[4] = 0
      /\ NewKey(a)[1] = a.pos /\ NewKey(a)[2] = 0 /\ NewKey(a)[3] = a.cid /\ NewKey(a)[4] = -a.rev
      /\ NewKey(b)[1] = b.pos /\ NewKey(b)[2] = 0 /\ NewKey(b)[3] = b.cid /\ NewKey(b)[4] = -b.rev
  BY DEF OldKey, NewKey
<1>3. Before(OldKey(p), OldKey(q)) <=> p < q
  BY <1>1, <1>2, BeforeLexicographic
<1>4. Before(OldKey(p), NewKey(b)) <=> p < b.pos
  BY <1>1, <1>2, BeforeLexicographic
<1>5. Before(NewKey(b), OldKey(p)) <=> b.pos <= p
  BY <1>1, <1>2, BeforeLexicographic
<1>6. Before(NewKey(a), NewKey(b)) <=>
        \/ a.pos < b.pos
        \/ a.pos = b.pos /\ a.cid < b.cid
        \/ a.pos = b.pos /\ a.cid = b.cid /\ b.rev < a.rev
  BY <1>1, <1>2, BeforeLexicographic
<1>7. /\ OldKey(p) = OldKey(q) => p = q
      /\ OldKey(p) # NewKey(b)
      /\ NewKey(a) = NewKey(b) => a.pos = b.pos /\ a.cid = b.cid /\ a.rev = b.rev
  BY <1>2
<1> QED
  BY <1>3, <1>4, <1>5, <1>6, <1>7

LEMMA OldKeysCounted ==
  ASSUME NEW n \in Nat
  PROVE  LET old == {OldKey(p) : p \in 0 .. n - 1}
         IN  /\ old \in SUBSET Keys
             /\ IsFiniteSet(old)
             /\ Cardinality(old) = n
<1> DEFINE P == 0 .. n - 1
           old == {OldKey(p) : p \in P}
           f == [p \in P |-> OldKey(p)]
<1>1. IsFiniteSet(P) /\ Cardinality(P) = n
  BY FS_Interval
<1>2. old \in SUBSET Keys
  BY KeyType
<1>3. \A p, q \in P : OldKey(p) = OldKey(q) => p = q
  BY DEF OldKey
<1>4. f \in Surjection(P, old)
  BY DEF Surjection
<1>5. f \in Injection(P, old)
  BY <1>3, <1>4 DEF Surjection, Injection, IsInjective
<1> HIDE DEF P, old, f
<1>6. IsFiniteSet(old) /\ Cardinality(old) = Cardinality(P)
  BY <1>1, <1>4, <1>5, FS_Surjection
<1> QED
  BY <1>1, <1>2, <1>6 DEF old, P

(* Before anything is received, an operation belongs where its author      *)
(* said.                                                                   *)
LEMMA ItemsOfNone ==
  ASSUME NEW doc \in Seq(Value)
  PROVE  /\ Items(doc, {}) = {OldKey(p) : p \in 0 .. Len(doc) - 1}
         /\ Items(doc, {}) \in SUBSET Keys
         /\ IsFiniteSet(Items(doc, {}))
         /\ Cardinality(Items(doc, {})) = Len(doc)
         /\ \A op \in OpDescriptor :
              op.pos <= Len(doc) => Rank(Items(doc, {}), Key(op)) = op.pos
<1>1. Items(doc, {}) = {OldKey(p) : p \in 0 .. Len(doc) - 1}
  BY DEF Items, AtPos, Inserts
<1>2. /\ Items(doc, {}) \in SUBSET Keys /\ IsFiniteSet(Items(doc, {}))
      /\ Cardinality(Items(doc, {})) = Len(doc)
  <2>1. Len(doc) \in Nat
    OBVIOUS
  <2> QED
    BY <1>1, <2>1, OldKeysCounted, Zenon
<1>3. ASSUME NEW op \in OpDescriptor, op.pos <= Len(doc)
      PROVE  Rank(Items(doc, {}), Key(op)) = op.pos
  <2>1. \A p \in Nat : Before(OldKey(p), Key(op)) <=> p < op.pos
    BY OpFields, KeysCompared DEF Key
  <2>2. {y \in Items(doc, {}) : Before(y, Key(op))} = {OldKey(p) : p \in 0 .. op.pos - 1}
    <3>1. op.pos \in Nat /\ Len(doc) \in Nat
      BY OpFields
    <3>2. ASSUME NEW p \in Nat
          PROVE  p \in 0 .. Len(doc) - 1 /\ Before(OldKey(p), Key(op)) <=> p \in 0 .. op.pos - 1
      BY <1>3, <2>1, <3>1
    <3> QED
      BY <1>1, <3>1, <3>2
  <2> QED
    BY <2>2, OpFields, OldKeysCounted DEF Rank
<1> QED
  BY <1>1, <1>2, <1>3

(* What one more operation does to the items.                              *)
LEMMA ItemsAdd ==
  ASSUME NEW doc \in Seq(Value), NEW ops \in SUBSET OpDescriptor, NEW op \in OpDescriptor
  PROVE  /\ op.typ \in {"nothing", "update"} => Items(doc, ops \union {op}) = Items(doc, ops)
         /\ op.typ = "remove" => Items(doc, ops \union {op}) = Items(doc, ops) \ {OldKey(op.pos)}
         /\ op.typ = "insert" => Items(doc, ops \union {op}) = Items(doc, ops) \union {NewKey(op)}
<1> DEFINE kept(s) == {OldKey(p) : p \in {q \in 0 .. Len(doc) - 1 : AtPos(s, "remove", q) = {}}}
           new(s)  == {NewKey(o) : o \in Inserts(s)}
<1>1. Items(doc, ops) = kept(ops) \union new(ops)
      /\ Items(doc, ops \union {op}) = kept(ops \union {op}) \union new(ops \union {op})
  BY DEF Items
<1>2. op.typ # "remove" => kept(ops \union {op}) = kept(ops)
  <2>1. op.typ # "remove" => \A q : AtPos(ops \union {op}, "remove", q) = AtPos(ops, "remove", q)
    BY DEF AtPos
  <2> QED
    BY <2>1
<1>3. op.typ # "insert" => new(ops \union {op}) = new(ops)
  BY DEF Inserts
<1>4. op.typ = "insert" => new(ops \union {op}) = new(ops) \union {NewKey(op)}
  BY DEF Inserts
<1>5. op.typ = "remove" => kept(ops \union {op}) = kept(ops) \ {OldKey(op.pos)}
  <2>1. ASSUME op.typ = "remove", NEW q \in Nat
        PROVE  AtPos(ops \union {op}, "remove", q) = {} <=> AtPos(ops, "remove", q) = {} /\ q # op.pos
    BY <2>1 DEF AtPos
  <2>2. \A p, q \in Nat : OldKey(p) = OldKey(q) => p = q
    BY DEF OldKey
  <2> SUFFICES ASSUME op.typ = "remove" PROVE kept(ops \union {op}) = kept(ops) \ {OldKey(op.pos)}
    OBVIOUS
  <2>3. op.pos \in Nat
    BY OpFields
  <2> DEFINE free(s) == {q \in 0 .. Len(doc) - 1 : AtPos(s, "remove", q) = {}}
  <2>4. free(ops \union {op}) = free(ops) \ {op.pos}
    <3>1. \A q \in 0 .. Len(doc) - 1 : q \in Nat
      OBVIOUS
    <3>2. \A q \in 0 .. Len(doc) - 1 :
            AtPos(ops \union {op}, "remove", q) = {} <=> AtPos(ops, "remove", q) = {} /\ q # op.pos
      BY <2>1, <3>1
    <3> QED
      BY <3>2, Zenon
  <2>5. free(ops) \subseteq Nat
    OBVIOUS
  <2>6. kept(ops) = {OldKey(p) : p \in free(ops)}
        /\ kept(ops \union {op}) = {OldKey(p) : p \in free(ops \union {op})}
    OBVIOUS
  <2> HIDE DEF free, kept
  <2> QED
    BY <2>2, <2>3, <2>4, <2>5, <2>6
<1>6. OldKey(op.pos) \notin new(ops)
  BY OpFields, KeysCompared DEF Inserts
<1> HIDE DEF kept, new
<1> QED
  BY <1>1, <1>2, <1>3, <1>4, <1>5, <1>6, OpFields

-----------------------------------------------------------------------------
(* One step of the transformation (OpDescriptor::trans): an operation that *)
(* is to be applied where it belongs among the items of ops still is when  *)
(* pre is one of them, as long as nothing wraps around.  An earlier insert *)
(* of op's author at op's place comes after it.                            *)
Earlier(pre, op) == pre.cid = op.cid /\ pre.pos = op.pos => pre.rev < op.rev

LEMMA TransRank ==
  ASSUME NEW doc \in Seq(Value), NEW ops \in SUBSET OpDescriptor,
         NEW op \in OpDescriptor, NEW pre \in OpDescriptor,
         Items(doc, ops) \in SUBSET Keys, IsFiniteSet(Items(doc, ops)),
         Cardinality(Items(doc, ops)) + 1 < UMod,
         pre.typ = "remove" => OldKey(pre.pos) \in Items(doc, ops),
         pre.typ = "insert" => NewKey(pre) \notin Items(doc, ops),
         op.typ = "insert" => Earlier(pre, op),
         op.posser = Rank(Items(doc, ops), Key(op))
  PROVE  /\ Key(Trans(op, pre)) = Key(op)
         /\ Trans(op, pre).posser = Rank(Items(doc, ops \union {pre}), Key(op))
<1> DEFINE S == Items(doc, ops)
           x == Key(op)
<1>1. /\ op.typ \in {"nothing", "insert", "remove", "update"}
      /\ op.pos \in Nat /\ op.cid \in Nat /\ op.rev \in Nat /\ x \in Keys
      /\ pre.typ \in {"nothing", "insert", "remove", "update"}
      /\ pre.pos \in Nat /\ pre.cid \in Nat /\ pre.rev \in Nat
      /\ NewKey(pre) \in Keys /\ OldKey(pre.pos) \in Keys
  BY OpFields
<1>2. Key(Trans(op, pre)) = Key(op)
  <2>1. SameButMoved(Trans(op, pre), op)
    BY TransType
  <2>2. Trans(op, pre).typ = IF Dropped(op, pre) THEN "nothing" ELSE op.typ
    BY DEF Trans
  <2>3. Dropped(op, pre) => op.typ # "insert"
    BY DEF Dropped
  <2> QED
    BY <2>1, <2>2, <2>3 DEF Key, NewKey, SameButMoved
<1>3. Rank(S, x) \in 0 .. Cardinality(S) /\ Cardinality(S) \in Nat /\ UMod \in Nat
  BY <1>1, RankType, UModAssumption
<1>4. /\ Unmoved(op, pre) => Trans(op, pre).posser = op.posser
      /\ ~Unmoved(op, pre) /\ pre.typ = "remove" => Trans(op, pre).posser = UDec(op.posser)
      /\ ~Unmoved(op, pre) /\ pre.typ = "insert" => Trans(op, pre).posser = UInc(op.posser)
  <2>1. CASE Unmoved(op, pre)
    BY <2>1 DEF Trans, OpDescriptor
  <2>2. CASE ~Unmoved(op, pre) /\ pre.typ = "remove"
    BY <2>2 DEF Trans, OpDescriptor
  <2>3. CASE ~Unmoved(op, pre) /\ pre.typ = "insert"
    BY <2>3 DEF Trans, OpDescriptor
  <2> QED
    BY <2>1, <2>2, <2>3
<1>5. /\ Before(OldKey(pre.pos), x) <=> pre.pos < op.pos
      /\ Before(NewKey(pre), x) <=>
           \/ pre.pos < op.pos
           \/ pre.pos = op.pos /\ (op.typ = "insert" => pre.cid < op.cid)
  BY <1>1, KeysCompared DEF Key, Earlier
<1>6. CASE pre.typ \in {"nothing", "update"}
  <2>1. Unmoved(op, pre)
    BY <1>6 DEF Unmoved
  <2> QED
    BY <1>2, <1>4, <1>6, <2>1, ItemsAdd
<1>7. CASE pre.typ = "remove"
  <2>1. Unmoved(op, pre) <=> ~Before(OldKey(pre.pos), x)
    BY <1>1, <1>5, <1>7 DEF Unmoved, SamePos
  <2>2. Rank(S \ {OldKey(pre.pos)}, x) =
          IF Before(OldKey(pre.pos), x) THEN Rank(S, x) - 1 ELSE Rank(S, x)
    BY <1>1, <1>7, RankRemove
  <2>3. Before(OldKey(pre.pos), x) => Rank(S, x) > 0
    <3>1. Before(OldKey(pre.pos), x) => Rank(S, OldKey(pre.pos)) < Rank(S, x)
      BY <1>1, <1>7, RankMonotonic
    <3>2. Rank(S, OldKey(pre.pos)) \in Nat
      BY <1>1, RankType
    <3> QED
      BY <1>3, <3>1, <3>2
  <2>4. Items(doc, ops \union {pre}) = S \ {OldKey(pre.pos)}
    BY <1>7, ItemsAdd
  <2>5. Trans(op, pre).posser = Rank(S \ {OldKey(pre.pos)}, x)
    <3>1. op.posser = Rank(S, x)
      OBVIOUS
    <3> HIDE DEF S, x
    <3> QED
      BY <1>3, <1>4, <1>7, <2>1, <2>2, <2>3, <3>1 DEF UDec
  <2> QED
    BY <1>2, <2>4, <2>5
<1>8. CASE pre.typ = "insert"
  <2>1. Unmoved(op, pre) <=> ~Before(NewKey(pre), x)
    BY <1>1, <1>5, <1>8 DEF Unmoved, SamePos
  <2>2. Rank(S \union {NewKey(pre)}, x) =
          IF Before(NewKey(pre), x) THEN Rank(S, x) + 1 ELSE Rank(S, x)
    BY <1>1, <1>8, RankAdd
  <2>3. Items(doc, ops \union {pre}) = S \union {NewKey(pre)}
    BY <1>8, ItemsAdd
  <2>4. Trans(op, pre).posser = Rank(S \union {NewKey(pre)}, x)
    <3>1. op.posser = Rank(S, x) /\ Cardinality(S) + 1 < UMod
      OBVIOUS
    <3> HIDE DEF S, x
    <3> QED
      BY <1>3, <1>4, <1>8, <2>1, <2>2, <3>1 DEF UInc
  <2> QED
    BY <1>2, <2>3, <2>4
<1> QED
  BY <1>1, <1>6, <1>7, <1>8

LEMMA ItemsMembers ==
  ASSUME NEW doc \in Seq(Value), NEW ops \in SUBSET OpDescriptor
  PROVE  /\ \A p \in Nat : OldKey(p) \in Items(doc, ops) <=>
                             p < Len(doc) /\ AtPos(ops, "remove", p) = {}
         /\ \A op \in OpDescriptor : NewKey(op) \in Items(doc, ops) <=>
                             \E o \in Inserts(ops) : NewKey(o) = NewKey(op)
<1>0. Len(doc) \in Nat
  OBVIOUS
<1> DEFINE free == {q \in 0 .. Len(doc) - 1 : AtPos(ops, "remove", q) = {}}
           old == {OldKey(p) : p \in free}
           new == {NewKey(o) : o \in Inserts(ops)}
<1>1. Items(doc, ops) = old \union new
  BY DEF Items
<1>2. \A o \in Inserts(ops) : o \in OpDescriptor
  BY DEF Inserts
<1>3. ASSUME NEW p \in Nat PROVE OldKey(p) \in old <=> p \in free
  <2>1. \A q \in free : OldKey(p) = OldKey(q) => p = q
    BY DEF OldKey
  <2> QED
    BY <2>1
<1>4. ASSUME NEW p \in Nat PROVE OldKey(p) \notin new
  BY <1>2, OpFields, KeysCompared
<1>5. ASSUME NEW op \in OpDescriptor PROVE NewKey(op) \notin old
  <2>1. \A p \in free : p \in Nat
    BY <1>0
  <2>2. \A p \in Nat : OldKey(p) # NewKey(op)
    BY OpFields, KeysCompared
  <2> QED
    BY <2>1, <2>2
<1>6. ASSUME NEW p \in Nat
      PROVE  p \in free <=> p < Len(doc) /\ AtPos(ops, "remove", p) = {}
  BY <1>0
<1> HIDE DEF free, old
<1> QED
  BY <1>1, <1>3, <1>4, <1>5, <1>6

(* A pack that takes out no element twice, and puts in none twice.         *)
NoRepeat(doc, pack) ==
  \A i \in 1 .. Len(pack) :
    /\ pack[i].typ = "remove" => pack[i].pos < Len(doc)
    /\ \A j \in 1 .. i - 1 :
         /\ pack[i].typ = "remove" /\ pack[j].typ = "remove" => pack[i].pos # pack[j].pos
         /\ pack[i].typ = "insert" /\ pack[j].typ = "insert" => NewKey(pack[i]) # NewKey(pack[j])

PackOps(pack, k) == {pack[i] : i \in 1 .. k}

LEMMA PackItem ==
  ASSUME NEW doc \in Seq(Value), NEW pack \in Seq(OpDescriptor), NoRepeat(doc, pack),
         NEW k \in 0 .. Len(pack) - 1
  PROVE  /\ PackOps(pack, k) \in SUBSET OpDescriptor
         /\ pack[k + 1] \in OpDescriptor
         /\ PackOps(pack, k + 1) = PackOps(pack, k) \union {pack[k + 1]}
         /\ pack[k + 1].typ = "remove" => OldKey(pack[k + 1].pos) \in Items(doc, PackOps(pack, k))
         /\ pack[k + 1].typ = "insert" => NewKey(pack[k + 1]) \notin Items(doc, PackOps(pack, k))
<1>1. /\ k + 1 \in 1 .. Len(pack) /\ Len(pack) \in Nat /\ k \in Nat
      /\ \A i \in 1 .. k : i \in 1 .. Len(pack) /\ i \in 1 .. (k + 1) - 1
      /\ 1 .. k + 1 = (1 .. k) \union {k + 1}
  OBVIOUS
<1>2. PackOps(pack, k) \in SUBSET OpDescriptor /\ pack[k + 1] \in OpDescriptor
  BY <1>1 DEF PackOps
<1>3. PackOps(pack, k + 1) = PackOps(pack, k) \union {pack[k + 1]}
  BY <1>1 DEF PackOps
<1>4. ASSUME pack[k + 1].typ = "remove"
      PROVE  OldKey(pack[k + 1].pos) \in Items(doc, PackOps(pack, k))
  <2>1. pack[k + 1].pos \in Nat /\ pack[k + 1].pos < Len(doc)
    BY <1>1, <1>2, <1>4, OpFields DEF NoRepeat
  <2>2. AtPos(PackOps(pack, k), "remove", pack[k + 1].pos) = {}
    BY <1>1, <1>4 DEF NoRepeat, AtPos, PackOps
  <2> QED
    BY <1>2, <2>1, <2>2, ItemsMembers
<1>5. ASSUME pack[k + 1].typ = "insert"
      PROVE  NewKey(pack[k + 1]) \notin Items(doc, PackOps(pack, k))
  <2>1. \A o \in Inserts(PackOps(pack, k)) : NewKey(o) # NewKey(pack[k + 1])
    BY <1>1, <1>5 DEF NoRepeat, Inserts, PackOps
  <2> QED
    BY <1>2, <2>1, ItemsMembers
<1> QED
  BY <1>2, <1>3, <1>4, <1>5

LEMMA PackItems ==
  ASSUME NEW doc \in Seq(Value), NEW pack \in Seq(OpDescriptor), NoRepeat(doc, pack)
  PROVE  \A k \in 0 .. Len(pack) :
           /\ Items(doc, PackOps(pack, k)) \in SUBSET Keys
           /\ IsFiniteSet(Items(doc, PackOps(pack, k)))
           /\ Cardinality(Items(doc, PackOps(pack, k))) <= Len(doc) + k
<1> DEFINE S(k) == Items(doc, PackOps(pack, k))
           K == {k \in 0 .. Len(pack) :
                   S(k) \in SUBSET Keys /\ IsFiniteSet(S(k)) /\ Cardinality(S(k)) <= Len(doc) + k}
<1>1. Len(pack) \in Nat /\ Len(doc) \in Nat
  OBVIOUS
<1>2. 0 \in K
  <2>1. PackOps(pack, 0) = {}
    BY DEF PackOps
  <2>2. S(0) \in SUBSET Keys /\ IsFiniteSet(S(0)) /\ Cardinality(S(0)) = Len(doc)
    BY <2>1, ItemsOfNone
  <2> HIDE DEF S
  <2> QED
    BY <1>1, <2>2
<1>3. ASSUME NEW k \in 0 .. Len(pack) - 1, k \in K PROVE k + 1 \in K
  <2> DEFINE pre == pack[k + 1]
  <2>1. /\ PackOps(pack, k) \in SUBSET OpDescriptor /\ pre \in OpDescriptor
        /\ PackOps(pack, k + 1) = PackOps(pack, k) \union {pre}
    BY PackItem
  <2>2. \/ S(k + 1) = S(k)
        \/ S(k + 1) = S(k) \ {OldKey(pre.pos)}
        \/ S(k + 1) = S(k) \union {NewKey(pre)}
    <3>1. pre.typ \in {"nothing", "insert", "remove", "update"}
      BY <2>1, OpFields
    <3> HIDE DEF pre
    <3> QED
      BY <2>1, <3>1, ItemsAdd
  <2>3. S(k) \in SUBSET Keys /\ IsFiniteSet(S(k)) /\ Cardinality(S(k)) <= Len(doc) + k
    BY <1>3
  <2>4. NewKey(pre) \in Keys
    BY <2>1, OpFields
  <2> HIDE DEF S, pre
  <2>5. S(k + 1) \in SUBSET Keys
    BY <2>2, <2>3, <2>4
  <2>6. Cardinality(S(k)) \in Nat
    BY <2>3, FS_CardinalityType
  <2>7. IsFiniteSet(S(k + 1)) /\ Cardinality(S(k + 1)) <= Len(doc) + (k + 1)
    <3>1. CASE S(k + 1) = S(k)
      BY <1>1, <2>3, <2>6, <3>1
    <3>2. CASE S(k + 1) = S(k) \ {OldKey(pre.pos)}
      <4>1. IsFiniteSet(S(k + 1)) /\ Cardinality(S(k + 1)) \in {Cardinality(S(k)), Cardinality(S(k)) - 1}
        <5> DEFINE T == S(k)
                   x == OldKey(pre.pos)
        <5>1. IsFiniteSet(T) /\ S(k + 1) = T \ {x}
          BY <2>3, <3>2
        <5> HIDE DEF T, x
        <5>2. IsFiniteSet(T \ {x})
          BY <5>1, FS_RemoveElement
        <5>3. Cardinality(T \ {x}) = IF x \in T THEN Cardinality(T) - 1 ELSE Cardinality(T)
          BY <5>1, FS_RemoveElement
        <5> QED
          BY <5>1, <5>2, <5>3 DEF T
      <4> QED
        BY <1>1, <2>3, <2>6, <4>1
    <3>3. CASE S(k + 1) = S(k) \union {NewKey(pre)}
      <4>1. IsFiniteSet(S(k + 1)) /\ Cardinality(S(k + 1)) \in {Cardinality(S(k)), Cardinality(S(k)) + 1}
        BY <2>3, <3>3, FS_AddElement
      <4> QED
        BY <1>1, <2>3, <2>6, <4>1
    <3> QED
      BY <2>2, <3>1, <3>2, <3>3
  <2>8. k + 1 \in 0 .. Len(pack)
    BY <1>1
  <2> QED
    BY <2>5, <2>7, <2>8
<1>4. 0 .. Len(pack) \subseteq K
  <2> HIDE DEF K
  <2> QED
    BY <1>1, <1>2, <1>3, UpTo
<1> QED
  BY <1>4

-----------------------------------------------------------------------------
(* OpPack::transformAndPut: moved past a whole pack, an operation is to be *)
(* applied where it belongs among the items of the pack.                   *)
LEMMA TransformAllRank ==
  ASSUME NEW doc \in Seq(Value), NEW pack \in Seq(OpDescriptor), NoRepeat(doc, pack),
         Len(doc) + Len(pack) < UMod,
         NEW op \in OpDescriptor, op.pos <= Len(doc), op.posser = op.pos,
         \A i \in 1 .. Len(pack) : Earlier(pack[i], op)
  PROVE  /\ Key(TransformAll(op, pack)) = Key(op)
         /\ TransformAll(op, pack).posser = Rank(Items(doc, PackOps(pack, Len(pack))), Key(op))
<1> DEFINE n == Len(pack)
           S(k) == Items(doc, PackOps(pack, k))
<1>1. PICK t \in [0 .. n -> OpDescriptor] :
        /\ t[0] = op
        /\ \A i \in 1 .. n : t[i] = Trans(t[i - 1], pack[i])
        /\ \A i \in 0 .. n : SameButMoved(t[i], op)
        /\ TransformAll(op, pack) = t[n]
  BY TransformAllSteps
<1>2. n \in Nat /\ Len(doc) \in Nat /\ UMod \in Nat
  BY UModAssumption
<1> DEFINE K == {k \in 0 .. n : Key(t[k]) = Key(op) /\ t[k].posser = Rank(S(k), Key(op))}
<1>3. 0 \in K
  <2>1. S(0) = Items(doc, {})
    BY DEF PackOps
  <2>2. Rank(S(0), Key(op)) = op.pos
    BY <2>1, ItemsOfNone
  <2> HIDE DEF S
  <2> QED
    BY <1>1, <1>2, <2>2
<1>4. ASSUME NEW k \in 0 .. n - 1, k \in K PROVE k + 1 \in K
  <2> DEFINE pre == pack[k + 1]
  <2>1. k \in 0 .. n /\ k + 1 \in 1 .. n /\ k + 1 \in 0 .. n
    BY <1>2
  <2>2. /\ PackOps(pack, k) \in SUBSET OpDescriptor /\ pre \in OpDescriptor
        /\ PackOps(pack, k + 1) = PackOps(pack, k) \union {pre}
        /\ pre.typ = "remove" => OldKey(pre.pos) \in S(k)
        /\ pre.typ = "insert" => NewKey(pre) \notin S(k)
    BY PackItem
  <2>3. S(k) \in SUBSET Keys /\ IsFiniteSet(S(k)) /\ Cardinality(S(k)) <= Len(doc) + k
    BY <2>1, PackItems
  <2>4. Cardinality(S(k)) + 1 < UMod
    <3>1. Cardinality(S(k)) \in Nat
      BY <2>3, FS_CardinalityType
    <3> HIDE DEF S
    <3> QED
      BY <1>2, <2>3, <3>1
  <2>5. t[k] \in OpDescriptor /\ t[k + 1] = Trans(t[k], pre) /\ SameButMoved(t[k], op)
    BY <1>1, <2>1
  <2>6. Earlier(pre, t[k])
    BY <2>1, <2>5 DEF Earlier, SameButMoved
  <2>7. t[k].posser = Rank(S(k), Key(t[k])) /\ Key(t[k]) = Key(op)
    BY <1>4
  <2>8. /\ Key(t[k + 1]) = Key(t[k])
        /\ t[k + 1].posser = Rank(Items(doc, PackOps(pack, k) \union {pre}), Key(t[k]))
    <3> HIDE DEF pre
    <3> QED
      BY <2>2, <2>3, <2>4, <2>5, <2>6, <2>7, TransRank
  <2>9. t[k + 1].posser = Rank(S(k + 1), Key(op))
    BY <2>2, <2>7, <2>8
  <2> QED
    BY <2>1, <2>7, <2>8, <2>9
<1>5. n \in K
  <2> HIDE DEF K, n
  <2>1. 0 .. n \subseteq K
    BY <1>2, <1>3, <1>4, UpTo
  <2> QED
    BY <1>2, <2>1
<1> QED
  BY <1>1, <1>5

(* It becomes pointless if one of the pack makes it so.                    *)
LEMMA TransformAllTyp ==
  ASSUME NEW pack \in Seq(OpDescriptor), NEW op \in OpDescriptor
  PROVE  TransformAll(op, pack).typ =
           IF \E i \in 1 .. Len(pack) : Dropped(op, pack[i]) THEN "nothing" ELSE op.typ
<1> DEFINE n == Len(pack)
<1>1. PICK t \in [0 .. n -> OpDescriptor] :
        /\ t[0] = op
        /\ \A i \in 1 .. n : t[i] = Trans(t[i - 1], pack[i])
        /\ \A i \in 0 .. n : SameButMoved(t[i], op)
        /\ TransformAll(op, pack) = t[n]
  BY TransformAllSteps
<1>2. n \in Nat
  OBVIOUS
<1> DEFINE gone(k) == \E i \in 1 .. k : Dropped(op, pack[i])
           K == {k \in 0 .. n : t[k].typ = IF gone(k) THEN "nothing" ELSE op.typ}
<1>3. 0 \in K
  BY <1>1
<1>4. ASSUME NEW k \in 0 .. n - 1, k \in K PROVE k + 1 \in K
  <2>1. k \in 0 .. n /\ k + 1 \in 1 .. n /\ k + 1 \in 0 .. n /\ (k + 1) - 1 = k
        /\ 1 .. k + 1 = (1 .. k) \union {k + 1}
    BY <1>2
  <2>2. t[k] \in OpDescriptor /\ t[k + 1] = Trans(t[k], pack[k + 1]) /\ SameButMoved(t[k], op)
    BY <1>1, <2>1
  <2>3. t[k + 1].typ = IF Dropped(t[k], pack[k + 1]) THEN "nothing" ELSE t[k].typ
    BY <2>2 DEF Trans, OpDescriptor
  <2>4. t[k].typ = op.typ => (Dropped(t[k], pack[k + 1]) <=> Dropped(op, pack[k + 1]))
    BY <2>2 DEF Dropped, SamePos, SameButMoved
  <2>5. gone(k + 1) <=> gone(k) \/ Dropped(op, pack[k + 1])
    BY <2>1
  <2>6. t[k].typ = IF gone(k) THEN "nothing" ELSE op.typ
    BY <1>4
  <2> HIDE DEF gone
  <2>7. t[k + 1].typ = IF gone(k + 1) THEN "nothing" ELSE op.typ
    BY <2>3, <2>4, <2>5, <2>6
  <2> QED
    BY <2>1, <2>7
<1>5. n \in K
  <2> HIDE DEF K, n
  <2>1. 0 .. n \subseteq K
    BY <1>2, <1>3, <1>4, UpTo
  <2> QED
    BY <1>2, <2>1
<1> QED
  BY <1>1, <1>5

-----------------------------------------------------------------------------
(* Which update wins.                                                      *)
Wins(u, updates) ==
  /\ u \in updates
  /\ \A v \in updates : u.cid < v.cid \/ (u.cid = v.cid /\ u.rev >= v.rev)

Named(ops) == \A p, q \in ops : p.cid = q.cid /\ p.rev = q.rev => p = q

LEMMA WinnerUnique ==
  ASSUME NEW us \in SUBSET OpDescriptor, Named(us), NEW w, Wins(w, us)
  PROVE  Winner(us) = w
<1> DEFINE W(u) == \A v \in us : u.cid < v.cid \/ (u.cid = v.cid /\ u.rev >= v.rev)
<1>1. w \in us /\ W(w)
  BY DEF Wins
<1>2. \A u \in us : u.cid \in Nat /\ u.rev \in Nat
  BY OpFields
<1>3. ASSUME NEW u \in us, W(u) PROVE u = w
  BY <1>1, <1>2, <1>3 DEF Named
<1>4. Winner(us) = CHOOSE u \in us : W(u)
  BY DEF Winner
<1> HIDE DEF W
<1> QED
  BY <1>1, <1>3, <1>4

LEMMA WinnerExists ==
  ASSUME NEW us \in SUBSET OpDescriptor, us # {}
  PROVE  \E w \in us : Wins(w, us)
<1>1. \A u \in us : u.cid \in Nat /\ u.rev \in Nat /\ UMod - u.rev \in Nat
  BY UModAssumption DEF OpDescriptor, Unsigned
<1> DEFINE cids == {u.cid : u \in us}
<1>2. PICK c \in cids : \A d \in cids : c <= d
  <2>1. cids \in SUBSET Nat /\ cids # {}
    BY <1>1
  <2> HIDE DEF cids
  <2> QED
    BY <2>1, NatLeast
<1> DEFINE best == {u \in us : u.cid = c}
           ages == {UMod - u.rev : u \in best}
<1>3. PICK a \in ages : \A b \in ages : a <= b
  <2>1. ages \in SUBSET Nat /\ ages # {}
    BY <1>1
  <2> HIDE DEF ages
  <2> QED
    BY <2>1, NatLeast
<1>4. PICK w \in best : a = UMod - w.rev
  OBVIOUS
<1>5. ASSUME NEW v \in us PROVE w.cid < v.cid \/ (w.cid = v.cid /\ w.rev >= v.rev)
  <2>1. w \in us /\ w.cid = c /\ c <= v.cid
    BY <1>2
  <2>2. v.cid = c => UMod - w.rev <= UMod - v.rev
    BY <1>3, <1>4
  <2> QED
    BY <1>1, <2>1, <2>2, UModAssumption
<1> QED
  BY <1>4, <1>5 DEF Wins

-----------------------------------------------------------------------------
(* Whether a pack can stand for the operations ops, made on doc, when      *)
(* another operation is moved past it.                                     *)
StandsFor(doc, ops, pack) ==
  /\ pack \in Seq(OpDescriptor)
  /\ NoRepeat(doc, pack)
  /\ Items(doc, PackOps(pack, Len(pack))) = Items(doc, ops)
  /\ \A i \in 1 .. Len(pack) : \E op \in ops :
       SameButMoved(pack[i], op) /\ pack[i].typ \in {op.typ, "nothing"}
  /\ \A u \in ops : u.typ = "update" /\ AtPos(ops, "remove", u.pos) = {} =>
       \E i \in 1 .. Len(pack) :
         pack[i].typ = "update" /\ pack[i].pos = u.pos /\ pack[i].cid <= u.cid

(* An operation as its author made it on doc, the latest of its author.    *)
MadeOn(doc, op, ops) ==
  /\ op \in OpDescriptor
  /\ op.typ # "nothing"
  /\ op.posser = op.pos
  /\ op.pos <= Len(doc)
  /\ op.typ # "insert" => op.pos < Len(doc)
  /\ \A e \in ops : Earlier(e, op)

(* What remains of an operation moved past a pack.                         *)
LEMMA Remains ==
  ASSUME NEW doc \in Seq(Value), NEW ops \in SUBSET OpDescriptor,
         NEW pack, StandsFor(doc, ops, pack), NEW op, MadeOn(doc, op, ops)
  PROVE  LET newop == TransformAll(op, pack)
             here  == OldKey(op.pos) \in Items(doc, ops)
         IN  /\ newop \in OpDescriptor /\ SameButMoved(newop, op)
             /\ newop.typ \in {op.typ, "nothing"}
             /\ op.typ = "insert" => newop.typ = "insert"
             /\ op.typ = "remove" => (newop.typ = "remove" <=> here)
             /\ op.typ = "update" =>
                  (newop.typ = "update" <=>
                     here /\ \A u \in AtPos(ops, "update", op.pos) : op.cid <= u.cid)
<1> DEFINE newop == TransformAll(op, pack)
           n == Len(pack)
           here == OldKey(op.pos) \in Items(doc, ops)
           gone == \E i \in 1 .. n : Dropped(op, pack[i])
<1>1. /\ op \in OpDescriptor /\ pack \in Seq(OpDescriptor) /\ n \in Nat
      /\ op.typ \in {"insert", "remove", "update"} /\ op.pos \in Nat /\ op.cid \in Nat
      /\ \A i \in 1 .. n : pack[i] \in OpDescriptor /\ pack[i].cid \in Nat
      /\ \A u \in ops : u.cid \in Nat
  BY OpFields DEF MadeOn, StandsFor
<1>2. /\ newop \in OpDescriptor /\ SameButMoved(newop, op)
      /\ newop.typ = IF gone THEN "nothing" ELSE op.typ
  BY <1>1, TransformAllType, TransformAllTyp
<1>3. op.typ # "insert" => (here <=> ~ \E i \in 1 .. n : pack[i].typ = "remove" /\ pack[i].pos = op.pos)
  <2>1. PackOps(pack, n) \in SUBSET OpDescriptor
    BY <1>1 DEF PackOps
  <2>2. here <=> op.pos < Len(doc) /\ AtPos(PackOps(pack, n), "remove", op.pos) = {}
    BY <1>1, <2>1, ItemsMembers DEF StandsFor
  <2>3. AtPos(PackOps(pack, n), "remove", op.pos) = {} <=>
          ~ \E i \in 1 .. n : pack[i].typ = "remove" /\ pack[i].pos = op.pos
    BY DEF AtPos, PackOps
  <2> QED
    BY <2>2, <2>3 DEF MadeOn
<1>4. op.typ = "insert" => ~gone
  BY DEF Dropped
<1>5. op.typ = "remove" => (gone <=> ~here)
  BY <1>3 DEF Dropped, SamePos
<1>6. ASSUME op.typ = "update"
      PROVE  ~gone <=> here /\ \A u \in AtPos(ops, "update", op.pos) : op.cid <= u.cid
  <2>1. gone <=> ~here \/ \E i \in 1 .. n : /\ pack[i].typ = "update" /\ pack[i].pos = op.pos
                                            /\ pack[i].cid < op.cid
    BY <1>1, <1>3, <1>6 DEF Dropped, SamePos
  <2>2. ASSUME NEW i \in 1 .. n, pack[i].typ = "update", pack[i].pos = op.pos, pack[i].cid < op.cid
        PROVE  \E u \in AtPos(ops, "update", op.pos) : u.cid < op.cid
    <3>1. PICK u \in ops : SameButMoved(pack[i], u) /\ pack[i].typ \in {u.typ, "nothing"}
      BY DEF StandsFor
    <3> QED
      BY <2>2, <3>1 DEF AtPos, SameButMoved
  <2>3. ASSUME here, NEW u \in AtPos(ops, "update", op.pos), u.cid < op.cid
        PROVE  \E i \in 1 .. n : /\ pack[i].typ = "update" /\ pack[i].pos = op.pos
                                 /\ pack[i].cid < op.cid
    <3>1. AtPos(ops, "remove", u.pos) = {} /\ u \in ops /\ u.typ = "update" /\ u.pos = op.pos
      BY <1>1, <2>3, ItemsMembers DEF AtPos
    <3>2. PICK i \in 1 .. n : pack[i].typ = "update" /\ pack[i].pos = u.pos /\ pack[i].cid <= u.cid
      BY <3>1 DEF StandsFor
    <3> QED
      BY <1>1, <2>3, <3>1, <3>2
  <2>4. \A u \in AtPos(ops, "update", op.pos) : u.cid \in Nat
    BY <1>1 DEF AtPos
  <2> HIDE DEF gone, here, n
  <2> QED
    BY <1>1, <2>1, <2>2, <2>3, <2>4
<1> HIDE DEF gone, here
<1> QED
  BY <1>1, <1>2, <1>4, <1>5, <1>6 DEF here

(* State::apply(pack, op) keeps the pack standing for what was received.   *)
LEMMA StandsForMore ==
  ASSUME NEW doc \in Seq(Value), NEW ops \in SUBSET OpDescriptor,
         NEW pack, StandsFor(doc, ops, pack), NEW op, MadeOn(doc, op, ops)
  PROVE  StandsFor(doc, ops \union {op}, Append(pack, TransformAll(op, pack)))
<1> DEFINE newop == TransformAll(op, pack)
           more == Append(pack, newop)
           n == Len(pack)
           S == Items(doc, ops)
           here == OldKey(op.pos) \in S
<1>1. /\ op \in OpDescriptor /\ pack \in Seq(OpDescriptor) /\ n \in Nat
      /\ op.typ \in {"insert", "remove", "update"} /\ op.pos \in Nat /\ op.cid \in Nat
      /\ \A i \in 1 .. n : pack[i] \in OpDescriptor /\ pack[i].cid \in Nat
  BY OpFields DEF MadeOn, StandsFor
<1>2. /\ newop \in OpDescriptor /\ SameButMoved(newop, op)
      /\ newop.typ \in {op.typ, "nothing"}
      /\ op.typ = "insert" => newop.typ = "insert"
      /\ op.typ = "remove" => (newop.typ = "remove" <=> here)
      /\ op.typ = "update" =>
           (newop.typ = "update" <=>
              here /\ \A u \in AtPos(ops, "update", op.pos) : op.cid <= u.cid)
  BY Remains
<1> HIDE DEF newop
<1>3. /\ more \in Seq(OpDescriptor) /\ Len(more) = n + 1
      /\ more[n + 1] = newop
      /\ \A i \in 1 .. n : more[i] = pack[i]
      /\ 1 .. n + 1 = (1 .. n) \union {n + 1}
  BY <1>1, <1>2, AppendProperties
<1>4. NewKey(newop) = NewKey(op) /\ newop.pos = op.pos
  BY <1>2 DEF SameButMoved, NewKey
<1>5. Items(doc, PackOps(more, n + 1)) = Items(doc, ops \union {op})
  <2>1. PackOps(more, n + 1) = PackOps(pack, n) \union {newop}
    BY <1>3 DEF PackOps
  <2>2. PackOps(pack, n) \in SUBSET OpDescriptor
    BY <1>1 DEF PackOps
  <2>3. Items(doc, PackOps(pack, n)) = S
    BY DEF StandsFor
  <2>4. /\ newop.typ \in {"nothing", "update"} => Items(doc, PackOps(more, n + 1)) = S
        /\ newop.typ = "remove" => Items(doc, PackOps(more, n + 1)) = S \ {OldKey(op.pos)}
        /\ newop.typ = "insert" => Items(doc, PackOps(more, n + 1)) = S \union {NewKey(op)}
    BY <1>2, <1>4, <2>1, <2>2, <2>3, ItemsAdd
  <2>5. /\ op.typ = "update" => Items(doc, ops \union {op}) = S
        /\ op.typ = "remove" => Items(doc, ops \union {op}) = S \ {OldKey(op.pos)}
        /\ op.typ = "insert" => Items(doc, ops \union {op}) = S \union {NewKey(op)}
    BY <1>1, ItemsAdd
  <2> HIDE DEF S
  <2> QED
    BY <1>1, <1>2, <2>4, <2>5
<1>6. NoRepeat(doc, more)
  <2>1. newop.typ = "remove" =>
          /\ op.pos < Len(doc)
          /\ \A j \in 1 .. n : pack[j].typ = "remove" => pack[j].pos # op.pos
    <3> SUFFICES ASSUME newop.typ = "remove"
                 PROVE  /\ op.pos < Len(doc)
                        /\ \A j \in 1 .. n : pack[j].typ = "remove" => pack[j].pos # op.pos
      OBVIOUS
    <3>1. here /\ op.pos < Len(doc)
      BY <1>1, <1>2 DEF MadeOn
    <3>2. PackOps(pack, n) \in SUBSET OpDescriptor
      BY <1>1 DEF PackOps
    <3>3. AtPos(PackOps(pack, n), "remove", op.pos) = {}
      BY <1>1, <3>1, <3>2, ItemsMembers DEF StandsFor
    <3> QED
      BY <3>1, <3>3 DEF AtPos, PackOps
  <2>2. newop.typ = "insert" => \A j \in 1 .. n : pack[j].typ = "insert" => NewKey(pack[j]) # NewKey(op)
    <3>1. ASSUME NEW j \in 1 .. n PROVE NewKey(pack[j]) # NewKey(op)
      <4>1. PICK e \in ops : SameButMoved(pack[j], e)
        BY DEF StandsFor
      <4>2. Earlier(e, op) /\ e.rev \in Nat /\ e \in OpDescriptor
        BY <4>1, OpFields DEF MadeOn
      <4>3. NewKey(pack[j]) = NewKey(e)
        BY <4>1 DEF SameButMoved, NewKey
      <4>4. NewKey(e) = NewKey(op) => e.pos = op.pos /\ e.cid = op.cid /\ e.rev = op.rev
        BY <1>1, <4>2, OpFields, KeysCompared
      <4>5. ~ (e.rev < e.rev)
        BY <4>2
      <4> QED
        BY <4>2, <4>3, <4>4, <4>5 DEF Earlier
    <3> QED
      BY <3>1
  <2>3. ASSUME NEW i \in 1 .. n + 1
        PROVE  /\ more[i].typ = "remove" => more[i].pos < Len(doc)
               /\ \A j \in 1 .. i - 1 :
                    /\ more[i].typ = "remove" /\ more[j].typ = "remove" => more[i].pos # more[j].pos
                    /\ more[i].typ = "insert" /\ more[j].typ = "insert" =>
                         NewKey(more[i]) # NewKey(more[j])
    <3>1. CASE i = n + 1
      <4>1. \A j \in 1 .. i - 1 : j \in 1 .. n /\ more[j] = pack[j]
        BY <1>1, <1>3, <3>1
      <4>2. more[i] = newop
        BY <1>3, <3>1
      <4> HIDE DEF more, n
      <4> QED
        BY <1>4, <2>1, <2>2, <4>1, <4>2
    <3>2. CASE i \in 1 .. n
      <4>1. more[i] = pack[i] /\ \A j \in 1 .. i - 1 : j \in 1 .. n /\ more[j] = pack[j]
        BY <1>1, <1>3, <3>2
      <4> HIDE DEF more
      <4> QED
        BY <3>2, <4>1 DEF StandsFor, NoRepeat
    <3> QED
      BY <1>3, <3>1, <3>2
  <2> QED
    BY <1>3, <2>3 DEF NoRepeat
<1>7. \A i \in 1 .. n + 1 : \E e \in ops \union {op} :
        SameButMoved(more[i], e) /\ more[i].typ \in {e.typ, "nothing"}
  <2>1. ASSUME NEW i \in 1 .. n PROVE \E e \in ops :
          SameButMoved(more[i], e) /\ more[i].typ \in {e.typ, "nothing"}
    BY <1>3 DEF StandsFor
  <2>2. SameButMoved(more[n + 1], op) /\ more[n + 1].typ \in {op.typ, "nothing"}
    BY <1>2, <1>3
  <2> HIDE DEF more, n
  <2> QED
    BY <1>3, <2>1, <2>2
<1>8. ASSUME NEW u \in ops \union {op}, u.typ = "update",
             AtPos(ops \union {op}, "remove", u.pos) = {}
      PROVE  \E i \in 1 .. n + 1 :
               more[i].typ = "update" /\ more[i].pos = u.pos /\ more[i].cid <= u.cid
  <2>1. AtPos(ops, "remove", u.pos) = {}
    BY <1>8 DEF AtPos
  <2>2. ASSUME NEW v \in ops, v.typ = "update", v.pos = u.pos
        PROVE  \E i \in 1 .. n : more[i].typ = "update" /\ more[i].pos = u.pos /\ more[i].cid <= v.cid
    BY <1>3, <2>1, <2>2 DEF StandsFor
  <2>3. CASE u \in ops
    BY <1>3, <1>8, <2>2, <2>3
  <2>4. CASE u = op /\ newop.typ = "update"
    <3>1. newop.pos = u.pos /\ newop.cid <= u.cid
      BY <1>1, <1>2, <1>4, <2>4 DEF SameButMoved
    <3> QED
      BY <1>3, <2>4, <3>1
  <2>5. CASE u = op /\ newop.typ # "update"
    <3>1. here
      <4>1. op.pos < Len(doc)
        BY <1>8, <2>5 DEF MadeOn
      <4> QED
        BY <1>1, <2>1, <2>5, <4>1, ItemsMembers
    <3>2. PICK v \in AtPos(ops, "update", op.pos) : ~ (op.cid <= v.cid)
      BY <1>2, <1>8, <2>5, <3>1
    <3>3. v \in ops /\ v.typ = "update" /\ v.pos = u.pos /\ v.cid \in Nat
      BY <2>5, <3>2, OpFields DEF AtPos
    <3>4. PICK i \in 1 .. n : more[i].typ = "update" /\ more[i].pos = u.pos /\ more[i].cid <= v.cid
      BY <2>2, <3>3
    <3>5. more[i].cid \in Nat /\ i \in 1 .. n + 1
      BY <1>1, <1>3
    <3>6. more[i].cid <= u.cid
      BY <1>1, <2>5, <3>2, <3>3, <3>4, <3>5
    <3> QED
      BY <3>4, <3>5, <3>6
  <2> QED
    BY <2>3, <2>4, <2>5
<1> QED
  BY <1>3, <1>5, <1>6, <1>7, <1>8 DEF StandsFor, newop

-----------------------------------------------------------------------------
(* A document lists S if each element of S has its value, in f, at its     *)
(* rank.                                                                   *)
Lists(d, S, f) ==
  /\ d \in Seq(Value)
  /\ Len(d) = Cardinality(S)
  /\ \A x \in S : d[Rank(S, x) + 1] = f[x]

LEMMA InsertAtElements ==
  ASSUME NEW s \in Seq(Value), NEW i \in 1 .. Len(s), NEW e \in Value
  PROVE  /\ \A j \in 1 .. i - 1 : InsertAt(s, i, e)[j] = s[j]
         /\ InsertAt(s, i, e)[i] = e
         /\ \A j \in i .. Len(s) : InsertAt(s, i, e)[j + 1] = s[j]
<1> DEFINE a == SubSeq(s, 1, i - 1)
           b == SubSeq(s, i, Len(s))
<1>1. /\ a \in Seq(Value) /\ Len(a) = i - 1
      /\ \A j \in 1 .. i - 1 : a[j] = s[j]
  BY SubSeqProperties
<1>2. /\ b \in Seq(Value) /\ Len(b) = Len(s) - i + 1
      /\ \A j \in 1 .. Len(s) - i + 1 : b[j] = s[i + j - 1]
  BY SubSeqProperties
<1>3. InsertAt(s, i, e) = (a \o <<e>>) \o b /\ Len(s) \in Nat
  BY DEF InsertAt
<1> HIDE DEF a, b
<1>4. /\ a \o <<e>> \in Seq(Value) /\ Len(a \o <<e>>) = i
      /\ \A j \in 1 .. i : (a \o <<e>>)[j] = IF j <= i - 1 THEN a[j] ELSE e
  BY <1>1, ConcatProperties
<1>5. \A j \in 1 .. Len(s) + 1 : InsertAt(s, i, e)[j] =
        IF j <= i THEN (a \o <<e>>)[j] ELSE b[j - i]
  BY <1>2, <1>3, <1>4, ConcatProperties
<1>6. ASSUME NEW j \in 1 .. i - 1 PROVE InsertAt(s, i, e)[j] = s[j]
  BY <1>1, <1>3, <1>4, <1>5
<1>7. InsertAt(s, i, e)[i] = e
  BY <1>1, <1>3, <1>4, <1>5
<1>8. ASSUME NEW j \in i .. Len(s) PROVE InsertAt(s, i, e)[j + 1] = s[j]
  <2>1. j + 1 \in 1 .. Len(s) + 1 /\ ~(j + 1 <= i) /\ j + 1 - i \in 1 .. Len(s) - i + 1
    BY <1>3
  <2>2. b[j + 1 - i] = s[i + (j + 1 - i) - 1] /\ i + (j + 1 - i) - 1 = j
    BY <1>2, <1>3, <2>1
  <2> QED
    BY <1>5, <2>1, <2>2
<1> QED
  BY <1>6, <1>7, <1>8

LEMMA RemoveAtElements ==
  ASSUME NEW s \in Seq(Value), NEW i \in 1 .. Len(s)
  PROVE  /\ \A j \in 1 .. i - 1 : RemoveAt(s, i)[j] = s[j]
         /\ \A j \in i + 1 .. Len(s) : RemoveAt(s, i)[j - 1] = s[j]
<1> DEFINE a == SubSeq(s, 1, i - 1)
           b == SubSeq(s, i + 1, Len(s))
<1>1. /\ a \in Seq(Value) /\ Len(a) = i - 1
      /\ \A j \in 1 .. i - 1 : a[j] = s[j]
  BY SubSeqProperties
<1>2. /\ b \in Seq(Value) /\ Len(b) = Len(s) - i
      /\ \A j \in 1 .. Len(s) - i : b[j] = s[i + j]
  BY SubSeqProperties
<1>3. RemoveAt(s, i) = a \o b /\ Len(s) \in Nat
  BY DEF RemoveAt
<1> HIDE DEF a, b
<1>4. \A j \in 1 .. Len(s) - 1 : RemoveAt(s, i)[j] = IF j <= i - 1 THEN a[j] ELSE b[j - (i - 1)]
  BY <1>1, <1>2, <1>3, ConcatProperties
<1>5. ASSUME NEW j \in 1 .. i - 1 PROVE RemoveAt(s, i)[j] = s[j]
  BY <1>1, <1>3, <1>4
<1>6. ASSUME NEW j \in i + 1 .. Len(s) PROVE RemoveAt(s, i)[j - 1] = s[j]
  <2>1. j - 1 \in 1 .. Len(s) - 1 /\ ~(j - 1 <= i - 1) /\ (j - 1) - (i - 1) = j - i
        /\ j - i \in 1 .. Len(s) - i /\ i + (j - i) = j
    BY <1>3
  <2> QED
    BY <1>2, <1>4, <2>1
<1> QED
  BY <1>5, <1>6

LEMMA ListsInsert ==
  ASSUME NEW S \in SUBSET Keys, IsFiniteSet(S), NEW f, NEW d, Lists(d, S, f),
         NEW y \in Keys, y \notin S, NEW v \in Value, NEW g, g[y] = v,
         \A x \in S : g[x] = f[x]
  PROVE  Lists(IF Rank(S, y) >= Len(d) THEN Append(d, v) ELSE InsertAt(d, Rank(S, y) + 1, v),
               S \union {y}, g)
<1> DEFINE r == Rank(S, y)
           n == Len(d)
           T == S \union {y}
           e == IF r >= n THEN Append(d, v) ELSE InsertAt(d, r + 1, v)
<1>1. d \in Seq(Value) /\ n = Cardinality(S) /\ n \in Nat /\ r \in 0 .. n
      /\ \A x \in S : d[Rank(S, x) + 1] = f[x] /\ Rank(S, x) \in 0 .. n - 1
  BY RankType DEF Lists
<1>2. Cardinality(T) = n + 1
  BY <1>1, FS_AddElement
<1>3. Rank(T, y) = r
  BY RankAdd, BeforeIsOrder
<1>4. ASSUME NEW x \in S
      PROVE  \/ Rank(S, x) < r /\ Rank(T, x) = Rank(S, x)
             \/ r <= Rank(S, x) /\ Rank(T, x) = Rank(S, x) + 1
  <2>1. CASE Before(x, y)
    BY <2>1, RankMonotonic, RankAdd, BeforeIsOrder
  <2>2. CASE Before(y, x)
    BY <2>2, RankMonotonic, RankAdd, BeforeIsOrder
  <2> QED
    BY <2>1, <2>2, BeforeIsOrder
<1>5. /\ e \in Seq(Value) /\ Len(e) = n + 1
      /\ \A j \in 1 .. r : e[j] = d[j]
      /\ e[r + 1] = v
      /\ \A j \in r + 1 .. n : e[j + 1] = d[j]
  <2>1. CASE r >= n
    <3>1. r = n /\ e = Append(d, v)
      BY <1>1, <2>1
    <3> QED
      BY <1>1, <3>1, AppendProperties
  <2>2. CASE ~(r >= n)
    <3>1. r + 1 \in 1 .. n /\ e = InsertAt(d, r + 1, v)
      BY <1>1, <2>2
    <3>2. \A j \in 1 .. (r + 1) - 1 : e[j] = d[j]
      BY <1>1, <3>1, InsertAtElements
    <3>3. e[r + 1] = v /\ \A j \in r + 1 .. n : e[j + 1] = d[j]
      BY <1>1, <3>1, InsertAtElements
    <3>4. e \in Seq(Value) /\ Len(e) = n + 1
      <4>1. InsertAt(d, r + 1, v) \in Seq(Value) /\ Len(InsertAt(d, r + 1, v)) = Len(d) + 1
        BY <1>1, <3>1, InsertAtType
      <4> QED
        BY <3>1, <4>1
    <3>5. (r + 1) - 1 = r
      BY <1>1
    <3> HIDE DEF r, n, e
    <3> QED
      BY <3>2, <3>3, <3>4, <3>5
  <2> QED
    BY <2>1, <2>2
<1> HIDE DEF e, T, n, r
<1>6. ASSUME NEW x \in T PROVE e[Rank(T, x) + 1] = g[x]
  <2>1. CASE x = y
    BY <1>3, <1>5, <2>1
  <2>2. CASE x \in S
    <3>1. d[Rank(S, x) + 1] = g[x] /\ Rank(S, x) \in 0 .. n - 1
      BY <1>1, <2>2
    <3>2. CASE Rank(S, x) < r /\ Rank(T, x) = Rank(S, x)
      <4>1. Rank(S, x) + 1 \in 1 .. r
        BY <1>1, <3>1, <3>2
      <4> QED
        BY <1>5, <3>1, <3>2, <4>1
    <3>3. CASE r <= Rank(S, x) /\ Rank(T, x) = Rank(S, x) + 1
      <4>1. Rank(S, x) + 1 \in r + 1 .. n
        BY <1>1, <3>1, <3>3
      <4> QED
        BY <1>5, <3>1, <3>3, <4>1
    <3> QED
      BY <1>4, <2>2, <3>2, <3>3
  <2> QED
    BY <2>1, <2>2 DEF T
<1> QED
  BY <1>2, <1>5, <1>6 DEF Lists, e, T, n, r

LEMMA ListsRemove ==
  ASSUME NEW S \in SUBSET Keys, IsFiniteSet(S), NEW f, NEW d, Lists(d, S, f),
         NEW y \in S, NEW g, \A x \in S \ {y} : g[x] = f[x]
  PROVE  Lists(RemoveAt(d, Rank(S, y) + 1), S \ {y}, g)
<1> DEFINE r == Rank(S, y)
           n == Len(d)
           T == S \ {y}
           e == RemoveAt(d, r + 1)
<1>1. d \in Seq(Value) /\ n = Cardinality(S) /\ n \in Nat /\ r \in 0 .. n - 1
      /\ \A x \in S : d[Rank(S, x) + 1] = f[x] /\ Rank(S, x) \in 0 .. n - 1
  BY RankType DEF Lists
<1>2. Cardinality(T) = n - 1
  BY <1>1, FS_RemoveElement
<1>3. ASSUME NEW x \in T
      PROVE  \/ Rank(S, x) < r /\ Rank(T, x) = Rank(S, x)
             \/ r < Rank(S, x) /\ Rank(T, x) = Rank(S, x) - 1
  <2>1. CASE Before(x, y)
    BY <2>1, RankMonotonic, RankRemove, BeforeIsOrder
  <2>2. CASE Before(y, x)
    BY <2>2, RankMonotonic, RankRemove, BeforeIsOrder
  <2> QED
    BY <2>1, <2>2, BeforeIsOrder
<1>4. r + 1 \in 1 .. n
  BY <1>1
<1>5. e \in Seq(Value) /\ Len(e) = n - 1
  BY <1>1, <1>4, RemoveAtType
<1>6. /\ \A j \in 1 .. (r + 1) - 1 : e[j] = d[j]
      /\ \A j \in (r + 1) + 1 .. n : e[j - 1] = d[j]
  BY <1>1, <1>4, RemoveAtElements
<1> HIDE DEF e, T, n, r
<1>7. ASSUME NEW x \in T PROVE e[Rank(T, x) + 1] = g[x]
  <2>1. d[Rank(S, x) + 1] = g[x] /\ Rank(S, x) \in 0 .. n - 1
    BY <1>1 DEF T
  <2>2. CASE Rank(S, x) < r /\ Rank(T, x) = Rank(S, x)
    <3>1. Rank(S, x) + 1 \in 1 .. (r + 1) - 1
      BY <1>1, <2>1, <2>2
    <3> QED
      BY <1>6, <2>1, <2>2, <3>1
  <2>3. CASE r < Rank(S, x) /\ Rank(T, x) = Rank(S, x) - 1
    <3>1. Rank(S, x) + 1 \in (r + 1) + 1 .. n /\ (Rank(S, x) + 1) - 1 = Rank(T, x) + 1
      BY <1>1, <2>1, <2>3
    <3> QED
      BY <1>6, <2>1, <2>3, <3>1
  <2> QED
    BY <1>3, <2>2, <2>3
<1> QED
  BY <1>2, <1>5, <1>7 DEF Lists, e, T, n, r

LEMMA ListsUpdate ==
  ASSUME NEW S \in SUBSET Keys, IsFiniteSet(S), NEW f, NEW d, Lists(d, S, f),
         NEW y \in S, NEW v \in Value, NEW g, g[y] = v, \A x \in S \ {y} : g[x] = f[x]
  PROVE  Lists([d EXCEPT ![Rank(S, y) + 1] = v], S, g)
<1> DEFINE r == Rank(S, y)
           n == Len(d)
           e == [d EXCEPT ![r + 1] = v]
<1>1. d \in Seq(Value) /\ n = Cardinality(S) /\ n \in Nat /\ r \in 0 .. n - 1
      /\ \A x \in S : d[Rank(S, x) + 1] = f[x] /\ Rank(S, x) \in 0 .. n - 1
  BY RankType DEF Lists
<1>2. r + 1 \in 1 .. n
  BY <1>1
<1>3. e \in Seq(Value) /\ Len(e) = n /\ \A j \in 1 .. n : e[j] = IF j = r + 1 THEN v ELSE d[j]
  BY <1>1, <1>2, ExceptSeq
<1> HIDE DEF e, n
<1>4. ASSUME NEW x \in S PROVE e[Rank(S, x) + 1] = g[x]
  <2>1. Rank(S, x) + 1 \in 1 .. n /\ (Rank(S, x) + 1 = r + 1 => Rank(S, x) = r)
    BY <1>1
  <2>2. Rank(S, x) = r => x = y
    BY RankInjective
  <2> QED
    BY <1>1, <1>3, <2>1, <2>2
<1> QED
  BY <1>1, <1>3, <1>4 DEF Lists, e, n

-----------------------------------------------------------------------------
(* What an item of the merge holds.                                        *)
LEMMA InsertedValue ==
  ASSUME NEW doc, NEW ops \in SUBSET OpDescriptor, Named(ops),
         NEW e \in OpDescriptor, e \in ops, e.typ = "insert"
  PROVE  ItemValue(doc, ops, NewKey(e)) = e.value
<1> DEFINE found == CHOOSE o \in Inserts(ops) : NewKey(o) = NewKey(e)
<1>1. e \in Inserts(ops)
  BY DEF Inserts
<1>2. found \in Inserts(ops) /\ NewKey(found) = NewKey(e)
  BY <1>1
<1>3. found \in ops /\ found \in OpDescriptor
  BY <1>2 DEF Inserts
<1>4. NewKey(e)[2] = 0
  BY DEF NewKey
<1>5. ItemValue(doc, ops, NewKey(e)) = found.value
  BY <1>4 DEF ItemValue
<1> HIDE DEF found
<1>6. found = e
  BY <1>2, <1>3, OpFields, KeysCompared DEF Named
<1> QED
  BY <1>5, <1>6

LEMMA KeptValue ==
  ASSUME NEW doc, NEW ops, NEW p \in Nat
  PROVE  ItemValue(doc, ops, OldKey(p)) =
           IF AtPos(ops, "update", p) = {} THEN doc[p + 1]
                                           ELSE Winner(AtPos(ops, "update", p)).value
BY DEF ItemValue, OldKey

(* One more update of an element changes its value if it wins.             *)
LEMMA UpdatedValue ==
  ASSUME NEW doc, NEW ops \in SUBSET OpDescriptor, NEW op \in OpDescriptor,
         Named(ops \union {op}), op.typ = "update", \A e \in ops : Earlier(e, op)
  PROVE  ItemValue(doc, ops \union {op}, OldKey(op.pos)) =
           IF \A u \in AtPos(ops, "update", op.pos) : op.cid <= u.cid
           THEN op.value ELSE ItemValue(doc, ops, OldKey(op.pos))
<1> DEFINE us == AtPos(ops, "update", op.pos)
           vs == AtPos(ops \union {op}, "update", op.pos)
<1>1. vs = us \union {op}
  BY DEF AtPos
<1>2. /\ us \in SUBSET OpDescriptor /\ vs \in SUBSET OpDescriptor
      /\ Named(us) /\ Named(vs)
      /\ \A u \in us : Earlier(u, op) /\ u.pos = op.pos
  BY DEF AtPos, Named
<1>3. \A u \in vs : u.cid \in Nat /\ u.rev \in Nat
  BY <1>2, OpFields
<1>4. op.pos \in Nat /\ op \in vs
  BY <1>1, OpFields
<1>5. ItemValue(doc, ops \union {op}, OldKey(op.pos)) = Winner(vs).value
  BY <1>4, KeptValue
<1>6. us # {} => ItemValue(doc, ops, OldKey(op.pos)) = Winner(us).value
  BY <1>4, KeptValue
<1> HIDE DEF us, vs
<1>7. ASSUME \A u \in us : op.cid <= u.cid PROVE Winner(vs) = op
  <2>1. \A u \in us : op.cid < u.cid \/ (op.cid = u.cid /\ op.rev >= u.rev)
    BY <1>1, <1>2, <1>3, <1>4, <1>7 DEF Earlier
  <2>2. Wins(op, vs)
    BY <1>1, <1>3, <1>4, <2>1 DEF Wins
  <2> QED
    BY <1>2, <2>2, WinnerUnique
<1>8. ASSUME NEW u \in us, ~ (op.cid <= u.cid) PROVE Winner(vs) = Winner(us)
  <2>1. PICK w \in us : Wins(w, us)
    BY <1>2, WinnerExists
  <2>2. w.cid < op.cid
    BY <1>1, <1>3, <1>4, <1>8, <2>1 DEF Wins
  <2>3. Wins(w, vs)
    BY <1>1, <2>1, <2>2 DEF Wins
  <2> QED
    BY <1>2, <2>1, <2>3, WinnerUnique
<1>9. ASSUME NEW u \in us, ~ (op.cid <= u.cid)
      PROVE  ItemValue(doc, ops \union {op}, OldKey(op.pos)) = ItemValue(doc, ops, OldKey(op.pos))
  BY <1>5, <1>6, <1>8, <1>9
<1> QED
  BY <1>5, <1>7, <1>9 DEF us

LEMMA OtherValues ==
  ASSUME NEW doc \in Seq(Value), NEW ops \in SUBSET OpDescriptor, NEW op \in OpDescriptor,
         Named(ops \union {op}), NEW x \in Items(doc, ops),
         op.typ = "update" => x # OldKey(op.pos)
  PROVE  ItemValue(doc, ops \union {op}, x) = ItemValue(doc, ops, x)
<1>1. CASE \E e \in Inserts(ops) : x = NewKey(e)
  <2>1. PICK e \in Inserts(ops) : x = NewKey(e)
    BY <1>1
  <2>2. e \in ops /\ e \in OpDescriptor /\ e.typ = "insert"
    BY <2>1 DEF Inserts
  <2>3. Named(ops)
    BY DEF Named
  <2>4. ItemValue(doc, ops, x) = e.value
    BY <2>1, <2>2, <2>3, InsertedValue
  <2>5. ops \union {op} \in SUBSET OpDescriptor /\ e \in ops \union {op}
    BY <2>2
  <2>6. ItemValue(doc, ops \union {op}, x) = e.value
    BY <2>1, <2>2, <2>5, InsertedValue
  <2> QED
    BY <2>4, <2>6
<1>2. CASE \E p \in 0 .. Len(doc) - 1 : x = OldKey(p)
  <2>1. PICK p \in 0 .. Len(doc) - 1 : x = OldKey(p)
    BY <1>2
  <2>2. p \in Nat
    OBVIOUS
  <2>3. AtPos(ops \union {op}, "update", p) = AtPos(ops, "update", p)
    BY <2>1 DEF AtPos
  <2> QED
    BY <2>1, <2>2, <2>3, KeptValue
<1> QED
  BY <1>1, <1>2 DEF Items

-----------------------------------------------------------------------------
(* A merge lists the items of its operations, and nothing else does.       *)
ItemValues(doc, ops) == [x \in Items(doc, ops) |-> ItemValue(doc, ops, x)]

LEMMA MergeLists ==
  ASSUME NEW doc, NEW ops, Items(doc, ops) \in SUBSET Keys, IsFiniteSet(Items(doc, ops)),
         NEW d \in Seq(Value)
  PROVE  d = Merge(doc, ops) <=> Lists(d, Items(doc, ops), ItemValues(doc, ops))
<1> DEFINE S == Items(doc, ops)
           n == Cardinality(S)
           at(i) == CHOOSE x \in S : Rank(S, x) = i - 1
<1>1. n \in Nat /\ Len(d) \in Nat /\ DOMAIN d = 1 .. Len(d)
  BY FS_CardinalityType
<1>2. Merge(doc, ops) = [i \in 1 .. n |-> ItemValue(doc, ops, at(i))]
  BY DEF Merge
<1>3. ASSUME NEW x \in S
      PROVE  Rank(S, x) + 1 \in 1 .. n /\ at(Rank(S, x) + 1) = x
  <2>1. Rank(S, x) \in 0 .. n - 1
    BY <1>1, RankType
  <2>2. (Rank(S, x) + 1) - 1 = Rank(S, x)
    BY <2>1
  <2>3. \A y \in S : Rank(S, y) = Rank(S, x) => y = x
    BY RankInjective
  <2>4. at(Rank(S, x) + 1) = x
    BY <2>2, <2>3
  <2> QED
    BY <1>1, <2>1, <2>4
<1>4. ASSUME NEW i \in 1 .. n PROVE at(i) \in S /\ Rank(S, at(i)) + 1 = i
  <2>1. i - 1 \in 0 .. n - 1
    BY <1>1
  <2>2. \E x \in S : Rank(S, x) = i - 1
    BY <2>1, RankSurjective
  <2>3. at(i) \in S /\ Rank(S, at(i)) = i - 1
    BY <2>2
  <2> QED
    BY <2>3
<1> DEFINE f == ItemValues(doc, ops)
<1>5. \A x \in S : f[x] = ItemValue(doc, ops, x)
  BY DEF ItemValues
<1> HIDE DEF at, n, S, f
<1>6. ASSUME d = Merge(doc, ops) PROVE Lists(d, S, f)
  <2>1. DOMAIN d = 1 .. n
    BY <1>2, <1>6
  <2>2. Len(d) = n
    <3> DEFINE m == Len(d)
    <3>1. m \in Nat /\ n \in Nat /\ 1 .. m = 1 .. n
      BY <1>1, <2>1
    <3> HIDE DEF m
    <3>2. (m > 0 => m \in 1 .. n) /\ (n > 0 => n \in 1 .. m)
      BY <3>1
    <3>3. (m > 0 => m <= n) /\ (n > 0 => n <= m)
      BY <3>1, <3>2
    <3>4. m = n
      BY <3>1, <3>3
    <3> QED
      BY <3>4 DEF m
  <2>3. \A x \in S : d[Rank(S, x) + 1] = f[x]
    BY <1>2, <1>3, <1>5, <1>6
  <2> QED
    BY <2>2, <2>3 DEF Lists, n
<1>7. ASSUME Lists(d, S, f) PROVE d = Merge(doc, ops)
  <2>1. Len(d) = n /\ \A x \in S : d[Rank(S, x) + 1] = f[x]
    BY <1>7 DEF Lists, n
  <2>2. \A i \in 1 .. n : d[i] = ItemValue(doc, ops, at(i))
    BY <1>4, <1>5, <2>1
  <2>3. d = [i \in 1 .. Len(d) |-> d[i]]
    OBVIOUS
  <2> QED
    BY <1>2, <2>1, <2>2, <2>3
<1> QED
  BY <1>6, <1>7 DEF S, f

(* Nothing received, nothing changed.                                      *)
LEMMA MergeOfNone ==
  ASSUME NEW doc \in Seq(Value)
  PROVE  Merge(doc, {}) = doc /\ StandsFor(doc, {}, <<>>)
<1> DEFINE S == Items(doc, {})
<1>1. /\ S = {OldKey(p) : p \in 0 .. Len(doc) - 1}
      /\ S \in SUBSET Keys /\ IsFiniteSet(S) /\ Cardinality(S) = Len(doc)
  BY ItemsOfNone
<1>2. ASSUME NEW p \in 0 .. Len(doc) - 1
      PROVE  Rank(S, OldKey(p)) = p /\ ItemValue(doc, {}, OldKey(p)) = doc[p + 1]
  <2>1. p \in Nat /\ Len(doc) \in Nat
    OBVIOUS
  <2>2. ItemValue(doc, {}, OldKey(p)) = doc[p + 1]
    <3>1. AtPos({}, "update", p) = {}
      BY DEF AtPos
    <3> QED
      BY <2>1, <3>1, KeptValue
  <2>3. {y \in S : Before(y, OldKey(p))} = {OldKey(q) : q \in 0 .. p - 1}
    <3>1. ASSUME NEW q \in Nat PROVE Before(OldKey(q), OldKey(p)) <=> q < p
      <4>1. OldKey(q) \in Keys /\ OldKey(p) \in Keys
        BY <2>1, KeyType
      <4>2. /\ OldKey(p)[1] = p /\ OldKey(p)[2] = 1 /\ OldKey(p)[3] = 0 /\ OldKey(p)[4] = 0
            /\ OldKey(q)[1] = q /\ OldKey(q)[2] = 1 /\ OldKey(q)[3] = 0 /\ OldKey(q)[4] = 0
        BY DEF OldKey
      <4> QED
        BY <2>1, <4>1, <4>2, BeforeLexicographic
    <3>2. \A q \in Nat : q \in 0 .. Len(doc) - 1 /\ Before(OldKey(q), OldKey(p)) <=> q \in 0 .. p - 1
      BY <2>1, <3>1
    <3> QED
      BY <1>1, <2>1, <3>2
  <2>4. Rank(S, OldKey(p)) = p
    BY <2>1, <2>3, OldKeysCounted DEF Rank
  <2> QED
    BY <2>2, <2>4
<1>3. Lists(doc, S, ItemValues(doc, {}))
  BY <1>1, <1>2 DEF Lists, ItemValues
<1>4. StandsFor(doc, {}, <<>>)
  <2>1. <<>> \in Seq(OpDescriptor) /\ Len(<<>>) = 0 /\ 1 .. 0 = {}
    OBVIOUS
  <2>2. PackOps(<<>>, 0) = {}
    BY <2>1 DEF PackOps
  <2>3. NoRepeat(doc, <<>>)
    BY <2>1 DEF NoRepeat
  <2> QED
    BY <2>1, <2>2, <2>3 DEF StandsFor
<1> QED
  BY <1>1, <1>3, <1>4, MergeLists

-----------------------------------------------------------------------------
(* State::apply(pack, op) on a merge gives the merge with op, and does not *)
(* need the fallbacks of State::apply(op).                                 *)
LEMMA MergeMore ==
  ASSUME NEW doc \in Seq(Value), NEW ops \in SUBSET OpDescriptor,
         NEW pack, StandsFor(doc, ops, pack), Len(doc) + Len(pack) < UMod,
         NEW op, MadeOn(doc, op, ops), Named(ops \union {op}),
         NEW d \in Seq(Value), d = Merge(doc, ops)
  PROVE  /\ InBounds(d, TransformAll(op, pack))
         /\ Apply(d, TransformAll(op, pack)) = Merge(doc, ops \union {op})
<1> DEFINE new == TransformAll(op, pack)
           more == ops \union {op}
           S == Items(doc, ops)
           T == Items(doc, more)
           f == ItemValues(doc, ops)
           g == ItemValues(doc, more)
           here == OldKey(op.pos) \in S
           r == Rank(S, Key(op))
<1>1. /\ op \in OpDescriptor /\ pack \in Seq(OpDescriptor)
      /\ op.typ \in {"insert", "remove", "update"} /\ op.pos \in Nat /\ op.value \in Value
      /\ Key(op) \in Keys
  BY OpFields DEF MadeOn, StandsFor
<1>2. S \in SUBSET Keys /\ IsFiniteSet(S)
  BY PackItems, LenProperties DEF StandsFor
<1>3. new.posser = r
  <2>1. \A i \in 1 .. Len(pack) : Earlier(pack[i], op)
    BY DEF StandsFor, MadeOn, Earlier, SameButMoved
  <2> QED
    BY <1>1, <2>1, TransformAllRank DEF StandsFor, MadeOn
<1>4. /\ new \in OpDescriptor /\ new.value = op.value
      /\ new.typ \in {op.typ, "nothing"}
      /\ op.typ = "insert" => new.typ = "insert"
      /\ op.typ = "remove" => (new.typ = "remove" <=> here)
      /\ op.typ = "update" =>
           (new.typ = "update" <=>
              here /\ \A u \in AtPos(ops, "update", op.pos) : op.cid <= u.cid)
  <2>1. /\ new \in OpDescriptor /\ SameButMoved(new, op)
        /\ new.typ \in {op.typ, "nothing"}
        /\ op.typ = "insert" => new.typ = "insert"
        /\ op.typ = "remove" => (new.typ = "remove" <=> here)
        /\ op.typ = "update" =>
             (new.typ = "update" <=>
                here /\ \A u \in AtPos(ops, "update", op.pos) : op.cid <= u.cid)
    BY Remains
  <2> HIDE DEF new, here
  <2> QED
    BY <2>1 DEF SameButMoved
<1>5. /\ op.typ = "update" => T = S
      /\ op.typ = "remove" => T = S \ {OldKey(op.pos)}
      /\ op.typ = "insert" => T = S \union {NewKey(op)}
  <2>1. op \in OpDescriptor /\ doc \in Seq(Value) /\ ops \in SUBSET OpDescriptor
    BY <1>1
  <2>2. /\ op.typ \in {"nothing", "update"} => T = S
        /\ op.typ = "remove" => T = S \ {OldKey(op.pos)}
        /\ op.typ = "insert" => T = S \union {NewKey(op)}
    BY <2>1, ItemsAdd
  <2> QED
    BY <2>2
<1>6. T \in SUBSET Keys /\ IsFiniteSet(T)
  <2>1. NewKey(op) \in Keys
    BY <1>1, OpFields
  <2>2. IsFiniteSet(S \union {NewKey(op)})
    BY <1>2, FS_AddElement
  <2>3. IsFiniteSet(S \ {OldKey(op.pos)})
    BY <1>2, FS_RemoveElement
  <2> QED
    BY <1>1, <1>2, <1>5, <2>1, <2>2, <2>3
<1>7. Lists(d, S, f)
  BY <1>2, MergeLists
<1>8. /\ \A x \in S : f[x] = ItemValue(doc, ops, x)
      /\ \A x \in T : g[x] = ItemValue(doc, more, x)
      /\ \A x \in S \intersect T : (op.typ = "update" => x # OldKey(op.pos)) => g[x] = f[x]
  <2>1. /\ \A x \in S : f[x] = ItemValue(doc, ops, x)
        /\ \A x \in T : g[x] = ItemValue(doc, more, x)
    BY DEF ItemValues
  <2>2. \A x \in S : (op.typ = "update" => x # OldKey(op.pos)) =>
                     ItemValue(doc, more, x) = ItemValue(doc, ops, x)
    BY <1>1, OtherValues
  <2> HIDE DEF S, T, f, g, more
  <2> QED
    BY <2>1, <2>2
<1>9. /\ op.typ = "insert" => Key(op) = NewKey(op)
      /\ op.typ # "insert" => Key(op) = OldKey(op.pos)
  BY DEF Key
<1>10. Len(d) = Cardinality(S) /\ r \in 0 .. Len(d) /\ Len(d) \in Nat
       /\ (Key(op) \in S => r < Len(d))
  BY <1>1, <1>2, <1>7, RankType DEF Lists
<1>11. more \in SUBSET OpDescriptor /\ op \in more
  BY <1>1
<1>12. \A e \in ops : Earlier(e, op)
  BY DEF MadeOn
<1>13. ASSUME op.typ = "insert"
       PROVE  InBounds(d, new) /\ Lists(Apply(d, new), T, g)
  <2>1. Key(op) \notin S /\ Key(op) \in T
    <3>1. ASSUME NEW e \in Inserts(ops) PROVE NewKey(e) # NewKey(op)
      <4>1. e \in OpDescriptor /\ Earlier(e, op)
        BY <1>12 DEF Inserts
      <4>2. e.rev \in Nat /\ ~ (e.rev < e.rev)
        BY <4>1, OpFields
      <4>3. NewKey(e) = NewKey(op) => e.pos = op.pos /\ e.cid = op.cid /\ e.rev = op.rev
        BY <1>1, <4>1, OpFields, KeysCompared
      <4> QED
        BY <4>1, <4>2, <4>3 DEF Earlier
    <3>2. NewKey(op) \notin S
      BY <1>1, <3>1, ItemsMembers
    <3> QED
      BY <1>5, <1>9, <1>13, <3>2
  <2>2. g[Key(op)] = op.value
    BY <1>1, <1>8, <1>9, <1>11, <1>13, <2>1, InsertedValue
  <2>3. \A x \in S : g[x] = f[x]
    BY <1>5, <1>8, <1>13
  <2>4. T = S \union {Key(op)}
    BY <1>5, <1>9, <1>13
  <2>5. Apply(d, new) = IF r >= Len(d) THEN Append(d, op.value) ELSE InsertAt(d, r + 1, op.value)
    BY <1>3, <1>4, <1>10, <1>13 DEF Apply, Bound
  <2>6. InBounds(d, new)
    <3>1. new.typ = "insert" /\ new.posser <= Len(d)
      BY <1>3, <1>4, <1>10, <1>13
    <3> QED
      BY <3>1 DEF InBounds
  <2> HIDE DEF S, T, f, g, new
  <2>7. Lists(IF r >= Len(d) THEN Append(d, op.value) ELSE InsertAt(d, r + 1, op.value),
              S \union {Key(op)}, g)
    BY <1>1, <1>2, <1>7, <2>1, <2>2, <2>3, ListsInsert
  <2> QED
    BY <2>4, <2>5, <2>6, <2>7
<1>14. ASSUME op.typ # "insert", new.typ = "nothing"
       PROVE  InBounds(d, new) /\ Lists(Apply(d, new), T, g)
  <2>1. InBounds(d, new) /\ Apply(d, new) = d
    BY <1>14 DEF InBounds, Apply
  <2>2. T = S
    BY <1>1, <1>4, <1>5, <1>14
  <2>3. ASSUME op.typ = "update", here PROVE g[OldKey(op.pos)] = f[OldKey(op.pos)]
    <3>1. ~ \A u \in AtPos(ops, "update", op.pos) : op.cid <= u.cid
      BY <1>4, <1>14, <2>3
    <3>2. ItemValue(doc, more, OldKey(op.pos)) = ItemValue(doc, ops, OldKey(op.pos))
      BY <1>1, <1>12, <2>3, <3>1, UpdatedValue
    <3> QED
      BY <1>8, <2>2, <2>3, <3>2
  <2>4. \A x \in S : g[x] = f[x]
    BY <1>8, <2>2, <2>3
  <2> HIDE DEF S, T, f, g, new
  <2> QED
    BY <1>7, <2>1, <2>2, <2>4 DEF Lists
<1>15. ASSUME op.typ = "remove", new.typ = "remove"
       PROVE  InBounds(d, new) /\ Lists(Apply(d, new), T, g)
  <2>1. Key(op) \in S /\ T = S \ {Key(op)}
    BY <1>4, <1>5, <1>9, <1>15
  <2>2. \A x \in S \ {Key(op)} : g[x] = f[x]
    BY <1>8, <1>15, <2>1
  <2>3. r < Len(d) /\ d # <<>>
    BY <1>10, <2>1
  <2>4. InBounds(d, new)
    BY <1>3, <1>15, <2>3 DEF InBounds
  <2>5. Apply(d, new) = RemoveAt(d, r + 1)
    BY <1>3, <1>10, <1>15, <2>3 DEF Apply, Bound
  <2> HIDE DEF S, T, f, g, new
  <2>6. Lists(RemoveAt(d, r + 1), S \ {Key(op)}, g)
    BY <1>2, <1>7, <2>1, <2>2, ListsRemove
  <2> QED
    BY <2>1, <2>4, <2>5, <2>6
<1>16. ASSUME op.typ = "update", new.typ = "update"
       PROVE  InBounds(d, new) /\ Lists(Apply(d, new), T, g)
  <2>1. /\ Key(op) \in S /\ T = S /\ Key(op) = OldKey(op.pos)
        /\ \A u \in AtPos(ops, "update", op.pos) : op.cid <= u.cid
    BY <1>4, <1>5, <1>9, <1>16
  <2>2. \A x \in S \ {Key(op)} : g[x] = f[x]
    BY <1>8, <1>16, <2>1
  <2>3. r < Len(d) /\ d # <<>>
    BY <1>10, <2>1
  <2>4. InBounds(d, new)
    BY <1>3, <1>16, <2>3 DEF InBounds
  <2>5. Apply(d, new) = [d EXCEPT ![r + 1] = op.value]
    <3>1. Bound(d, new) = r + 1
      BY <1>3, <1>10, <2>3 DEF Bound
    <3>2. Apply(d, new) = [d EXCEPT ![Bound(d, new)] = new.value]
      BY <1>16, <2>3 DEF Apply
    <3> QED
      BY <1>4, <3>1, <3>2
  <2>6. g[Key(op)] = op.value
    BY <1>1, <1>8, <1>12, <1>16, <2>1, UpdatedValue
  <2> HIDE DEF S, T, f, g, new
  <2>7. Lists([d EXCEPT ![r + 1] = op.value], S, g)
    BY <1>1, <1>2, <1>7, <2>1, <2>2, <2>6, ListsUpdate
  <2> QED
    BY <2>1, <2>4, <2>5, <2>7
<1>17. InBounds(d, new) /\ Lists(Apply(d, new), T, g)
  BY <1>1, <1>4, <1>13, <1>14, <1>15, <1>16
<1>18. Apply(d, new) \in Seq(Value)
  BY <1>17 DEF Lists
<1>19. Apply(d, new) = Merge(doc, more)
  <2> HIDE DEF new, more
  <2> QED
    BY <1>6, <1>17, <1>18, MergeLists
<1> QED
  BY <1>17, <1>19

-----------------------------------------------------------------------------
(* A replica that started from doc and received ops.                       *)
Replicates(doc, ops, replica) ==
  /\ replica \in Replica
  /\ replica.doc = Merge(doc, ops)
  /\ StandsFor(doc, ops, replica.pack)
  /\ IsFiniteSet(ops)
  /\ Len(replica.pack) = Cardinality(ops)

LEMMA FreshReplica ==
  ASSUME NEW doc \in Seq(Value)
  PROVE  Replicates(doc, {}, [doc |-> doc, pack |-> <<>>])
<1>1. [doc |-> doc, pack |-> <<>>] \in Replica /\ Len(<<>>) = 0
  BY DEF Replica
<1>2. IsFiniteSet({}) /\ Cardinality({}) = 0
  BY FS_EmptySet
<1> QED
  BY <1>1, <1>2, MergeOfNone DEF Replicates

(* Every operation adds an element at most.                                *)
LEMMA ReplicaLength ==
  ASSUME NEW doc \in Seq(Value), NEW ops, NEW replica, Replicates(doc, ops, replica)
  PROVE  Len(replica.doc) \in Nat /\ Len(replica.doc) <= Len(doc) + Cardinality(ops)
<1> DEFINE pack == replica.pack
           S == Items(doc, ops)
<1>1. pack \in Seq(OpDescriptor) /\ Len(pack) = Cardinality(ops) /\ replica.doc \in Seq(Value)
  BY DEF Replicates, Replica
<1>2. Len(pack) \in 0 .. Len(pack) /\ Len(pack) \in Nat /\ Len(doc) \in Nat
  BY <1>1
<1>3. NoRepeat(doc, pack) /\ S = Items(doc, PackOps(pack, Len(pack)))
  BY DEF Replicates, StandsFor
<1> HIDE DEF pack, S
<1>4. S \in SUBSET Keys /\ IsFiniteSet(S) /\ Cardinality(S) <= Len(doc) + Len(pack)
  BY <1>1, <1>2, <1>3, PackItems
<1>5. Lists(replica.doc, S, ItemValues(doc, ops))
  BY <1>1, <1>4, MergeLists DEF Replicates, S
<1> QED
  BY <1>1, <1>4, <1>5 DEF Lists

LEMMA IntegrateMore ==
  ASSUME NEW doc \in Seq(Value), NEW ops \in SUBSET OpDescriptor,
         NEW replica, Replicates(doc, ops, replica),
         Len(doc) + Cardinality(ops) < UMod,
         NEW op, MadeOn(doc, op, ops), Named(ops \union {op})
  PROVE  /\ op \notin ops
         /\ InBounds(replica.doc, TransformAll(op, replica.pack))
         /\ Replicates(doc, ops \union {op}, Integrate(replica, op))
<1>1. replica.doc \in Seq(Value) /\ replica.pack \in Seq(OpDescriptor) /\ op \in OpDescriptor
  BY DEF Replicates, Replica, MadeOn
<1> DEFINE new == TransformAll(op, replica.pack)
<1>2. new \in OpDescriptor
  BY <1>1, TransformAllType
<1>3. Apply(replica.doc, new) = Merge(doc, ops \union {op}) /\ InBounds(replica.doc, new)
  <2> DEFINE d == replica.doc
             pack == replica.pack
  <2>1. /\ d = Merge(doc, ops) /\ StandsFor(doc, ops, pack) /\ d \in Seq(Value)
        /\ Len(doc) + Len(pack) < UMod
    BY <1>1 DEF Replicates
  <2> HIDE DEF d, pack
  <2>2. /\ Apply(d, TransformAll(op, pack)) = Merge(doc, ops \union {op})
        /\ InBounds(d, TransformAll(op, pack))
    BY <2>1, MergeMore
  <2> QED
    BY <2>2 DEF d, pack
<1>4. StandsFor(doc, ops \union {op}, Append(replica.pack, new))
  BY StandsForMore DEF Replicates
<1>5. Integrate(replica, op) \in Replica
  BY <1>1, IntegrateType DEF Replicates
<1>6. /\ Integrate(replica, op).doc = Apply(replica.doc, new)
      /\ Integrate(replica, op).pack = Append(replica.pack, new)
  BY DEF Integrate
<1>7. Len(Append(replica.pack, new)) = Len(replica.pack) + 1
  BY <1>1, <1>2, AppendProperties
<1>8. op \notin ops
  <2>1. op.rev \in Nat
    BY <1>1, OpFields
  <2> QED
    BY <2>1 DEF MadeOn, Earlier
<1>9. IsFiniteSet(ops \union {op}) /\ Cardinality(ops \union {op}) = Cardinality(ops) + 1
  BY <1>8, FS_AddElement DEF Replicates
<1> HIDE DEF new
<1>10. Len(replica.pack) = Cardinality(ops)
  BY DEF Replicates
<1> QED
  BY <1>3, <1>4, <1>5, <1>6, <1>7, <1>8, <1>9, <1>10 DEF Replicates, new

(* The first k operations of src, without those of the clients in own.     *)
Others(src, k, own) == {src[i] : i \in {j \in 1 .. k : src[j].cid \notin own}}

(* Those are the next operations of their authors, all made on doc.        *)
MadeInTurn(doc, ops, src, own) ==
  /\ Named(ops \union Others(src, Len(src), own))
  /\ \A i \in 1 .. Len(src) :
       src[i].cid \notin own => MadeOn(doc, src[i], ops \union Others(src, i - 1, own))

(* State::apply(pack) and State::applyFromOthers.                          *)
LEMMA IntegrateAllMore ==
  ASSUME NEW doc \in Seq(Value), NEW ops \in SUBSET OpDescriptor,
         NEW replica, Replicates(doc, ops, replica),
         NEW src \in Seq(OpDescriptor), NEW own, MadeInTurn(doc, ops, src, own),
         NEW all, all = ops \union Others(src, Len(src), own),
         IsFiniteSet(all), Len(doc) + Cardinality(all) < UMod
  PROVE  Replicates(doc, all, IntegrateAll(replica, src, own))
<1> DEFINE n == Len(src)
           sofar(k) == ops \union Others(src, k, own)
<1>1. n \in Nat /\ replica \in Replica /\ Len(doc) \in Nat /\ UMod \in Nat
  BY UModAssumption DEF Replicates
<1>2. PICK t : Integration(t, replica, src, own)
  BY <1>1, IntegrateAllSteps
<1>3. /\ t \in [0 .. n -> Replica]
      /\ t[0] = replica
      /\ \A i \in 1 .. n : t[i] = IntegrateOther(t[i - 1], src[i], own)
      /\ IntegrateAll(replica, src, own) = t[n]
  BY <1>2 DEF Integration
<1> DEFINE K == {k \in 0 .. n : Replicates(doc, sofar(k), t[k])}
<1>4. 0 \in K
  <2>1. sofar(0) = ops
    BY DEF Others
  <2> HIDE DEF sofar
  <2> QED
    BY <1>1, <1>3, <2>1
<1>5. ASSUME NEW k \in 0 .. n - 1, k \in K PROVE k + 1 \in K
  <2> DEFINE op == src[k + 1]
  <2>1. k \in 0 .. n /\ k + 1 \in 1 .. n /\ k + 1 \in 0 .. n /\ (k + 1) - 1 = k
        /\ 1 .. k + 1 = (1 .. k) \union {k + 1}
        /\ \A i \in 1 .. n : src[i] \in OpDescriptor
    BY <1>1
  <2>2. /\ Replicates(doc, sofar(k), t[k])
        /\ t[k + 1] = IntegrateOther(t[k], op, own)
    BY <1>3, <1>5, <2>1
  <2>3. CASE op.cid \in own
    <3>1. sofar(k + 1) = sofar(k)
      BY <2>1, <2>3 DEF Others
    <3>2. t[k + 1] = t[k]
      BY <2>2, <2>3 DEF IntegrateOther
    <3> HIDE DEF sofar
    <3> QED
      BY <2>1, <2>2, <3>1, <3>2
  <2>4. CASE op.cid \notin own
    <3>1. sofar(k + 1) = sofar(k) \union {op}
      BY <2>1, <2>4 DEF Others
    <3>2. t[k + 1] = Integrate(t[k], op)
      BY <2>2, <2>4 DEF IntegrateOther
    <3>3. sofar(k) \in SUBSET OpDescriptor /\ sofar(k + 1) \subseteq all /\ sofar(k) \subseteq all
      BY <2>1 DEF Others
    <3>4. Named(sofar(k) \union {op})
      BY <3>1, <3>3 DEF MadeInTurn, Named
    <3>5. MadeOn(doc, op, sofar(k))
      BY <2>1, <2>4 DEF MadeInTurn
    <3> HIDE DEF sofar, op
    <3>6. Len(doc) + Cardinality(sofar(k)) < UMod
      <4>1. IsFiniteSet(sofar(k)) /\ Cardinality(sofar(k)) <= Cardinality(all)
        BY <3>3, FS_Subset
      <4>2. Cardinality(sofar(k)) \in Nat /\ Cardinality(all) \in Nat
        BY <4>1, FS_CardinalityType
      <4> QED
        BY <1>1, <4>1, <4>2
    <3>7. Replicates(doc, sofar(k) \union {op}, Integrate(t[k], op))
      BY <2>2, <3>3, <3>4, <3>5, <3>6, IntegrateMore
    <3> QED
      BY <2>1, <3>1, <3>2, <3>7
  <2> QED
    BY <2>3, <2>4
<1>6. n \in K
  <2> HIDE DEF K, n
  <2>1. 0 .. n \subseteq K
    BY <1>1, <1>4, <1>5, UpTo
  <2> QED
    BY <1>1, <2>1
<1> QED
  BY <1>3, <1>6
=============================================================================
