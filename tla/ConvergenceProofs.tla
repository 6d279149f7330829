------------------------- MODULE ConvergenceProofs -------------------------
(***************************************************************************)
(* Convergence for every value of its constants: any number of clients,    *)
(* of operations and of elements, any order of arrival that Convergence    *)
(* allows.  The induction is over what the replica has received; that one  *)
(* more operation leaves it a merge is MergeMore of MergeProofs.           *)
(***************************************************************************)
EXTENDS Convergence, MergeProofs

replica == [doc |-> doc, pack |-> pack]

(* The document alone is not inductive: what the next operation becomes    *)
(* depends on the pack, which must stand for what was received, and be as  *)
(* short (Replicates).  What was received must have been made on InitDoc,  *)
(* and be so little that no position wraps around.                         *)
IInv ==
  /\ TypeOK
  /\ Replicates(InitDoc, received, replica)
  /\ WellFormed(InitDoc, received)
  /\ Len(InitDoc) + Cardinality(received) < UMod

(* The operations clients make are operations.                             *)
LEMMA OpsType ==
  ASSUME NEW c \in Clients, NEW op \in Ops(c)
  PROVE  /\ op \in OpDescriptor /\ op.cid = c
         /\ op.typ # "nothing" /\ op.posser = op.pos
<1>1. PICK t \in OpType \ {"nothing"}, p \in 0 .. Len(InitDoc), r \in 0 .. MaxOps - 1 :
        op = MakeOp(t, p, NewValue(c, r), c, r)
  BY DEF Ops
<1>2. Len(InitDoc) < UMod /\ Len(InitDoc) \in Nat
  <2>1. Cardinality(Clients) \in Nat /\ Cardinality(Clients) >= 1
    <3>1. IsFiniteSet(Clients) /\ Clients # {}
      BY ConvergenceAssumption
    <3>2. Cardinality(Clients) \in Nat /\ Cardinality(Clients) # 0
      BY <3>1, FS_CardinalityType, FS_EmptySet
    <3> QED
      BY <3>2
  <2>2. MaxReceived(1) \in Nat /\ Len(InitDoc) + MaxReceived(1) < UMod
    BY <2>1, ConvergenceAssumption
  <2> QED
    BY <2>2, ConvergenceAssumption, UModAssumption
<1>3. p \in Unsigned
  BY <1>2, UModAssumption DEF Unsigned
<1>4. r \in Unsigned /\ r \in 0 .. MaxOps
  BY ConvergenceAssumption, UModAssumption DEF Unsigned
<1>5. NewValue(c, r) \in Value /\ c \in Unsigned
  BY <1>4, ConvergenceAssumption
<1> QED
  BY <1>1, <1>3, <1>4, <1>5 DEF MakeOp, OpDescriptor

LEMMA ReceivedType ==
  ASSUME TypeOK
  PROVE  /\ received \in SUBSET OpDescriptor
         /\ \A e \in received : e.cid \in Clients
BY OpsType DEF TypeOK

LEMMA InitEstablishesIInv ==
  ASSUME Init
  PROVE  IInv
<1>1. received = {} /\ doc = InitDoc /\ pack = <<>> /\ InitDoc \in Seq(Value)
  BY ConvergenceAssumption DEF Init
<1>2. TypeOK
  BY <1>1 DEF TypeOK
<1>3. Replicates(InitDoc, received, replica)
  BY <1>1, FreshReplica DEF replica
<1>4. WellFormed(InitDoc, received)
  BY <1>1 DEF WellFormed
<1>5. Len(InitDoc) + Cardinality(received) < UMod
  <2>1. Cardinality(received) = 0
    BY <1>1, FS_EmptySet
  <2> QED
    BY <1>1, <2>1, ConvergenceAssumption
<1> QED
  BY <1>2, <1>3, <1>4, <1>5 DEF IInv

(* What the guards of Receive say of the operation, to a replica that has  *)
(* merged what it received.                                                *)
LEMMA Received ==
  ASSUME IInv, NEW c \in Clients, NEW op \in Ops(c), Receive(op)
  PROVE  /\ MadeOn(InitDoc, op, received)
         /\ Named(received \union {op})
         /\ Len(InitDoc) + Cardinality(received) + 1 < UMod
<1>1. op \in OpDescriptor /\ op.cid = c /\ op.typ # "nothing" /\ op.posser = op.pos
  BY OpsType
<1>2. InitDoc \in Seq(Value) /\ Len(InitDoc) \in Nat /\ op.pos \in Nat
  BY <1>1, ConvergenceAssumption, OpFields
<1>3. MadeOn(InitDoc, op, received)
  <2>1. op.pos <= Len(InitDoc) /\ (op.typ # "insert" => op.pos < Len(InitDoc))
    <3>1. op.pos \in 0 .. (IF op.typ = "insert" THEN Len(InitDoc) ELSE Len(InitDoc) - 1)
      BY DEF Receive, WellFormed
    <3> QED
      BY <1>2, <3>1
  <2>2. \A e \in received : Earlier(e, op)
    BY DEF Receive, InTurn, Earlier
  <2> QED
    BY <1>1, <2>1, <2>2 DEF MadeOn
<1>4. Named(received \union {op})
  BY DEF Receive, WellFormed, Named
<1>5. Len(InitDoc) + Cardinality(received) + 1 < UMod
  <2> DEFINE authors == {e.cid : e \in received \union {op}}
             n == Cardinality(authors)
  <2>1. authors \subseteq Clients /\ c \in authors
    BY <1>1, ReceivedType DEF IInv
  <2>2. Cardinality(received) < MaxReceived(n)
    BY DEF Receive
  <2> HIDE DEF authors
  <2>3. IsFiniteSet(authors) /\ n <= Cardinality(Clients) /\ n \in Nat /\ n # 0
    <3>1. IsFiniteSet(Clients)
      BY ConvergenceAssumption
    <3>2. IsFiniteSet(authors) /\ n <= Cardinality(Clients)
      BY <2>1, <3>1, FS_Subset
    <3>3. n \in Nat /\ (n = 0 => authors = {})
      BY <3>2, FS_CardinalityType, FS_EmptySet
    <3> QED
      BY <2>1, <3>2, <3>3
  <2>4. n \in 1 .. Cardinality(Clients)
    <3>1. Cardinality(Clients) \in Nat
      BY ConvergenceAssumption, FS_CardinalityType
    <3> HIDE DEF n
    <3> QED
      BY <2>3, <3>1
  <2>5. MaxReceived(n) \in Nat /\ Len(InitDoc) + MaxReceived(n) < UMod
    BY <2>4, ConvergenceAssumption
  <2>6. Cardinality(received) \in Nat
    BY FS_CardinalityType DEF IInv, Replicates
  <2> HIDE DEF n
  <2> QED
    BY <1>2, <2>2, <2>5, <2>6, UModAssumption
<1> QED
  BY <1>3, <1>4, <1>5

LEMMA NextPreservesIInv ==
  ASSUME IInv, [Next]_vars
  PROVE  IInv'
<1>1. CASE Next
  <2>1. PICK c \in Clients : \E op \in Ops(c) : Receive(op)
    BY <1>1 DEF Next
  <2>2. PICK op \in Ops(c) : Receive(op)
    BY <2>1
  <2>3. received' = received \union {op} /\ replica' = Integrate(replica, op)
    BY <2>2 DEF Receive, replica, Integrate
  <2>4. received \in SUBSET OpDescriptor /\ InitDoc \in Seq(Value)
    BY ReceivedType, ConvergenceAssumption DEF IInv
  <2>5. /\ Replicates(InitDoc, received \union {op}, Integrate(replica, op))
        /\ op \notin received
    <3>1. /\ MadeOn(InitDoc, op, received) /\ Named(received \union {op})
          /\ Replicates(InitDoc, received, replica)
          /\ Len(InitDoc) + Cardinality(received) < UMod
      BY <2>2, Received DEF IInv
    <3> QED
      BY <2>4, <3>1, IntegrateMore
  <2>6. Replicates(InitDoc, received, replica)'
    BY <2>3, <2>5 DEF Replicates
  <2>7. TypeOK'
    <3>1. doc' \in Seq(Value) /\ pack' \in Seq(OpDescriptor)
      BY <2>6 DEF Replicates, replica, Replica
    <3>2. received' \subseteq UNION {Ops(d) : d \in Clients}
      BY <2>2, <2>3 DEF IInv, TypeOK
    <3> QED
      BY <3>1, <3>2 DEF TypeOK
  <2>8. WellFormed(InitDoc, received)'
    BY <2>2, <2>3 DEF Receive, WellFormed
  <2>9. Len(InitDoc) + Cardinality(received') < UMod
    <3>1. Cardinality(received') = Cardinality(received) + 1
      BY <2>3, <2>5, FS_AddElement DEF IInv, Replicates
    <3>2. Len(InitDoc) + Cardinality(received) + 1 < UMod
      BY <2>2, Received
    <3>3. Cardinality(received) \in Nat /\ Len(InitDoc) \in Nat
      BY <2>4, FS_CardinalityType DEF IInv, Replicates
    <3> QED
      BY <3>1, <3>2, <3>3, UModAssumption
  <2> QED
    BY <2>6, <2>7, <2>8, <2>9 DEF IInv
<1>2. CASE UNCHANGED vars
  BY <1>2 DEF vars, IInv, TypeOK, Replicates, WellFormed, replica
<1> QED
  BY <1>1, <1>2

THEOREM Invariance == Spec => []IInv
<1>1. Init => IInv
  BY InitEstablishesIInv
<1>2. IInv /\ [Next]_vars => IInv'
  BY NextPreservesIInv
<1> QED
  BY <1>1, <1>2, PTL DEF Spec

(* Type correctness: what State::apply(pack, op) leaves is an array and a  *)
(* pack of operations, however often it is called.                         *)
THEOREM TypeCorrect == Spec => []TypeOK
<1>1. IInv => TypeOK
  BY DEF IInv
<1> QED
  BY <1>1, Invariance, PTL

(* The document a replica has is the merge of the operations it received,  *)
(* whatever their order: two replicas that received the same operations    *)
(* are equal (OpDescriptor::trans with State::apply).                      *)
THEOREM Convergent == Spec => []OrderIrrelevant
<1>1. IInv => OrderIrrelevant
  BY DEF IInv, Replicates, replica, OrderIrrelevant
<1> QED
  BY <1>1, Invariance, PTL

(* No operation a replica applies needs State::apply(op)'s fallback on the *)
(* end of the array: its posser names a place of the document.             *)
THEOREM AlwaysInBounds == Spec => NextInBounds
<1>1. ASSUME IInv, [Next]_vars
      PROVE  [\A c \in Clients : \A op \in Ops(c) :
                Receive(op) => InBounds(doc, TransformAll(op, pack))]_vars
  <2>1. ASSUME NEW c \in Clients, NEW op \in Ops(c), Receive(op)
        PROVE  InBounds(doc, TransformAll(op, pack))
    <3>1. InBounds(replica.doc, TransformAll(op, replica.pack))
      <4>1. /\ MadeOn(InitDoc, op, received) /\ Named(received \union {op})
            /\ Replicates(InitDoc, received, replica)
            /\ Len(InitDoc) + Cardinality(received) < UMod
            /\ received \in SUBSET OpDescriptor
        BY <1>1, <2>1, Received, ReceivedType DEF IInv
      <4> QED
        BY <4>1, ConvergenceAssumption, IntegrateMore
    <3> QED
      BY <3>1 DEF replica
  <2> QED
    BY <2>1
<1> QED
  BY <1>1, Invariance, PTL DEF Spec, NextInBounds

-----------------------------------------------------------------------------
(* Sorting.  R orders the numbers 1 .. n, the indices of a pack.           *)
Orders(R, n) ==
  /\ \A i \in 1 .. n : <<i, i>> \notin R
  /\ \A i, j \in 1 .. n : i = j \/ <<i, j>> \in R \/ <<j, i>> \in R
  /\ \A i, j, k \in 1 .. n : <<i, j>> \in R /\ <<j, k>> \in R => <<i, k>> \in R

(* The index at place k is the one that as many come before.               *)
Places(R, n) ==
  [i \in 1 .. n |->
     Cardinality({j \in 1 .. n : <<j, i>> \in R \/ (<<i, j>> \notin R /\ j <= i)})]

LEMMA PlacesOrdered ==
  ASSUME NEW n \in Nat, NEW R, Orders(R, n)
  PROVE  /\ Places(R, n) \in [1 .. n -> 1 .. n]
         /\ \A i, j \in 1 .. n : <<i, j>> \in R => Places(R, n)[i] < Places(R, n)[j]
<1> DEFINE T(i) == {j \in 1 .. n : <<j, i>> \in R \/ (<<i, j>> \notin R /\ j <= i)}
<1>1. IsFiniteSet(1 .. n) /\ Cardinality(1 .. n) = n
  BY FS_Interval
<1>2. ASSUME NEW i \in 1 .. n
      PROVE  /\ T(i) = {j \in 1 .. n : <<j, i>> \in R} \union {i}
             /\ Places(R, n)[i] = Cardinality(T(i))
             /\ IsFiniteSet(T(i)) /\ Cardinality(T(i)) \in 1 .. n
  <2>1. T(i) = {j \in 1 .. n : <<j, i>> \in R} \union {i}
    BY DEF Orders
  <2>2. Places(R, n)[i] = Cardinality(T(i))
    BY DEF Places
  <2>3. T(i) \subseteq 1 .. n /\ i \in T(i)
    BY <2>1
  <2> HIDE DEF T
  <2>4. IsFiniteSet(T(i)) /\ Cardinality(T(i)) <= n
    BY <1>1, <2>3, FS_Subset
  <2>5. Cardinality(T(i)) \in Nat /\ Cardinality(T(i)) # 0
    BY <2>3, <2>4, FS_CardinalityType, FS_EmptySet
  <2> QED
    BY <2>1, <2>2, <2>4, <2>5
<1>3. ASSUME NEW i \in 1 .. n, NEW j \in 1 .. n, <<i, j>> \in R
      PROVE  Places(R, n)[i] < Places(R, n)[j]
  <2>1. T(i) \subseteq T(j) /\ j \in T(j) /\ j \notin T(i)
    <3>1. \A k \in 1 .. n : <<k, i>> \in R => <<k, j>> \in R
      BY <1>3 DEF Orders
    <3>2. <<j, i>> \notin R /\ i # j
      BY <1>3 DEF Orders
    <3>3. /\ T(i) = {k \in 1 .. n : <<k, i>> \in R} \union {i}
          /\ T(j) = {k \in 1 .. n : <<k, j>> \in R} \union {j}
      BY <1>2
    <3> HIDE DEF T
    <3> QED
      BY <1>3, <3>1, <3>2, <3>3
  <2> HIDE DEF T
  <2>2. /\ Cardinality(T(i)) <= Cardinality(T(j))
        /\ Cardinality(T(i)) # Cardinality(T(j))
    BY <1>2, <2>1, FS_Subset
  <2> QED
    BY <1>2, <2>2
<1>4. Places(R, n) \in [1 .. n -> 1 .. n]
  <2>1. Places(R, n) = [i \in 1 .. n |-> Places(R, n)[i]]
    BY DEF Places
  <2> QED
    BY <1>2, <2>1
<1> QED
  BY <1>3, <1>4

(* Every place is one index's, and the indices in the order of their       *)
(* places are in the order R.                                              *)
IndexAt(R, n) == [k \in 1 .. n |-> CHOOSE i \in 1 .. n : Places(R, n)[i] = k]

LEMMA IndicesOrdered ==
  ASSUME NEW n \in Nat, NEW R, Orders(R, n)
  PROVE  /\ IndexAt(R, n) \in [1 .. n -> 1 .. n]
         /\ \A i \in 1 .. n : \E k \in 1 .. n : IndexAt(R, n)[k] = i
         /\ \A k, l \in 1 .. n : k < l => <<IndexAt(R, n)[k], IndexAt(R, n)[l]>> \in R
<1> DEFINE p == Places(R, n)
<1>1. /\ p \in [1 .. n -> 1 .. n]
      /\ \A i, j \in 1 .. n : <<i, j>> \in R => p[i] < p[j]
  BY PlacesOrdered
<1>2. ASSUME NEW i \in 1 .. n, NEW j \in 1 .. n, p[i] = p[j] PROVE i = j
  <2>1. p[i] \in 1 .. n
    BY <1>1
  <2> HIDE DEF p
  <2>2. ~(p[i] < p[j]) /\ ~(p[j] < p[i])
    BY <1>2, <2>1
  <2>3. <<i, j>> \notin R /\ <<j, i>> \notin R
    BY <1>1, <2>2
  <2> QED
    BY <2>3 DEF Orders
<1>3. \A k \in 1 .. n : \E i \in 1 .. n : p[i] = k
  <2> HIDE DEF p
  <2>1. p \in Injection(1 .. n, 1 .. n)
    BY <1>1, <1>2 DEF Injection, IsInjective
  <2>2. p \in Surjection(1 .. n, 1 .. n)
    BY <2>1, FS_Interval, FS_Injection
  <2> QED
    BY <2>2 DEF Surjection
<1>4. ASSUME NEW k \in 1 .. n
      PROVE  IndexAt(R, n)[k] \in 1 .. n /\ p[IndexAt(R, n)[k]] = k
  <2>1. IndexAt(R, n)[k] = CHOOSE i \in 1 .. n : p[i] = k
    BY DEF IndexAt
  <2> HIDE DEF p
  <2> QED
    BY <1>3, <2>1
<1>5. IndexAt(R, n) = [k \in 1 .. n |-> IndexAt(R, n)[k]]
  BY DEF IndexAt
<1> HIDE DEF p
<1>6. ASSUME NEW i \in 1 .. n PROVE \E k \in 1 .. n : IndexAt(R, n)[k] = i
  <2>1. p[i] \in 1 .. n /\ IndexAt(R, n)[p[i]] = i
    BY <1>1, <1>2, <1>4
  <2> QED
    BY <2>1
<1>7. ASSUME NEW k \in 1 .. n, NEW l \in 1 .. n, k < l
      PROVE  <<IndexAt(R, n)[k], IndexAt(R, n)[l]>> \in R
  <2> DEFINE i == IndexAt(R, n)[k]
             j == IndexAt(R, n)[l]
  <2>1. i \in 1 .. n /\ j \in 1 .. n /\ p[i] = k /\ p[j] = l
    BY <1>4
  <2> HIDE DEF i, j
  <2>2. i # j /\ ~(p[j] < p[i])
    BY <1>7, <2>1
  <2>3. <<i, j>> \in R
    BY <1>1, <2>1, <2>2 DEF Orders
  <2> QED
    BY <2>3 DEF i, j
<1> QED
  BY <1>4, <1>5, <1>6, <1>7

-----------------------------------------------------------------------------
(* A pack of the operations in ops, each once.                             *)
PackOf(src, ops) ==
  /\ src \in Seq(OpDescriptor)
  /\ {src[i] : i \in 1 .. Len(src)} = ops
  /\ \A i, j \in 1 .. Len(src) : src[i] = src[j] => i = j

LEMMA PackOfAll ==
  ASSUME NEW ops \in SUBSET OpDescriptor, IsFiniteSet(ops)
  PROVE  PackOf(SetToSeq(ops), ops)
<1> DEFINE n == Cardinality(ops)
           src == SetToSeq(ops)
<1>1. n \in Nat /\ ExistsBijection(1 .. n, ops)
  BY FS_CardinalityType
<1>2. PICK f : f \in [1 .. n -> ops] /\ IsInjective(f)
  BY <1>1 DEF ExistsBijection, Bijection, Injection
<1>3. src \in [1 .. n -> ops] /\ IsInjective(src)
  <2>1. src = CHOOSE g \in [1 .. n -> ops] : IsInjective(g)
    BY DEF SetToSeq
  <2> HIDE DEF n, src
  <2> QED
    BY <1>2, <2>1
<1> HIDE DEF n, src
<1>4. src \in Seq(OpDescriptor) /\ Len(src) = n
  <2>1. src \in Seq(ops) /\ Len(src) = n
    BY <1>1, <1>3
  <2> QED
    BY <2>1
<1>5. src \in Surjection(1 .. n, ops)
  <2>1. src \in Injection(1 .. n, ops)
    BY <1>3 DEF Injection
  <2>2. Cardinality(1 .. n) = n
    BY <1>1, FS_Interval
  <2> QED
    BY <2>1, <2>2, FS_Injection DEF n
<1>6. {src[i] : i \in 1 .. n} = ops
  BY <1>3, <1>5 DEF Surjection
<1>7. \A i, j \in 1 .. n : src[i] = src[j] => i = j
  BY <1>3 DEF IsInjective
<1> QED
  BY <1>4, <1>6, <1>7 DEF PackOf, src

(* t is the pack src with its indices taken in the order R.                *)
Rearrangement(t, src, R) ==
  /\ t \in Seq(OpDescriptor) /\ Len(t) = Len(src)
  /\ {t[k] : k \in 1 .. Len(src)} = {src[k] : k \in 1 .. Len(src)}
  /\ \A k, l \in 1 .. Len(src) : k < l =>
       \E i, j \in 1 .. Len(src) : t[k] = src[i] /\ t[l] = src[j] /\ <<i, j>> \in R

LEMMA Rearranged ==
  ASSUME NEW ops, NEW src, PackOf(src, ops),
         NEW R, Orders(R, Len(src)),
         NEW t, t = [k \in 1 .. Len(src) |-> src[IndexAt(R, Len(src))[k]]]
  PROVE  Rearrangement(t, src, R)
<1> DEFINE n == Len(src)
           at == IndexAt(R, n)
<1>1. /\ n \in Nat /\ src \in Seq(OpDescriptor)
      /\ \A i \in 1 .. n : src[i] \in OpDescriptor
      /\ {src[i] : i \in 1 .. n} = ops
  BY DEF PackOf
<1>2. /\ at \in [1 .. n -> 1 .. n]
      /\ \A i \in 1 .. n : \E k \in 1 .. n : at[k] = i
      /\ \A k, l \in 1 .. n : k < l => <<at[k], at[l]>> \in R
  BY <1>1, IndicesOrdered
<1>3. t = [k \in 1 .. n |-> src[at[k]]]
  OBVIOUS
<1> HIDE DEF n, at
<1>4. t \in Seq(OpDescriptor) /\ Len(t) = n
  <2>1. t \in [1 .. n -> OpDescriptor]
    BY <1>1, <1>2, <1>3
  <2> QED
    BY <1>1, <2>1
<1>5. {t[k] : k \in 1 .. n} = ops
  <2>1. \A k \in 1 .. n : t[k] \in ops
    BY <1>1, <1>2, <1>3
  <2>2. ASSUME NEW e \in ops PROVE \E k \in 1 .. n : t[k] = e
    <3>1. PICK i \in 1 .. n : src[i] = e
      BY <1>1
    <3>2. PICK k \in 1 .. n : at[k] = i
      BY <1>2
    <3> QED
      BY <1>3, <3>1, <3>2
  <2> QED
    BY <2>1, <2>2
<1>6. ASSUME NEW k \in 1 .. n, NEW l \in 1 .. n, k < l
      PROVE  \E i, j \in 1 .. n : t[k] = src[i] /\ t[l] = src[j] /\ <<i, j>> \in R
  BY <1>2, <1>3, <1>6
<1> QED
  BY <1>1, <1>4, <1>5, <1>6 DEF n, Rearrangement

(* OpPack::orderPos and orderRev: both orders tell the operations of a     *)
(* src apart, since no two have the same author and number.               *)
LEMMA PositionsOrder ==
  ASSUME NEW ops, NEW src, PackOf(src, ops), Named(ops)
  PROVE  /\ OrderPos(src) \in Seq(OpDescriptor)
         /\ {OrderPos(src)[k] : k \in 1 .. Len(OrderPos(src))} = ops
         /\ \A k, l \in 1 .. Len(OrderPos(src)) :
              k < l => PosBefore(OrderPos(src)[k], OrderPos(src)[l])
<1> DEFINE n == Len(src)
           R == {x \in (1 .. n) \X (1 .. n) : PosBefore(src[x[1]], src[x[2]])}
           t == OrderPos(src)
<1>1. /\ n \in Nat /\ {src[i] : i \in 1 .. n} = ops
      /\ \A i \in 1 .. n : /\ src[i] \in ops /\ src[i].pos \in Nat
                           /\ src[i].cid \in Nat /\ src[i].rev \in Nat
      /\ \A i, j \in 1 .. n : src[i] = src[j] => i = j
  BY OpFields DEF PackOf
<1>2. \A i, j \in 1 .. n : <<i, j>> \in R <=> PosBefore(src[i], src[j])
  OBVIOUS
<1>3. Orders(R, n)
  <2>1. ASSUME NEW i \in 1 .. n PROVE ~PosBefore(src[i], src[i])
    BY <1>1 DEF PosBefore
  <2>2. ASSUME NEW i \in 1 .. n, NEW j \in 1 .. n, i # j
        PROVE  PosBefore(src[i], src[j]) \/ PosBefore(src[j], src[i])
    <3>1. src[i].cid # src[j].cid \/ src[i].rev # src[j].rev
      BY <1>1, <2>2 DEF Named
    <3> QED
      BY <1>1, <3>1 DEF PosBefore
  <2>3. ASSUME NEW i \in 1 .. n, NEW j \in 1 .. n, NEW k \in 1 .. n,
               PosBefore(src[i], src[j]), PosBefore(src[j], src[k])
        PROVE  PosBefore(src[i], src[k])
    <3> DEFINE a == src[i]
               b == src[j]
               c == src[k]
    <3>1. /\ a.pos \in Nat /\ b.pos \in Nat /\ c.pos \in Nat
          /\ a.cid \in Nat /\ b.cid \in Nat /\ c.cid \in Nat
          /\ a.rev \in Nat /\ b.rev \in Nat /\ c.rev \in Nat
      BY <1>1
    <3>2. PosBefore(a, b) /\ PosBefore(b, c)
      BY <2>3
    <3> HIDE DEF a, b, c, n
    <3>3. PosBefore(a, c)
      BY <3>1, <3>2 DEF PosBefore
    <3> QED
      BY <3>3 DEF a, b, c
  <2> HIDE DEF R, n
  <2> QED
    BY <1>2, <2>1, <2>2, <2>3 DEF Orders
<1>4. t = [k \in 1 .. n |-> src[IndexAt(R, n)[k]]]
  <2>1. Places(R, n) = [i \in 1 .. n |-> Cardinality({j \in 1 .. n :
          PosBefore(src[j], src[i]) \/ (~PosBefore(src[i], src[j]) /\ j <= i)})]
    <3>1. ASSUME NEW i \in 1 .. n
          PROVE  {j \in 1 .. n : <<j, i>> \in R \/ (<<i, j>> \notin R /\ j <= i)} =
                 {j \in 1 .. n :
                    PosBefore(src[j], src[i]) \/ (~PosBefore(src[i], src[j]) /\ j <= i)}
      <4> HIDE DEF R, n
      <4> QED
        BY <1>2
    <3> HIDE DEF R, n
    <3> QED
      BY <3>1 DEF Places
  <2> DEFINE P == Places(R, n)
  <2>2. t = [k \in 1 .. n |-> src[CHOOSE i \in 1 .. n : P[i] = k]]
    <3> HIDE DEF P, R
    <3> QED
      BY <2>1 DEF OrderPos, Sorted, P
  <2> HIDE DEF R, n
  <2> QED
    BY <2>2 DEF IndexAt
<1> HIDE DEF t, R
<1>5. Rearrangement(t, src, R)
  BY <1>3, <1>4, Rearranged
<1>6. ASSUME NEW k \in 1 .. n, NEW l \in 1 .. n, k < l
      PROVE  PosBefore(t[k], t[l])
  <2>1. PICK i \in 1 .. n, j \in 1 .. n : t[k] = src[i] /\ t[l] = src[j] /\ <<i, j>> \in R
    BY <1>5, <1>6 DEF Rearrangement
  <2> HIDE DEF n
  <2> QED
    BY <1>2, <2>1
<1>7. t \in Seq(OpDescriptor) /\ Len(t) = n /\ {t[k] : k \in 1 .. n} = ops
  BY <1>1, <1>5 DEF Rearrangement
<1> HIDE DEF n
<1>8. {t[k] : k \in 1 .. Len(t)} = ops
  BY <1>7
<1> QED
  BY <1>6, <1>7, <1>8 DEF t

(* Sorted by revision, a pack is in the order of its operations' numbers.  *)
LEMMA RevisionsOrder ==
  ASSUME NEW ops, NEW src, PackOf(src, ops), Named(ops)
  PROVE  /\ OrderRev(src) \in Seq(OpDescriptor)
         /\ {OrderRev(src)[k] : k \in 1 .. Len(OrderRev(src))} = ops
         /\ \A k, l \in 1 .. Len(OrderRev(src)) :
              k < l => RevBefore(OrderRev(src)[k], OrderRev(src)[l])
<1> DEFINE n == Len(src)
           R == {x \in (1 .. n) \X (1 .. n) : RevBefore(src[x[1]], src[x[2]])}
           t == OrderRev(src)
<1>1. /\ n \in Nat /\ {src[i] : i \in 1 .. n} = ops
      /\ \A i \in 1 .. n : /\ src[i] \in ops
                           /\ src[i].cid \in Nat /\ src[i].rev \in Nat
      /\ \A i, j \in 1 .. n : src[i] = src[j] => i = j
  BY OpFields DEF PackOf
<1>2. \A i, j \in 1 .. n : <<i, j>> \in R <=> RevBefore(src[i], src[j])
  OBVIOUS
<1>3. Orders(R, n)
  <2>1. ASSUME NEW i \in 1 .. n PROVE ~RevBefore(src[i], src[i])
    BY <1>1 DEF RevBefore
  <2>2. ASSUME NEW i \in 1 .. n, NEW j \in 1 .. n, i # j
        PROVE  RevBefore(src[i], src[j]) \/ RevBefore(src[j], src[i])
    <3>1. src[i].cid # src[j].cid \/ src[i].rev # src[j].rev
      BY <1>1, <2>2 DEF Named
    <3> QED
      BY <1>1, <3>1 DEF RevBefore
  <2>3. ASSUME NEW i \in 1 .. n, NEW j \in 1 .. n, NEW k \in 1 .. n,
               RevBefore(src[i], src[j]), RevBefore(src[j], src[k])
        PROVE  RevBefore(src[i], src[k])
    <3> DEFINE a == src[i]
               b == src[j]
               c == src[k]
    <3>1. /\ a.cid \in Nat /\ b.cid \in Nat /\ c.cid \in Nat
          /\ a.rev \in Nat /\ b.rev \in Nat /\ c.rev \in Nat
      BY <1>1
    <3>2. RevBefore(a, b) /\ RevBefore(b, c)
      BY <2>3
    <3> HIDE DEF a, b, c, n
    <3>3. RevBefore(a, c)
      BY <3>1, <3>2 DEF RevBefore
    <3> QED
      BY <3>3 DEF a, b, c
  <2> HIDE DEF R, n
  <2> QED
    BY <1>2, <2>1, <2>2, <2>3 DEF Orders
<1>4. t = [k \in 1 .. n |-> src[IndexAt(R, n)[k]]]
  <2>1. Places(R, n) = [i \in 1 .. n |-> Cardinality({j \in 1 .. n :
          RevBefore(src[j], src[i]) \/ (~RevBefore(src[i], src[j]) /\ j <= i)})]
    <3>1. ASSUME NEW i \in 1 .. n
          PROVE  {j \in 1 .. n : <<j, i>> \in R \/ (<<i, j>> \notin R /\ j <= i)} =
                 {j \in 1 .. n :
                    RevBefore(src[j], src[i]) \/ (~RevBefore(src[i], src[j]) /\ j <= i)}
      <4> HIDE DEF R, n
      <4> QED
        BY <1>2
    <3> HIDE DEF R, n
    <3> QED
      BY <3>1 DEF Places
  <2> DEFINE P == Places(R, n)
  <2>2. t = [k \in 1 .. n |-> src[CHOOSE i \in 1 .. n : P[i] = k]]
    <3> HIDE DEF P, R
    <3> QED
      BY <2>1 DEF OrderRev, Sorted, P
  <2> HIDE DEF R, n
  <2> QED
    BY <2>2 DEF IndexAt
<1> HIDE DEF t, R
<1>5. Rearrangement(t, src, R)
  BY <1>3, <1>4, Rearranged
<1>6. ASSUME NEW k \in 1 .. n, NEW l \in 1 .. n, k < l
      PROVE  RevBefore(t[k], t[l])
  <2>1. PICK i \in 1 .. n, j \in 1 .. n : t[k] = src[i] /\ t[l] = src[j] /\ <<i, j>> \in R
    BY <1>5, <1>6 DEF Rearrangement
  <2> HIDE DEF n
  <2> QED
    BY <1>2, <2>1
<1>7. t \in Seq(OpDescriptor) /\ Len(t) = n /\ {t[k] : k \in 1 .. n} = ops
  BY <1>1, <1>5 DEF Rearrangement
<1> HIDE DEF n
<1>8. {t[k] : k \in 1 .. Len(t)} = ops
  BY <1>7
<1> QED
  BY <1>6, <1>7, <1>8 DEF t

-----------------------------------------------------------------------------
(* A pack that holds each operation after the earlier ones of its author.  *)
LEMMA AppliedInTurn ==
  ASSUME IInv, NEW t \in Seq(OpDescriptor), {t[k] : k \in 1 .. Len(t)} = received,
         \A k, l \in 1 .. Len(t) : k < l => Earlier(t[k], t[l])
  PROVE  ApplyPack(InitDoc, t) = Merge(InitDoc, received)
<1> DEFINE fresh == [doc |-> InitDoc, pack |-> <<>>]
           n == Len(t)
<1>1. /\ n \in Nat /\ InitDoc \in Seq(Value) /\ Len(InitDoc) \in Nat
      /\ \A k \in 1 .. n : t[k] \in received
  BY ConvergenceAssumption
<1>2. \A k \in 0 .. n : Others(t, k, {}) = {t[i] : i \in 1 .. k}
  BY <1>1 DEF Others
<1>3. Others(t, n, {}) = received
  <2>1. n \in 0 .. n
    BY <1>1
  <2>2. {t[i] : i \in 1 .. n} = received
    OBVIOUS
  <2> HIDE DEF n
  <2> QED
    BY <1>2, <2>1, <2>2
<1>4. MadeInTurn(InitDoc, {}, t, {})
  <2>1. Named({} \union Others(t, n, {}))
    BY <1>3 DEF IInv, WellFormed, Named
  <2>2. ASSUME NEW i \in 1 .. n
        PROVE  MadeOn(InitDoc, t[i], {} \union Others(t, i - 1, {}))
    <3> DEFINE op == t[i]
    <3>1. op \in received /\ op \in OpDescriptor
      BY <1>1
    <3>2. op.typ # "nothing" /\ op.posser = op.pos
      BY <3>1, OpsType DEF IInv, TypeOK
    <3>3. op.pos <= Len(InitDoc) /\ (op.typ # "insert" => op.pos < Len(InitDoc))
      <4>1. op.pos \in 0 .. (IF op.typ = "insert" THEN Len(InitDoc) ELSE Len(InitDoc) - 1)
        BY <3>1 DEF IInv, WellFormed
      <4>2. op.pos \in Nat
        BY <3>1, OpFields
      <4> HIDE DEF op
      <4> QED
        BY <1>1, <4>1, <4>2
    <3>4. \A e \in {} \union Others(t, i - 1, {}) : Earlier(e, op)
      <4>1. i - 1 \in 0 .. n /\ \A k \in 1 .. i - 1 : k \in 1 .. n /\ k < i
        BY <1>1
      <4>2. Others(t, i - 1, {}) = {t[k] : k \in 1 .. i - 1}
        BY <1>2, <4>1
      <4>3. \A k \in 1 .. i - 1 : Earlier(t[k], t[i])
        BY <4>1
      <4> QED
        BY <4>2, <4>3
    <3> HIDE DEF op
    <3>5. MadeOn(InitDoc, op, {} \union Others(t, i - 1, {}))
      BY <3>1, <3>2, <3>3, <3>4 DEF MadeOn
    <3> QED
      BY <3>5 DEF op
  <2> QED
    BY <2>1, <2>2 DEF MadeInTurn
<1>5. Replicates(InitDoc, {}, fresh)
  BY <1>1, FreshReplica
<1>6. IsFiniteSet(received) /\ Len(InitDoc) + Cardinality(received) < UMod
  BY DEF IInv, Replicates
<1>7. received = {} \union Others(t, Len(t), {})
  BY <1>3
<1> HIDE DEF fresh, n
<1>8. Replicates(InitDoc, received, IntegrateAll(fresh, t, {}))
  BY <1>1, <1>4, <1>5, <1>6, <1>7, IntegrateAllMore
<1> QED
  BY <1>8 DEF Replicates, ApplyPack, fresh

(* Sorting a pack by position or by revision before it is applied          *)
(* (OpPack::orderPos, orderRev) does not change what it does.              *)
THEOREM SortingIrrelevant == Spec => []SortedPacks
<1>1. ASSUME IInv PROVE SortedPacks
  <2> DEFINE all == SetToSeq(received)
  <2>1. PackOf(all, received)
    BY <1>1, ReceivedType, PackOfAll DEF IInv, Replicates
  <2>2. Named(received)
    BY <1>1 DEF IInv, WellFormed, Named
  <2>3. \A e \in received : e.pos \in Nat /\ e.cid \in Nat /\ e.rev \in Nat
    BY <1>1, ReceivedType, OpFields DEF IInv
  <2> HIDE DEF all
  <2>4. ApplyPack(InitDoc, OrderPos(all)) = Merge(InitDoc, received)
    <3> DEFINE t == OrderPos(all)
    <3>1. /\ t \in Seq(OpDescriptor) /\ {t[k] : k \in 1 .. Len(t)} = received
          /\ \A k, l \in 1 .. Len(t) : k < l => PosBefore(t[k], t[l])
      BY <2>1, <2>2, PositionsOrder
    <3> HIDE DEF t
    <3>2. \A k, l \in 1 .. Len(t) : k < l => Earlier(t[k], t[l])
      BY <2>3, <3>1 DEF PosBefore, Earlier
    <3>3. ApplyPack(InitDoc, t) = Merge(InitDoc, received)
      BY <1>1, <3>1, <3>2, AppliedInTurn
    <3> QED
      BY <3>3 DEF t
  <2>5. ApplyPack(InitDoc, OrderRev(all)) = Merge(InitDoc, received)
    <3> DEFINE t == OrderRev(all)
    <3>1. /\ t \in Seq(OpDescriptor) /\ {t[k] : k \in 1 .. Len(t)} = received
          /\ \A k, l \in 1 .. Len(t) : k < l => RevBefore(t[k], t[l])
      BY <2>1, <2>2, RevisionsOrder
    <3> HIDE DEF t
    <3>2. \A k, l \in 1 .. Len(t) : k < l => Earlier(t[k], t[l])
      BY <2>3, <3>1 DEF RevBefore, Earlier
    <3>3. ApplyPack(InitDoc, t) = Merge(InitDoc, received)
      BY <1>1, <3>1, <3>2, AppliedInTurn
    <3> QED
      BY <3>3 DEF t
  <2> QED
    BY <2>4, <2>5 DEF SortedPacks, all
<1> QED
  BY <1>1, Invariance, PTL
=============================================================================
