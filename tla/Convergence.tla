---------------------------- MODULE Convergence ----------------------------
(***************************************************************************)
(* One replica that receives the concurrent operations of several clients, *)
(* all made on the same document, one at a time through                    *)
(* State::apply(pack, op).  Nothing says in which order: the clients of    *)
(* one round apply the same operations in different orders, and a pack may *)
(* be sorted by position or by revision first.  Only two operations of one *)
(* client at one position keep their order, which is what all of these     *)
(* have in common.                                                         *)
(***************************************************************************)
EXTENDS Ops, Merge

CONSTANTS
  Clients,        (* the cids of the clients that write                    *)
  MaxOps,         (* bound: operations of one client                       *)
  MaxReceived(_), (* bound: operations altogether, of that many clients    *)
  InitDoc,        (* the document all operations were made on              *)
  NewValue(_, _)  (* the value of the operation a client signs with a rev  *)

ASSUME ConvergenceAssumption ==
  /\ Clients \subseteq Unsigned
  /\ MaxOps \in Unsigned
  /\ IsFiniteSet(Clients)
  /\ InitDoc \in Seq(Value) /\ Len(InitDoc) < UMod
  /\ \A n \in 1 .. Cardinality(Clients) :
       MaxReceived(n) \in Nat /\ Len(InitDoc) + MaxReceived(n) < UMod
  /\ \A c \in Clients, r \in 0 .. MaxOps : NewValue(c, r) \in Value

VARIABLES
  received,  (* the operations received, as their authors made them        *)
  doc,       (* *data of the State                                         *)
  pack       (* appliedPack: the same operations, as they were applied     *)

vars == <<received, doc, pack>>

(* Every operation a client may yet make, or have made: positions are      *)
(* those of the common document, revisions are the client's own counter.   *)
Ops(c) ==
  {MakeOp(t, p, NewValue(c, r), c, r) :
     t \in OpType \ {"nothing"}, p \in 0 .. Len(InitDoc), r \in 0 .. MaxOps - 1}

(* Neither op nor a later operation of the same client at the same         *)
(* position has come before.                                               *)
InTurn(op) ==
  \A e \in received : e.cid = op.cid /\ e.pos = op.pos => e.rev < op.rev

Init == received = {} /\ doc = InitDoc /\ pack = <<>>

Receive(op) ==
  /\ Cardinality(received) < MaxReceived(Cardinality({e.cid : e \in received \union {op}}))
  /\ InTurn(op)
  /\ WellFormed(InitDoc, received \union {op})
  /\ received' = received \union {op}
  /\ LET replica == Integrate([doc |-> doc, pack |-> pack], op)
     IN  doc' = replica.doc /\ pack' = replica.pack

Next == \E c \in Clients : \E op \in Ops(c) : Receive(op)
Spec == Init /\ [][Next]_vars

-----------------------------------------------------------------------------
TypeOK ==
  /\ received \subseteq UNION {Ops(c) : c \in Clients}
  /\ doc \in Seq(Value)
  /\ pack \in Seq(OpDescriptor)

(* Whatever the order in which the operations came, the document is the    *)
(* merge of what was received: two replicas that received the same         *)
(* operations are equal (OpDescriptor::trans).                             *)
OrderIrrelevant == doc = Merge(InitDoc, received)

(* Sorting a pack by position or by revision before it is applied          *)
(* (OpPack::orderPos, orderRev) does not change what it does.              *)
SortedPacks ==
  /\ ApplyPack(InitDoc, OrderPos(SetToSeq(received))) = Merge(InitDoc, received)
  /\ ApplyPack(InitDoc, OrderRev(SetToSeq(received))) = Merge(InitDoc, received)

(* The transformed position of the next operation names a place of the     *)
(* document: State::apply never falls back on its end, and posser has not  *)
(* wrapped around below 0.                                                 *)
NextInBounds ==
  [][\A c \in Clients : \A op \in Ops(c) :
       Receive(op) => InBounds(doc, TransformAll(op, pack))]_vars
=============================================================================
