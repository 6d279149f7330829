-------------------------------- MODULE Ops --------------------------------
(***************************************************************************)
(* The operations of the replication algorithm (ops/ops.hpp) and their     *)
(* effect on the shared array (ops/state.hpp), as operators on constants.  *)
(*                                                                         *)
(* An operation carries two positions.  `pos' is the position its author   *)
(* saw, never changed afterwards: concurrent operations are compared by    *)
(* it.  `posser' is the position at which the operation must be applied    *)
(* once other concurrent operations have been: the transformation moves    *)
(* it.  Documents are sequences, so the C++ index k is index k + 1 here.   *)
(***************************************************************************)
EXTENDS Integers, Sequences, SequencesExt

CONSTANTS
  Value,   (* what the array holds: T of OpDescriptor<T>                   *)
  UMod     (* 2^w for the w-bit `unsigned' of positions, revisions and ids *)

ASSUME UModAssumption == UMod \in Nat /\ UMod > 1

Unsigned == 0 .. UMod - 1

(* ++ and -- on an unsigned wrap around.                                   *)
UInc(n) == IF n = UMod - 1 THEN 0 ELSE n + 1
UDec(n) == IF n = 0 THEN UMod - 1 ELSE n - 1

OpType == {"nothing", "insert", "remove", "update"}

OpDescriptor ==
  [typ : OpType, pos : Unsigned, posser : Unsigned, value : Value,
   cid : Unsigned, rev : Unsigned]

(* Broken: the number is counted down before it is used.                   *)
MakeOpEarlier(t, p, v, c, r) ==
  [typ |-> t, pos |-> p, posser |-> p, value |-> v, cid |-> c, rev |-> r - 1]

MakeOp(t, p, v, c, r) ==
  [typ |-> t, pos |-> p, posser |-> p, value |-> v, cid |-> c, rev |-> r]

-----------------------------------------------------------------------------
(***************************************************************************)
(* OpDescriptor::trans: op, concurrent with pre, is changed to be applied  *)
(* after it.                                                               *)
(***************************************************************************)

SamePos(op, pre) == op.pos = pre.pos

(* Broken: the update that is applied first wins, whoever made it.         *)
DroppedLater(op, pre) ==
  /\ SamePos(op, pre)
  /\ \/ pre.typ = "remove" /\ op.typ # "insert"
     \/ pre.typ = "update" /\ op.typ = "update"

(* Broken: an insert goes with the element it was made in front of.        *)
DroppedInsert(op, pre) ==
  /\ SamePos(op, pre)
  /\ \/ pre.typ = "remove"
     \/ pre.typ = "update" /\ op.typ = "update" /\ op.cid > pre.cid

(* pre makes op pointless: its element is gone, or has been given a value  *)
(* by a client of higher priority (a lower cid).                           *)
Dropped(op, pre) ==
  /\ SamePos(op, pre)
  /\ \/ pre.typ = "remove" /\ op.typ # "insert"
     \/ pre.typ = "update" /\ op.typ = "update" /\ op.cid > pre.cid

(* Broken: of two inserts of one client, the earlier comes first.          *)
UnmovedEarlier(op, pre) ==
  \/ pre.typ \in {"nothing", "update"}
  \/ op.pos < pre.pos
  \/ SamePos(op, pre) /\ pre.typ = "remove"
  \/ SamePos(op, pre) /\ pre.typ = "insert" /\ op.typ = "insert" /\ op.cid < pre.cid

(* Broken: a removed element moves what is inserted in front of it.        *)
UnmovedButByRemove(op, pre) ==
  \/ pre.typ \in {"nothing", "update"}
  \/ op.pos < pre.pos
  \/ SamePos(op, pre) /\ pre.typ = "insert" /\ op.typ = "insert" /\ op.cid <= pre.cid

(* pre has no effect on where op is applied.                               *)
Unmoved(op, pre) ==
  \/ pre.typ \in {"nothing", "update"}
  \/ op.pos < pre.pos
  \/ SamePos(op, pre) /\ pre.typ = "remove"
  \/ SamePos(op, pre) /\ pre.typ = "insert" /\ op.typ = "insert" /\ op.cid <= pre.cid

Trans(op, pre) ==
  [op EXCEPT
     !.typ    = IF Dropped(op, pre) THEN "nothing" ELSE @,
     !.posser = CASE Unmoved(op, pre)                            -> @
                  [] ~Unmoved(op, pre) /\ pre.typ = "remove"     -> UDec(@)
                  [] ~Unmoved(op, pre) /\ pre.typ = "insert"     -> UInc(@)]

(* The loop of OpPack::transformAndPut: op goes past every operation of    *)
(* the pack, from the first to the last.                                   *)
TransformAll(op, pack) ==
  LET t[i \in 0 .. Len(pack)] == IF i = 0 THEN op ELSE Trans(t[i - 1], pack[i])
  IN  t[Len(pack)]

(* OpPack::isDuplication: the pack already holds an operation at this      *)
(* position, and the two are not both inserts.                             *)
IsDuplication(op, pack) ==
  \E i \in 1 .. Len(pack) :
    /\ SamePos(op, pack[i])
    /\ ~(op.typ = "insert" /\ pack[i].typ = "insert")

(* std::sort of the whole pack; equals, of which it says nothing, stay in  *)
(* their order.                                                            *)
Sorted(pack, Less(_, _)) ==
  LET place == [i \in 1 .. Len(pack) |-> Cardinality({j \in 1 .. Len(pack) :
                  Less(pack[j], pack[i]) \/ (~Less(pack[i], pack[j]) /\ j <= i)})]
  IN  [k \in 1 .. Len(pack) |-> pack[CHOOSE i \in 1 .. Len(pack) : place[i] = k]]

(* OpPack::orderPos.                                                       *)
PosBefore(a, b) ==
  \/ a.pos < b.pos
  \/ a.pos = b.pos /\ a.cid < b.cid
  \/ a.pos = b.pos /\ a.cid = b.cid /\ a.rev < b.rev

OrderPos(pack) == Sorted(pack, PosBefore)

(* OpPack::orderRev.                                                       *)
RevBefore(a, b) == a.rev < b.rev \/ (a.rev = b.rev /\ a.cid < b.cid)

(* Broken: the latest operation comes first.                               *)
RevAfter(a, b) == a.rev > b.rev \/ (a.rev = b.rev /\ a.cid < b.cid)
OrderRevDown(pack) == Sorted(pack, RevAfter)

OrderRev(pack) == Sorted(pack, RevBefore)

-----------------------------------------------------------------------------
(***************************************************************************)
(* State: operations applied to a document.                                *)
(***************************************************************************)

(* State::apply(op).  An insert at or past the end appends; any other      *)
(* operation past the end falls back on the last element.                  *)
Bound(doc, op) == IF op.posser >= Len(doc) THEN Len(doc) ELSE op.posser + 1

Apply(doc, op) ==
  CASE op.typ = "nothing"                            -> doc
    [] op.typ = "insert" /\ op.posser >= Len(doc)    -> Append(doc, op.value)
    [] op.typ = "insert" /\ op.posser < Len(doc)     -> InsertAt(doc, Bound(doc, op), op.value)
    [] op.typ \in {"remove", "update"} /\ doc = <<>> -> doc
    [] op.typ = "remove" /\ doc # <<>>               -> RemoveAt(doc, Bound(doc, op))
    [] op.typ = "update" /\ doc # <<>>               -> [doc EXCEPT ![Bound(doc, op)] = op.value]

(* Where the code relies on neither fallback: the position names a place   *)
(* of the document the operation is applied to.                            *)
InBounds(doc, op) ==
  CASE op.typ = "nothing"              -> TRUE
    [] op.typ = "insert"               -> op.posser <= Len(doc)
    [] op.typ \in {"remove", "update"} -> op.posser < Len(doc)

(* A replica: its document, and the operations already applied to it since *)
(* the revision the others start from.                                     *)
Replica == [doc : Seq(Value), pack : Seq(OpDescriptor)]

(* State::apply(pack, op): transform, remember, apply.                     *)
Integrate(replica, op) ==
  LET newop == TransformAll(op, replica.pack)
  IN  [doc |-> Apply(replica.doc, newop), pack |-> Append(replica.pack, newop)]

(* State::apply(pack) and State::applyFromOthers(cid, applied, pack): the  *)
(* operations of src in order, without those of the clients in own.        *)
IntegrateOther(replica, op, own) ==
  IF op.cid \in own THEN replica ELSE Integrate(replica, op)

IntegrateAll(replica, src, own) ==
  LET r[i \in 0 .. Len(src)] ==
        IF i = 0 THEN replica ELSE IntegrateOther(r[i - 1], src[i], own)
  IN  r[Len(src)]

ApplyPack(doc, pack) == IntegrateAll([doc |-> doc, pack |-> <<>>], pack, {}).doc

ApplyFromOthers(cid, doc, applied, src) ==
  IntegrateAll([doc |-> doc, pack |-> applied], src, {cid}).doc
=============================================================================
