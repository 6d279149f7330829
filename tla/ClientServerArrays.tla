------------------------- MODULE ClientServerArrays -------------------------
(***************************************************************************)
(* Server<C> and Client<C> with C = IgushArray<U>, as main.cpp and the     *)
(* fixture AConcurentClientServerIgushTest have it: what ClientServer says *)
(* of sequences, done with the operations of IgushArray that State<C>      *)
(* calls, on arrays of several deques that grow and shrink.  There is one  *)
(* session: only the test of vectors, CatchConcurentPackets, resets.       *)
(***************************************************************************)
EXTENDS Ops

CONSTANTS
  NClients, InitSize, OldValue(_), NewValue(_, _), Filtered,  (* those of  *)
  MaxPack, MaxOps, MaxRounds,                          (* ClientServer     *)
  Thrown                                               (* of Deques        *)

ASSUME ClientServerArraysAssumption ==
  /\ {NClients, InitSize, MaxPack, MaxOps, MaxRounds} \subseteq Unsigned
  /\ InitSize + NClients * MaxOps < UMod
  /\ Filtered \in BOOLEAN
  /\ \A i \in Unsigned : OldValue(i) \in Value
  /\ \A c \in 1 .. NClients, r \in Unsigned : NewValue(c, r) \in Value
  /\ Thrown \notin Seq(Value)

VARIABLES
  arrays,     (* the owner's vector of arrays                              *)
  connected, rev, accum, servRev, crev, applied, stale

vars == <<arrays, connected, rev, accum, servRev, crev, applied, stale>>

(* The operations of an array on its deques.                               *)
D == INSTANCE Deques

SizeOf(a)       == D!SizeOf(a.v, a.deqSize)
ElementAt(a, n) == D!Deref(a.v, D!At(a.deqSize, n))
ContentsOf(a)   == FlattenSeq(a.v)

P == INSTANCE ClientServer WITH
  datas <- [c \in 0 .. NClients |-> ContentsOf(arrays[c])], session <- 0, MaxSessions <- 0

NoArray == [v |-> <<>>, deqSize |-> 1, capacity |-> 1]

-----------------------------------------------------------------------------
(***************************************************************************)
(* State<C>.                                                               *)
(***************************************************************************)

(* StateEq: the comparison of checkStates.                                 *)
StateEq(a, b) ==
  /\ SizeOf(a) = SizeOf(b)
  /\ \A n \in 0 .. SizeOf(a) - 1 : ElementAt(a, n) = ElementAt(b, n)

BoundOf(a, op) == IF op.posser >= SizeOf(a) THEN SizeOf(a) - 1 ELSE op.posser

(* State::apply(op): data->begin() + pos1, and data->operator[](pos1).     *)
ApplyTo(a, op) ==
  LET n  == SizeOf(a)
      it == D!Plus(a.v, a.deqSize, D!Begin, BoundOf(a, op))
  IN  CASE op.typ = "nothing" -> a
        [] op.typ = "insert" /\ op.posser >= n ->
             [a EXCEPT !.v = D!Pushed(@, a.deqSize, op.value)]
        [] op.typ = "insert" /\ op.posser < n ->
             [a EXCEPT !.v = D!Inserted(@, a.deqSize, it, op.value)]
        [] op.typ \in {"remove", "update"} /\ n = 0 -> a
        [] op.typ = "remove" /\ n # 0 -> [a EXCEPT !.v = D!Erased(@, a.deqSize, it)]
        [] op.typ = "update" /\ n # 0 ->
             [a EXCEPT !.v = D!Written(@, a.deqSize, BoundOf(a, op), op.value)]

(* State::apply(pack, op).                                                 *)
IntegrateTo(replica, op) ==
  LET newop == TransformAll(op, replica.pack)
  IN  [array |-> ApplyTo(replica.array, newop), pack |-> Append(replica.pack, newop)]

(* State::apply(pack), and State::applyFromOthers with own = {cid}.        *)
IntegrateOtherTo(replica, op, own) ==
  IF op.cid \in own THEN replica ELSE IntegrateTo(replica, op)

ApplyAllTo(a, pack, src, own) ==
  LET r[i \in 0 .. Len(src)] ==
        IF i = 0 THEN [array |-> a, pack |-> pack] ELSE IntegrateOtherTo(r[i - 1], src[i], own)
  IN  r[Len(src)].array

-----------------------------------------------------------------------------
(* reserve(InitSize) of a new array, and InitSize times push_back.         *)
Init ==
  /\ arrays = [c \in 0 .. NClients |->
                 IF c = 0 THEN D!Built(InitSize, P!Numbered(InitSize)) ELSE NoArray]
  /\ connected = 0
  /\ rev = 0
  /\ accum = <<>>
  /\ servRev = [c \in P!Client |-> 0]
  /\ crev = [c \in P!Client |-> 0]
  /\ applied = [c \in P!Client |-> <<>>]
  /\ stale = {}

(* Server::clone makes a copy of the server's array.                       *)
Connect ==
  /\ P!Connecting
  /\ arrays' = [arrays EXCEPT
       ![P!Clone.cid] = D!Built(arrays[0].capacity, ContentsOf(arrays[0]))]

MakeLocalOps(c, ops) ==
  /\ P!Pushing(c, ops)
  /\ arrays' = [arrays EXCEPT ![c] = ApplyAllTo(@, <<>>, P!Signed(c, ops), {})]

Update ==
  /\ P!Updating
  /\ arrays' = [c \in 0 .. NClients |->
       CASE c = 0                              -> ApplyAllTo(arrays[0], <<>>, accum, {0})
         [] c \in P!Connected                  -> ApplyAllTo(arrays[c], applied[c], accum, {c})
         [] c \notin P!Connected /\ c # 0      -> arrays[c]]

Next ==
  \/ P!MayConnect /\ Connect
  \/ \E c \in P!Connected :
       P!MayPush(c) /\ \E ops \in P!LocalOps(ContentsOf(arrays[c])) : MakeLocalOps(c, ops)
  \/ Update

Spec == Init /\ [][Next]_vars

-----------------------------------------------------------------------------
(* Every deque of an array but the last is full, none takes more than it   *)
(* can, only an empty array has an empty one, and no call of one threw.    *)
Sound(a) ==
  /\ a.v # <<>> /\ Thrown \notin Range(a.v)
  /\ \A i \in 1 .. Len(a.v) - 1 : Len(a.v[i]) = a.deqSize
  /\ Len(Last(a.v)) <= a.deqSize
  /\ Last(a.v) = <<>> => Len(a.v) = 1

(* The arrays of connected replicas and the server stay as operator[] and  *)
(* the iterators need them, and none of the calls State::apply leads to    *)
(* throws, whatever operations come from the others.                       *)
ArraysSound == \A c \in {0} \union P!Connected : Sound(arrays[c])

(* The program's own comparison, by operator[] from deque to deque, finds  *)
(* all replicas equal after an update, though each moved its elements      *)
(* through its deques in another order (checkStates).                      *)
StatesEqual ==
  accum = <<>> => \A c \in P!Connected : StateEq(arrays[0], arrays[c])

(* What the system does with arrays is what it does with sequences.        *)
ImplementsClientServer == P!Spec
=============================================================================
