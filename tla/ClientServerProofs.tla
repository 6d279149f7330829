------------------------- MODULE ClientServerProofs -------------------------
(***************************************************************************)
(* ClientServer and the loops that drive it, for any number of clients and *)
(* any values of the bounds: first what holds however the classes are      *)
(* used, then that all replicas converge, last that the loops use the      *)
(* classes only as they allow.                                             *)
(***************************************************************************)
EXTENDS TrivialClientServer, MergeProofs

LEMMA Constants ==
  /\ UMod \in Nat /\ Unsigned \subseteq Nat
  /\ NClients \in Unsigned /\ Client \subseteq Unsigned
  /\ InitSize \in Nat /\ MaxPack \in Nat
  /\ MaxOps \in Unsigned /\ MaxRounds \in Nat /\ MaxSessions \in Nat
<1>1. UMod \in Nat /\ UMod > 1 /\ Unsigned = 0 .. UMod - 1
  BY UModAssumption DEF Unsigned
<1>2. /\ NClients \in Unsigned /\ InitSize \in Unsigned /\ MaxPack \in Unsigned
      /\ MaxOps \in Unsigned /\ MaxRounds \in Unsigned /\ MaxSessions \in Unsigned
  BY ClientServerAssumption
<1> QED
  BY <1>1, <1>2 DEF Client

LEMMA NumberedType ==
  ASSUME NEW n \in Nat
  PROVE  Numbered(n) \in Seq(Value) /\ Len(Numbered(n)) = n
<1>1. \A i \in 1 .. n : (i - 1) % UMod \in Unsigned
  BY UModAssumption DEF Unsigned
<1>2. \A i \in 1 .. n : OldValue((i - 1) % UMod) \in Value
  BY <1>1, ClientServerAssumption
<1> QED
  BY <1>2 DEF Numbered

(* A signed pack consists of operations of its client, numbered on from    *)
(* the client's counter.                                                   *)
LEMMA SignedType ==
  ASSUME TypeOK, NEW c \in Client, NEW ops \in LocalOps(datas[c]),
         crev[c] + Len(ops) <= MaxOps
  PROVE  /\ Len(ops) \in Nat
         /\ Signed(c, ops) \in Seq(OpDescriptor)
         /\ Len(Signed(c, ops)) = Len(ops)
         /\ \A i \in 1 .. Len(ops) : /\ Signed(c, ops)[i].cid = c
                                     /\ Signed(c, ops)[i].rev = crev[c] + i - 1
<1>1. PICK k \in 0 .. MaxPack : ops \in [1 .. k -> LocalOp(datas[c])]
  BY DEF LocalOps
<1>2. k \in Nat /\ Len(ops) = k
  BY <1>1, Constants
<1>3. crev[c] \in 0 .. MaxOps /\ c \in Unsigned /\ MaxOps \in Unsigned
  BY Constants DEF TypeOK
<1>4. ASSUME NEW i \in 1 .. k
      PROVE  /\ crev[c] + i - 1 \in Unsigned
             /\ NewValue(c, crev[c] + i - 1) \in Value
             /\ ops[i].typ \in OpType
             /\ ops[i].pos \in Unsigned
  <2>1. crev[c] + i - 1 \in Unsigned
    BY <1>2, <1>3, UModAssumption DEF Unsigned
  <2>v. NewValue(c, crev[c] + i - 1) \in Value
    BY <2>1, ClientServerAssumption
  <2>2. ops[i] \in LocalOp(datas[c])
    BY <1>1
  <2>3. ops[i].typ \in OpType /\ ops[i].pos \in Unsigned
    BY <2>2 DEF LocalOp, OpType
  <2> QED
    BY <2>1, <2>3, <2>v
<1>5. ASSUME NEW i \in 1 .. k
      PROVE  MakeOp(ops[i].typ, ops[i].pos, NewValue(c, crev[c] + i - 1), c, crev[c] + i - 1)
               \in OpDescriptor
  BY <1>3, <1>4 DEF MakeOp, OpDescriptor
<1>6. Signed(c, ops) =
        [i \in 1 .. k |->
           MakeOp(ops[i].typ, ops[i].pos, NewValue(c, crev[c] + i - 1), c, crev[c] + i - 1)]
  BY <1>2 DEF Signed
<1>7. Signed(c, ops) \in Seq(OpDescriptor) /\ Len(Signed(c, ops)) = k
  BY <1>2, <1>5, <1>6
<1> QED
  BY <1>2, <1>6, <1>7 DEF MakeOp

(* State::apply(pack) and applyFromOthers leave an array.                  *)
LEMMA ApplyPackType ==
  ASSUME NEW doc \in Seq(Value), NEW src \in Seq(OpDescriptor)
  PROVE  ApplyPack(doc, src) \in Seq(Value)
<1>1. [doc |-> doc, pack |-> <<>>] \in Replica
  BY DEF Replica
<1>2. IntegrateAll([doc |-> doc, pack |-> <<>>], src, {}) \in Replica
  BY <1>1, IntegrateAllType
<1> QED
  BY <1>2 DEF ApplyPack, Replica

LEMMA ApplyFromOthersType ==
  ASSUME NEW doc \in Seq(Value), NEW src \in Seq(OpDescriptor),
         NEW own \in Seq(OpDescriptor), NEW c
  PROVE  ApplyFromOthers(c, doc, own, src) \in Seq(Value)
<1>1. [doc |-> doc, pack |-> own] \in Replica
  BY DEF Replica
<1>2. IntegrateAll([doc |-> doc, pack |-> own], src, {c}) \in Replica
  BY <1>1, IntegrateAllType
<1> QED
  BY <1>2 DEF ApplyFromOthers, Replica

-----------------------------------------------------------------------------
(* The types hold at the start, and every step keeps them.                *)
LEMMA InitTyped == Init => TypeOK
<1> SUFFICES ASSUME Init PROVE TypeOK
  OBVIOUS
<1>1. Numbered(InitSize) \in Seq(Value)
  BY Constants, NumberedType
<1>2. <<>> \in Seq(Value) /\ <<>> \in Seq(OpDescriptor)
  OBVIOUS
<1> QED
  BY <1>1, <1>2, Constants DEF Init, TypeOK, Client

LEMMA NextTyped == TypeOK /\ [Next]_vars => TypeOK'
<1> SUFFICES ASSUME TypeOK, [Next]_vars PROVE TypeOK'
  OBVIOUS
<1>1. CASE MayConnect /\ Connect
  <2>1. PICK c \in Client : c = connected + 1
    BY <1>1, Constants DEF TypeOK, MayConnect, Connect, Connecting, Clone, Client
  <2>2. /\ datas' = [datas EXCEPT ![c] = datas[0]]
        /\ servRev' = [servRev EXCEPT ![c] = rev]
        /\ crev' = [crev EXCEPT ![c] = 0]
        /\ applied' = [applied EXCEPT ![c] = <<>>]
        /\ UNCHANGED <<rev, accum, session>>
    BY <1>1, <2>1 DEF MayConnect, Connect, Connecting, Clone
  <2>3. datas' \in [0 .. NClients -> Seq(Value)]
    <3>1. datas[0] \in Seq(Value) /\ c \in 0 .. NClients
      BY Constants DEF TypeOK, Client
    <3> QED
      BY <2>2, <3>1 DEF TypeOK
  <2>4. stale' \subseteq 0 .. NClients
    <3>1. 0 .. connected \subseteq 0 .. NClients
      BY Constants DEF TypeOK
    <3> QED
      BY <1>1, <3>1 DEF MayConnect, Connect, Connecting, Clone
  <2>5. servRev' \in [Client -> 0 .. MaxRounds] /\ crev' \in [Client -> 0 .. MaxOps]
    <3>1. 0 \in 0 .. MaxOps
      BY Constants
    <3>2. servRev' \in [Client -> 0 .. MaxRounds]
      BY <2>2 DEF TypeOK
    <3>3. crev' \in [Client -> 0 .. MaxOps]
      BY <2>2, <3>1 DEF TypeOK
    <3> QED
      BY <3>2, <3>3
  <2>6. applied' \in [Client -> Seq(OpDescriptor)]
    BY <2>2 DEF TypeOK
  <2>7. connected' \in 0 .. NClients
    BY <1>1, <2>1 DEF MayConnect, Connect, Connecting, Clone, Client
  <2> QED
    BY <2>2, <2>3, <2>4, <2>5, <2>6, <2>7 DEF TypeOK
<1>2. ASSUME NEW c \in Connected, NEW ops \in LocalOps(datas[c]), MakeLocalOps(c, ops)
      PROVE  TypeOK'
  <2> DEFINE pack == Signed(c, ops)
  <2>1. c \in Client /\ c \in 0 .. NClients
    BY Constants DEF TypeOK, Connected, Client
  <2>2. crev[c] + Len(ops) <= MaxOps
    BY <1>2 DEF MakeLocalOps, Pushing
  <2>3. pack \in Seq(OpDescriptor) /\ Len(ops) \in Nat
    BY <2>1, <2>2, SignedType
  <2> HIDE DEF pack
  <2>4. /\ crev' = [crev EXCEPT ![c] = @ + Len(ops)]
        /\ datas' = [datas EXCEPT ![c] = ApplyPack(@, pack)]
        /\ accum' = accum \o pack
        /\ applied' = [applied EXCEPT ![c] = pack]
        /\ UNCHANGED <<connected, rev, servRev, stale, session>>
    BY <1>2 DEF MakeLocalOps, Pushing, Kept, pack
  <2>5. crev' \in [Client -> 0 .. MaxOps]
    BY <2>1, <2>2, <2>3, <2>4, Constants DEF TypeOK
  <2>6. datas' \in [0 .. NClients -> Seq(Value)]
    <3>1. ApplyPack(datas[c], pack) \in Seq(Value)
      BY <2>1, <2>3, ApplyPackType DEF TypeOK
    <3> QED
      BY <2>1, <2>4, <3>1 DEF TypeOK
  <2>7. accum' \in Seq(OpDescriptor)
    BY <2>3, <2>4, ConcatProperties DEF TypeOK
  <2>8. applied' \in [Client -> Seq(OpDescriptor)]
    BY <2>3, <2>4 DEF TypeOK
  <2> QED
    BY <2>4, <2>5, <2>6, <2>7, <2>8 DEF TypeOK
<1>3. CASE Update
  <2>1. 0 \in 0 .. NClients /\ Client \subseteq 0 .. NClients /\ Connected \subseteq Client
    BY Constants DEF TypeOK, Connected, Client
  <2>2. ASSUME NEW c \in 0 .. NClients PROVE datas'[c] \in Seq(Value)
    <3>1. CASE c = 0
      <4>1. datas[0] \in Seq(Value) /\ accum \in Seq(OpDescriptor) /\ <<>> \in Seq(OpDescriptor)
        BY <2>1 DEF TypeOK
      <4>2. ApplyFromOthers(0, datas[0], <<>>, accum) \in Seq(Value)
        BY <4>1, ApplyFromOthersType
      <4>3. datas'[0] = ApplyFromOthers(0, datas[0], <<>>, accum)
        BY <1>3, <2>1 DEF Update, Updating, Connected
      <4> QED
        BY <3>1, <4>2, <4>3
    <3>2. CASE c \in Connected
      <4>1. ApplyFromOthers(c, datas[c], applied[c], accum) \in Seq(Value)
        BY <2>1, <3>2, ApplyFromOthersType DEF TypeOK
      <4>2. c # 0
        BY <3>2 DEF Connected
      <4> QED
        BY <1>3, <3>2, <4>1, <4>2 DEF Update, Updating
    <3>3. CASE c \notin Connected /\ c # 0
      BY <1>3, <3>3 DEF TypeOK, Update, Updating
    <3> QED
      BY <3>1, <3>2, <3>3
  <2>3. datas' \in [0 .. NClients -> Seq(Value)]
    BY <1>3, <2>2 DEF Update, Updating
  <2>4. rev' \in 0 .. MaxRounds
    BY <1>3, Constants DEF TypeOK, Update, Updating
  <2>5. servRev' \in [Client -> 0 .. MaxRounds]
    BY <1>3, <2>4 DEF TypeOK, Update, Updating
  <2>6. applied' \in [Client -> Seq(OpDescriptor)] /\ accum' \in Seq(OpDescriptor)
    BY <1>3 DEF TypeOK, Update, Updating
  <2> QED
    BY <1>3, <2>3, <2>4, <2>5, <2>6 DEF TypeOK, Update, Updating
<1>4. CASE Reset
  <2>1. Numbered(Len(datas[0])) \in Seq(Value)
    <3>1. datas[0] \in Seq(Value)
      BY Constants DEF TypeOK
    <3> QED
      BY <3>1, NumberedType
  <2>2. datas' \in [0 .. NClients -> Seq(Value)]
    <3>1. <<>> \in Seq(Value)
      OBVIOUS
    <3> QED
      BY <1>4, <2>1, <3>1 DEF Reset, Resetting
  <2>3. /\ servRev' \in [Client -> 0 .. MaxRounds]
        /\ crev' \in [Client -> 0 .. MaxOps]
        /\ applied' \in [Client -> Seq(OpDescriptor)]
    BY <1>4, Constants DEF Reset, Resetting
  <2>4. session' \in 0 .. MaxSessions /\ connected' \in 0 .. NClients /\ rev' \in 0 .. MaxRounds
    BY <1>4, Constants DEF TypeOK, Reset, Resetting
  <2> QED
    BY <1>4, <2>2, <2>3, <2>4 DEF TypeOK, Reset, Resetting
<1>5. CASE UNCHANGED vars
  BY <1>5 DEF TypeOK, vars
<1> QED
  BY <1>1, <1>2, <1>3, <1>4, <1>5 DEF Next

(* Type correctness: whatever is pushed and in whichever order, the        *)
(* variables hold what their declarations say.                             *)
THEOREM TypeCorrect == Spec => []TypeOK
  BY InitTyped, NextTyped, PTL DEF Spec

-----------------------------------------------------------------------------
(* The assertion of Server::push holds at every push: no client ever       *)
(* misses an update.                                                       *)
THEOREM PushesInSync == Spec => []PushInSync
<1>1. Init => PushInSync
  BY DEF Init, PushInSync, Connected
<1>2. TypeOK /\ PushInSync /\ [Next]_vars => PushInSync'
  <2> SUFFICES ASSUME TypeOK, PushInSync, [Next]_vars, NEW d \in Connected'
               PROVE  servRev'[d] = rev'
    BY DEF PushInSync
  <2>1. CASE MayConnect /\ Connect
    <3>1. PICK c \in Client : c = connected + 1
      BY <2>1, Constants DEF TypeOK, MayConnect, Connect, Connecting, Clone, Client
    <3>2. connected' = c /\ servRev' = [servRev EXCEPT ![c] = rev] /\ rev' = rev
      BY <2>1, <3>1 DEF MayConnect, Connect, Connecting, Clone
    <3>3. d = c \/ d \in Connected
      BY <3>1, <3>2 DEF TypeOK, Connected
    <3>4. d \in Connected => d # c /\ d \in Client
      BY <3>1, Constants DEF TypeOK, Connected, Client
    <3> QED
      BY <3>2, <3>3, <3>4 DEF TypeOK, PushInSync
  <2>2. ASSUME NEW c \in Connected, NEW ops \in LocalOps(datas[c]), MakeLocalOps(c, ops)
        PROVE  servRev'[d] = rev'
    BY <2>2 DEF MakeLocalOps, Pushing, PushInSync, Connected
  <2>3. CASE Update
    <3>1. d \in Connected /\ d \in Client
      BY <2>3, Constants DEF TypeOK, Update, Updating, Connected, Client
    <3> QED
      BY <2>3, <3>1 DEF Update, Updating
  <2>4. CASE Reset
    BY <2>4 DEF Reset, Resetting, Connected
  <2>5. CASE UNCHANGED vars
    BY <2>5 DEF vars, PushInSync, Connected
  <2> QED
    BY <2>1, <2>2, <2>3, <2>4, <2>5 DEF Next
<1> QED
  BY <1>1, <1>2, TypeCorrect, PTL DEF Spec

(* As many places are reserved as are filled: no pointer into the owner's  *)
(* vectors dangles.                                                        *)
THEOREM PointersStayValid == Spec => []PointersValid
<1>1. Init => PointersValid
  BY DEF Init, PointersValid
<1>2. TypeOK /\ PointersValid /\ [Next]_vars => PointersValid'
  <2> SUFFICES ASSUME TypeOK, PointersValid, [Next]_vars PROVE PointersValid'
    OBVIOUS
  <2>1. CASE MayConnect /\ Connect
    <3>1. connected \in Nat /\ NClients \in Nat /\ connected < NClients
      BY <2>1, Constants DEF TypeOK, MayConnect, Connect, Connecting, Clone
    <3>2. ~ ((connected + 1) + 1 > ReservedDatas \/ connected + 1 > ReservedClients)
      BY <3>1 DEF ReservedDatas, ReservedClients
    <3> QED
      BY <2>1, <3>2 DEF MayConnect, Connect, Connecting, Clone, PointersValid
  <2>2. ASSUME NEW c \in Connected, NEW ops \in LocalOps(datas[c]), MakeLocalOps(c, ops)
        PROVE  PointersValid'
    BY <2>2 DEF MakeLocalOps, Pushing, PointersValid
  <2>3. CASE Update
    BY <2>3 DEF Update, Updating, PointersValid
  <2>4. CASE Reset
    BY <2>4 DEF Reset, Resetting, PointersValid
  <2>5. CASE UNCHANGED vars
    BY <2>5 DEF vars, PointersValid
  <2> QED
    BY <2>1, <2>2, <2>3, <2>4, <2>5 DEF Next
<1> QED
  BY <1>1, <1>2, TypeCorrect, PTL DEF Spec

-----------------------------------------------------------------------------
(* OwnOpsKept is not inductive: that a client which pushes, or has just    *)
(* connected, has nothing in accum, and that the names it gives are new,   *)
(* follows from every name in accum being older than its client's counter. *)
AccumNumbered ==
  \A i \in 1 .. Len(accum) :
    accum[i].cid \in Connected /\ accum[i].rev < crev[accum[i].cid]

OwnInv == OwnOpsKept /\ AccumNumbered

LEMMA OwnInvInit == Init => OwnInv
<1> SUFFICES ASSUME Init PROVE OwnInv
  OBVIOUS
<1>1. accum = <<>> /\ Range(accum) = {} /\ \A c \in Client : applied[c] = <<>>
  BY DEF Init, Range
<1>2. Len(accum) = 0
  BY <1>1
<1> QED
  BY <1>1, <1>2 DEF OwnInv, OwnOpsKept, AccumNumbered, Range

LEMMA OwnInvConnect ==
  ASSUME TypeOK, OwnInv, MayConnect, Connect
  PROVE  OwnInv'
<1>1. PICK c \in Client : c = connected + 1
  BY Constants DEF TypeOK, MayConnect, Connect, Connecting, Clone, Client
<1>2. /\ connected' = c
      /\ crev' = [crev EXCEPT ![c] = 0]
      /\ applied' = [applied EXCEPT ![c] = <<>>]
      /\ accum' = accum
  BY <1>1 DEF MayConnect, Connect, Connecting, Clone
<1>3. Connected \subseteq Connected' /\ c \notin Connected /\ Connected \subseteq Client
  BY <1>1, <1>2, Constants DEF TypeOK, Connected, Client
<1>4. ASSUME NEW i \in 1 .. Len(accum) PROVE accum[i].cid # c
  BY <1>3 DEF OwnInv, AccumNumbered
<1>5. AccumNumbered'
  BY <1>2, <1>3, <1>4 DEF OwnInv, AccumNumbered, TypeOK
<1>6. Range(accum) = {accum[i] : i \in 1 .. Len(accum)}
  BY RangeEquality DEF TypeOK
<1>7. ASSUME NEW d \in Client
      PROVE  Range(applied'[d]) = {op \in Range(accum') : op.cid = d}
  <2>1. CASE d = c
    <3>1. applied'[d] = <<>>
      BY <1>2, <2>1 DEF TypeOK
    <3>2. Range(applied'[d]) = {}
      BY <3>1 DEF Range
    <3> QED
      BY <1>2, <1>4, <1>6, <2>1, <3>2
  <2>2. CASE d # c
    BY <1>2, <2>2 DEF TypeOK, OwnInv, OwnOpsKept
  <2> QED
    BY <2>1, <2>2
<1> QED
  BY <1>2, <1>5, <1>7 DEF OwnInv, OwnOpsKept

LEMMA OwnInvMakeLocalOps ==
  ASSUME TypeOK, OwnInv, NEW c \in Connected, MayPush(c),
         NEW ops \in LocalOps(datas[c]), MakeLocalOps(c, ops)
  PROVE  OwnInv'
<1> DEFINE pack == Signed(c, ops)
           n == Len(accum)
<1>1. c \in Client /\ Connected \subseteq Client
  BY Constants DEF TypeOK, Connected, Client
<1>2. crev[c] + Len(ops) <= MaxOps
  BY DEF MakeLocalOps, Pushing
<1>3. /\ pack \in Seq(OpDescriptor)
      /\ Len(pack) \in Nat /\ Len(ops) = Len(pack)
      /\ \A i \in 1 .. Len(pack) : pack[i].cid = c /\ pack[i].rev = crev[c] + i - 1
  BY <1>1, <1>2, SignedType
<1> HIDE DEF pack
<1>4. /\ crev' = [crev EXCEPT ![c] = @ + Len(pack)]
      /\ accum' = accum \o pack
      /\ applied' = [applied EXCEPT ![c] = pack]
      /\ connected' = connected
  BY <1>3 DEF MakeLocalOps, Pushing, Kept, pack
<1>5. n \in Nat /\ accum \in Seq(OpDescriptor)
  BY DEF TypeOK
<1>6. /\ Len(accum') = n + Len(pack)
      /\ \A i \in 1 .. n : accum'[i] = accum[i]
      /\ \A i \in n + 1 .. n + Len(pack) : accum'[i] = pack[i - n] /\ i - n \in 1 .. Len(pack)
  BY <1>3, <1>4, <1>5, ConcatProperties
<1>7. Range(accum) = {accum[i] : i \in 1 .. n} /\ Range(pack) = {pack[i] : i \in 1 .. Len(pack)}
  BY <1>3, <1>5, RangeEquality
<1>8. Range(accum') = Range(accum) \union Range(pack)
  BY <1>3, <1>4, <1>5, RangeConcatenation
<1>9. \A i \in 1 .. n : accum[i].cid # c
  <2>1. Range(applied[c]) = {}
    BY DEF MayPush, Range
  <2> QED
    BY <1>1, <1>7, <2>1 DEF OwnInv, OwnOpsKept
<1>10. AccumNumbered'
  <2> SUFFICES ASSUME NEW i \in 1 .. Len(accum')
               PROVE  accum'[i].cid \in Connected /\ accum'[i].rev < crev'[accum'[i].cid]
    BY <1>4 DEF AccumNumbered, Connected
  <2>1. CASE i \in 1 .. n
    <3>1. accum[i].cid \in Connected /\ accum[i].rev < crev[accum[i].cid] /\ accum[i].cid # c
      BY <1>9, <2>1 DEF OwnInv, AccumNumbered
    <3> QED
      BY <1>1, <1>4, <1>6, <2>1, <3>1 DEF TypeOK
  <2>2. CASE i \in n + 1 .. n + Len(pack)
    <3>1. accum'[i].cid = c /\ accum'[i].rev = crev[c] + (i - n) - 1
      BY <1>3, <1>6, <2>2
    <3>2. crev'[c] = crev[c] + Len(pack) /\ crev[c] \in Nat
      BY <1>1, <1>4, Constants DEF TypeOK
    <3> QED
      BY <1>3, <1>5, <2>2, <3>1, <3>2
  <2> QED
    BY <1>3, <1>5, <1>6, <2>1, <2>2
<1>11. ASSUME NEW d \in Client
       PROVE  Range(applied'[d]) = {op \in Range(accum') : op.cid = d}
  <2>1. CASE d = c
    <3>1. applied'[d] = pack
      BY <1>4, <2>1 DEF TypeOK
    <3>2. \A op \in Range(accum) : op.cid # c
      BY <1>7, <1>9
    <3>3. \A op \in Range(pack) : op.cid = c
      BY <1>3, <1>7
    <3> QED
      BY <1>8, <2>1, <3>1, <3>2, <3>3
  <2>2. CASE d # c
    <3>1. applied'[d] = applied[d]
      BY <1>4, <2>2 DEF TypeOK
    <3>2. \A op \in Range(pack) : op.cid # d
      BY <1>3, <1>7, <2>2
    <3> QED
      BY <1>8, <3>1, <3>2 DEF OwnInv, OwnOpsKept
  <2> QED
    BY <2>1, <2>2
<1>12. ASSUME NEW i \in 1 .. Len(accum'), NEW j \in 1 .. Len(accum'),
              accum'[i].cid = accum'[j].cid, accum'[i].rev = accum'[j].rev
       PROVE  i = j
  <2>1. ASSUME NEW k \in n + 1 .. n + Len(pack)
        PROVE  accum'[k].cid = c /\ accum'[k].rev = crev[c] + (k - n) - 1
    BY <1>3, <1>6
  <2>2. CASE i \in 1 .. n /\ j \in 1 .. n
    BY <1>6, <1>12, <2>2 DEF OwnInv, OwnOpsKept
  <2>3. CASE i \in n + 1 .. n + Len(pack) /\ j \in n + 1 .. n + Len(pack)
    <3>1. crev[c] \in Nat
      BY <1>1, Constants DEF TypeOK
    <3>2. crev[c] + (i - n) - 1 = crev[c] + (j - n) - 1
      BY <1>12, <2>1, <2>3
    <3> QED
      BY <1>3, <1>5, <2>3, <3>1, <3>2
  <2>4. CASE i \in 1 .. n /\ j \in n + 1 .. n + Len(pack)
    BY <1>6, <1>9, <1>12, <2>1, <2>4
  <2>5. CASE j \in 1 .. n /\ i \in n + 1 .. n + Len(pack)
    BY <1>6, <1>9, <1>12, <2>1, <2>5
  <2> QED
    BY <1>3, <1>5, <1>6, <2>2, <2>3, <2>4, <2>5
<1> QED
  BY <1>10, <1>11, <1>12 DEF OwnInv, OwnOpsKept

THEOREM OwnInvariance == Spec => []OwnInv
<1>1. Init => OwnInv
  BY OwnInvInit
<1>2. TypeOK /\ OwnInv /\ [Next]_vars => OwnInv'
  <2> SUFFICES ASSUME TypeOK, OwnInv, [Next]_vars PROVE OwnInv'
    OBVIOUS
  <2>1. CASE MayConnect /\ Connect
    BY <2>1, OwnInvConnect
  <2>2. ASSUME NEW c \in Connected, MayPush(c),
               NEW ops \in LocalOps(datas[c]), MakeLocalOps(c, ops)
        PROVE  OwnInv'
    BY <2>2, OwnInvMakeLocalOps
  <2>3. ASSUME accum' = <<>>, \A c \in Client : applied'[c] = <<>> PROVE OwnInv'
    <3>1. Len(accum') = 0 /\ Range(accum') = {}
      BY <2>3 DEF Range
    <3>2. \A c \in Client : Range(applied'[c]) = {}
      BY <2>3 DEF Range
    <3> QED
      BY <3>1, <3>2 DEF OwnInv, OwnOpsKept, AccumNumbered
  <2>4. CASE Update
    <3>1. ASSUME NEW c \in Client PROVE applied'[c] = <<>>
      <4>1. CASE c \in Connected
        BY <2>4, <4>1 DEF Update, Updating
      <4>2. CASE c \notin Connected
        <5>1. {op \in Range(accum) : op.cid = c} = {}
          <6>1. Range(accum) = {accum[i] : i \in 1 .. Len(accum)}
            BY RangeEquality DEF TypeOK
          <6> QED
            BY <4>2, <6>1 DEF OwnInv, AccumNumbered
        <5>2. Range(applied[c]) = {} /\ applied[c] \in Seq(OpDescriptor)
          BY <5>1 DEF OwnInv, OwnOpsKept, TypeOK
        <5>3. applied[c] = <<>>
          <6>1. Range(applied[c]) = {applied[c][i] : i \in 1 .. Len(applied[c])}
            BY <5>2, RangeEquality
          <6>2. 1 \notin 1 .. Len(applied[c])
            BY <5>2, <6>1
          <6>3. Len(applied[c]) = 0
            BY <5>2, <6>2
          <6> QED
            BY <5>2, <6>3
        <5> QED
          BY <2>4, <4>2, <5>3 DEF Update, Updating
      <4> QED
        BY <4>1, <4>2
    <3> QED
      BY <2>3, <2>4, <3>1 DEF Update, Updating
  <2>5. CASE MayReset /\ Reset
    BY <2>3, <2>5 DEF MayReset, Reset, Resetting
  <2>6. CASE UNCHANGED vars
    BY <2>6 DEF vars, OwnInv, OwnOpsKept, AccumNumbered, Connected
  <2> QED
    BY <2>1, <2>2, <2>4, <2>5, <2>6 DEF Next
<1> QED
  BY <1>1, <1>2, TypeCorrect, PTL DEF Spec

(* What updateFromServer skips for a client are exactly the operations the *)
(* client keeps, and no operation is in an update twice.                   *)
THEOREM OwnOpsStayKept == Spec => []OwnOpsKept
BY OwnInvariance, PTL DEF OwnInv

-----------------------------------------------------------------------------
(***************************************************************************)
(* All replicas converge, provided packs hold no duplications: they are    *)
(* filtered, as in the tests, or of one operation at most.                 *)
(***************************************************************************)
NoDuplications == Filtered \/ MaxPack <= 1

(* Those not connected have done nothing.                                  *)
Idle == \A c \in Client \ Connected : crev[c] = 0 /\ applied[c] = <<>>

(* What a replica has when an update comes: the client's own operations    *)
(* merged into the server's document, in a pack that stands for them.      *)
Own(c)  == IF c = 0 THEN {} ELSE Range(applied[c])
Held(c) == [doc |-> datas[c], pack |-> IF c = 0 THEN <<>> ELSE applied[c]]
Views == \A c \in 0 .. connected : Replicates(datas[0], Own(c), Held(c))

(* What was pushed was made on the server's document, and each client's    *)
(* operations come in the order in which it made them.                     *)
Serial == \A i \in 1 .. Len(accum) : MadeOn(datas[0], accum[i], Others(accum, i - 1, {}))

(* The array grows by no more than the operations made.                    *)
Made == {x \in Client \X (0 .. MaxOps - 1) : x[2] < crev[x[1]]}
Room == Len(datas[0]) + Len(accum)
          <= InitSize + session * (NClients * MaxOps) + Cardinality(Made)

(* None of them is inductive alone: an update needs the clients' views to  *)
(* be merges of what they keep, a view needs the others' operations to be  *)
(* made on the same document, and both need room below UMod.               *)
IInv == TypeOK /\ OwnInv /\ Idle /\ Views /\ Serial /\ Room

-----------------------------------------------------------------------------
(* Nothing wraps around: the array and the operations to come have room.   *)
LEMMA RangeCounted ==
  ASSUME NEW S, NEW s \in Seq(S)
  PROVE  /\ Range(s) = {s[i] : i \in 1 .. Len(s)}
         /\ Range(s) \in SUBSET S
         /\ IsFiniteSet(Range(s)) /\ Cardinality(Range(s)) <= Len(s)
<1> DEFINE P == 1 .. Len(s)
           R == Range(s)
           f == [i \in P |-> s[i]]
<1>1. R = {s[i] : i \in P} /\ Len(s) \in Nat
  BY RangeEquality
<1>2. R \in SUBSET S
  BY <1>1
<1>3. IsFiniteSet(P) /\ Cardinality(P) = Len(s)
  BY <1>1, FS_Interval
<1>4. f \in Surjection(P, R)
  BY <1>1 DEF Surjection
<1> HIDE DEF f, P, R
<1>5. IsFiniteSet(R) /\ Cardinality(R) <= Cardinality(P)
  BY <1>3, <1>4, FS_Surjection
<1> QED
  BY <1>1, <1>2, <1>3, <1>5 DEF P, R

LEMMA MadeCounted ==
  /\ IsFiniteSet(Client \X (0 .. MaxOps - 1))
  /\ Cardinality(Client \X (0 .. MaxOps - 1)) = NClients * MaxOps
<1>1. NClients \in Nat /\ MaxOps \in Nat
  BY Constants
<1>2. IsFiniteSet(Client) /\ Cardinality(Client) = NClients
  BY <1>1, FS_Interval DEF Client
<1>3. IsFiniteSet(0 .. MaxOps - 1) /\ Cardinality(0 .. MaxOps - 1) = MaxOps
  BY <1>1, FS_Interval
<1> QED
  BY <1>2, <1>3, FS_Product

LEMMA MadeBounded ==
  /\ IsFiniteSet(Made)
  /\ Cardinality(Made) \in Nat
  /\ Cardinality(Made) <= NClients * MaxOps
<1>1. Made \subseteq Client \X (0 .. MaxOps - 1)
  BY DEF Made
<1>2. IsFiniteSet(Made) /\ Cardinality(Made) <= NClients * MaxOps
  BY <1>1, MadeCounted, FS_Subset
<1> QED
  BY <1>2, FS_CardinalityType

LEMMA RoomLeft ==
  ASSUME TypeOK, Room
  PROVE  Len(datas[0]) + Len(accum) < UMod
<1> DEFINE k == NClients * MaxOps
<1>1. /\ k \in Nat /\ session \in Nat /\ MaxSessions \in Nat /\ session <= MaxSessions
      /\ InitSize \in Nat /\ UMod \in Nat
      /\ InitSize + k * (MaxSessions + 1) < UMod
  BY Constants, ClientServerAssumption DEF TypeOK
<1>2. Len(datas[0]) \in Nat /\ Len(accum) \in Nat
  BY Constants DEF TypeOK
<1>3. Len(datas[0]) + Len(accum) <= InitSize + session * k + k
  BY <1>1, <1>2, MadeBounded DEF Room
<1> HIDE DEF k
<1>4. session * k + k <= k * (MaxSessions + 1)
  BY <1>1
<1> QED
  BY <1>1, <1>2, <1>3, <1>4

-----------------------------------------------------------------------------
(* What an update consists of.                                             *)
LEMMA AccumFacts ==
  ASSUME IInv
  PROVE  /\ datas \in [0 .. NClients -> Seq(Value)]
         /\ datas[0] \in Seq(Value)
         /\ accum \in Seq(OpDescriptor)
         /\ Range(accum) = {accum[i] : i \in 1 .. Len(accum)}
         /\ Range(accum) \in SUBSET OpDescriptor
         /\ IsFiniteSet(Range(accum))
         /\ Len(datas[0]) + Cardinality(Range(accum)) < UMod
         /\ Named(Range(accum))
         /\ connected \in 0 .. NClients /\ Connected \subseteq Client /\ 0 \notin Client
<1>1. datas \in [0 .. NClients -> Seq(Value)] /\ accum \in Seq(OpDescriptor)
      /\ connected \in 0 .. NClients
  BY DEF IInv, TypeOK
<1>2. datas[0] \in Seq(Value)
  BY <1>1, Constants
<1>3. /\ Range(accum) = {accum[i] : i \in 1 .. Len(accum)}
      /\ Range(accum) \in SUBSET OpDescriptor
      /\ IsFiniteSet(Range(accum)) /\ Cardinality(Range(accum)) <= Len(accum)
  BY <1>1, RangeCounted
<1>4. Len(datas[0]) + Cardinality(Range(accum)) < UMod
  <2>1. /\ Len(datas[0]) \in Nat /\ Len(accum) \in Nat /\ Cardinality(Range(accum)) \in Nat
        /\ UMod \in Nat
    BY <1>1, <1>2, <1>3, FS_CardinalityType, Constants
  <2>2. Len(datas[0]) + Len(accum) < UMod
    BY RoomLeft DEF IInv
  <2> QED
    BY <1>3, <2>1, <2>2
<1>5. Named(Range(accum))
  BY <1>3 DEF IInv, OwnInv, OwnOpsKept, Named
<1>6. Connected \subseteq Client /\ 0 \notin Client
  BY <1>1, Constants DEF Connected, Client
<1> QED
  BY <1>1, <1>2, <1>3, <1>4, <1>5, <1>6

LEMMA OwnFacts ==
  ASSUME IInv, NEW c \in 0 .. connected
  PROVE  /\ Own(c) = {op \in Range(accum) : op.cid = c}
         /\ Own(c) \union Others(accum, Len(accum), {c}) = Range(accum)
<1>1. Own(c) = {op \in Range(accum) : op.cid = c}
  <2>1. CASE c = 0
    <3>1. \A i \in 1 .. Len(accum) : accum[i].cid # 0
      BY AccumFacts DEF IInv, OwnInv, AccumNumbered
    <3> QED
      BY <2>1, <3>1, AccumFacts DEF Own
  <2>2. CASE c # 0
    <3>1. c \in Client
      BY <2>2, AccumFacts, Constants DEF Client
    <3> QED
      BY <2>2, <3>1 DEF Own, IInv, OwnInv, OwnOpsKept
  <2> QED
    BY <2>1, <2>2
<1>2. Range(accum) = {accum[i] : i \in 1 .. Len(accum)}
  BY AccumFacts
<1> QED
  BY <1>1, <1>2 DEF Others

(* A replica in the middle of an update (Client::updateFromServer,         *)
(* Server::update): it has merged its own operations and those of the      *)
(* others so far.                                                          *)
LEMMA Updated ==
  ASSUME IInv, NEW c \in 0 .. connected, NEW k \in 0 .. Len(accum)
  PROVE  Replicates(datas[0], Own(c) \union Others(accum, k, {c}),
                    IntegrateAll(Held(c), SubSeq(accum, 1, k), {c}))
<1> DEFINE src == SubSeq(accum, 1, k)
           all == Own(c) \union Others(accum, k, {c})
           D == datas[0]
<1>1. /\ D \in Seq(Value) /\ accum \in Seq(OpDescriptor)
      /\ k \in Nat /\ Len(accum) \in Nat /\ Len(D) \in Nat
  BY AccumFacts
<1>2. src \in Seq(OpDescriptor) /\ Len(src) = k /\ \A i \in 1 .. k : src[i] = accum[i]
  <2>1. \A i \in 1 .. k : accum[i] \in OpDescriptor
    BY <1>1
  <2>2. /\ src \in Seq(OpDescriptor)
        /\ Len(src) = IF 1 <= k THEN k - 1 + 1 ELSE 0
    BY <1>1, <2>1, SubSeqProperties
  <2>3. \A i \in 1 .. k - 1 + 1 : src[i] = accum[1 + i - 1]
    BY <1>1, <2>1, SubSeqProperties
  <2> HIDE DEF src
  <2> QED
    BY <1>1, <2>2, <2>3
<1> HIDE DEF src
<1>3. \A i \in 0 .. k : Others(src, i, {c}) = Others(accum, i, {c})
  <2>1. ASSUME NEW i \in 0 .. k PROVE Others(src, i, {c}) = Others(accum, i, {c})
    <3>1. \A j \in 1 .. i : src[j] = accum[j]
      BY <1>1, <1>2
    <3>2. {j \in 1 .. i : src[j].cid \notin {c}} = {j \in 1 .. i : accum[j].cid \notin {c}}
      BY <3>1
    <3> QED
      BY <3>1, <3>2 DEF Others
  <2> QED
    BY <2>1
<1>4. Own(c) = {op \in Range(accum) : op.cid = c} /\ all \subseteq Range(accum)
  <2>1. Own(c) = {op \in Range(accum) : op.cid = c}
    BY OwnFacts
  <2>2. Others(accum, k, {c}) \subseteq Range(accum)
    BY <1>1, AccumFacts DEF Others
  <2> QED
    BY <2>1, <2>2
<1>5. Named(all)
  BY <1>4, AccumFacts DEF Named
<1>6. IsFiniteSet(all) /\ Len(D) + Cardinality(all) < UMod
  <2> HIDE DEF all
  <2>1. IsFiniteSet(all) /\ Cardinality(all) <= Cardinality(Range(accum))
    BY <1>4, AccumFacts, FS_Subset
  <2>2. Cardinality(all) \in Nat /\ Cardinality(Range(accum)) \in Nat /\ UMod \in Nat
    BY <2>1, AccumFacts, FS_CardinalityType, Constants
  <2>3. Len(D) + Cardinality(Range(accum)) < UMod
    BY AccumFacts
  <2> HIDE DEF D
  <2> QED
    BY <1>1, <2>1, <2>2, <2>3
<1>7. ASSUME NEW i \in 1 .. k, src[i].cid \notin {c}
      PROVE  MadeOn(D, src[i], Own(c) \union Others(src, i - 1, {c}))
  <2>1. i \in 1 .. Len(accum) /\ src[i] = accum[i] /\ i - 1 \in 0 .. k
    BY <1>1, <1>2
  <2>2. MadeOn(D, accum[i], Others(accum, i - 1, {}))
    BY <2>1 DEF IInv, Serial
  <2>3. Others(accum, i - 1, {c}) \subseteq Others(accum, i - 1, {})
    BY DEF Others
  <2>4. \A e \in Own(c) : Earlier(e, accum[i])
    BY <1>4, <1>7, <2>1 DEF Earlier
  <2> HIDE DEF D
  <2> QED
    BY <1>3, <2>1, <2>2, <2>3, <2>4 DEF MadeOn
<1>8. MadeInTurn(D, Own(c), src, {c})
  <2>1. k \in 0 .. k
    BY <1>1
  <2> QED
    BY <1>2, <1>3, <1>5, <1>7, <2>1 DEF MadeInTurn
<1>9. all = Own(c) \union Others(src, Len(src), {c})
  <2>1. k \in 0 .. k
    BY <1>1
  <2> QED
    BY <1>2, <1>3, <2>1
<1>10. Replicates(D, Own(c), Held(c)) /\ Own(c) \in SUBSET OpDescriptor
  <2>1. Own(c) \in SUBSET OpDescriptor
    BY <1>4, AccumFacts
  <2> QED
    BY <2>1 DEF IInv, Views
<1> HIDE DEF all, D
<1>11. Replicates(D, all, IntegrateAll(Held(c), src, {c}))
  BY <1>1, <1>2, <1>6, <1>8, <1>9, <1>10, IntegrateAllMore
<1> QED
  BY <1>11 DEF all, D, src

-----------------------------------------------------------------------------
(* What a client signs (Client::makeLocalOps): the next operations of its  *)
(* own, made on the document it has.                                       *)
LEMMA SignedFields ==
  ASSUME TypeOK, NEW c \in Client, NEW ops \in LocalOps(datas[c]),
         crev[c] + Len(ops) <= MaxOps, NEW i \in 1 .. Len(ops)
  PROVE  /\ Signed(c, ops)[i] \in OpDescriptor
         /\ Signed(c, ops)[i].cid = c
         /\ Signed(c, ops)[i].rev = crev[c] + i - 1
         /\ Signed(c, ops)[i].typ = ops[i].typ
         /\ Signed(c, ops)[i].pos = ops[i].pos
         /\ Signed(c, ops)[i].posser = ops[i].pos
         /\ ops[i].typ \in {"insert", "remove", "update"}
         /\ ops[i].pos <= Len(datas[c])
         /\ ops[i].typ # "insert" => ops[i].pos < Len(datas[c])
<1>1. /\ Len(ops) \in Nat
      /\ Signed(c, ops) \in Seq(OpDescriptor)
      /\ Len(Signed(c, ops)) = Len(ops)
      /\ Signed(c, ops)[i].cid = c
      /\ Signed(c, ops)[i].rev = crev[c] + i - 1
  BY SignedType
<1>2. PICK k \in 0 .. MaxPack : ops \in [1 .. k -> LocalOp(datas[c])]
  BY DEF LocalOps
<1>3. ops[i] \in LocalOp(datas[c])
  <2>1. k \in Nat /\ Len(ops) = k
    BY <1>2, Constants
  <2> QED
    BY <1>2, <2>1
<1>4. /\ ops[i].typ \in {"insert", "remove", "update"}
      /\ ops[i].pos <= Len(datas[c])
      /\ ops[i].typ # "insert" => ops[i].pos < Len(datas[c])
  <2>1. datas[c] \in Seq(Value)
    BY Constants DEF TypeOK, Client
  <2>2. Len(datas[c]) \in Nat
    BY <2>1
  <2> QED
    BY <1>3, <2>2 DEF LocalOp
<1>5. Signed(c, ops)[i] =
        MakeOp(ops[i].typ, ops[i].pos, NewValue(c, crev[c] + i - 1), c, crev[c] + i - 1)
  BY DEF Signed
<1>6. /\ Signed(c, ops)[i].typ = ops[i].typ
      /\ Signed(c, ops)[i].pos = ops[i].pos
      /\ Signed(c, ops)[i].posser = ops[i].pos
  BY <1>5 DEF MakeOp
<1> QED
  BY <1>1, <1>4, <1>6

LEMMA SignedApart ==
  ASSUME NoDuplications, NEW doc, NEW ops \in LocalOps(doc), Len(ops) \in Nat,
         NEW i \in 1 .. Len(ops), NEW j \in 1 .. i - 1, ops[i].pos = ops[j].pos
  PROVE  ops[i].typ = "insert" /\ ops[j].typ = "insert"
<1>1. PICK k \in 0 .. MaxPack : ops \in [1 .. k -> LocalOp(doc)]
  BY DEF LocalOps
<1>2. k \in Nat /\ Len(ops) = k /\ MaxPack \in Nat /\ k <= MaxPack
  BY <1>1, Constants
<1>3. i > 1 /\ j \in 1 .. k /\ i \in 1 .. k
  BY <1>2
<1>4. Filtered
  BY <1>2, <1>3 DEF NoDuplications
<1> DEFINE before == SubSeq(ops, 1, i - 1)
<1>5. Len(before) = i - 1 /\ before[j] = ops[j]
  <2>1. \A m \in 1 .. i - 1 : ops[m] \in LocalOp(doc)
    BY <1>1, <1>2
  <2>2. Len(before) = IF 1 <= i - 1 THEN i - 1 - 1 + 1 ELSE 0
    BY <2>1, SubSeqProperties
  <2>3. \A m \in 1 .. i - 1 - 1 + 1 : before[m] = ops[1 + m - 1]
    BY <2>1, SubSeqProperties
  <2> HIDE DEF before
  <2> QED
    BY <1>3, <2>2, <2>3
<1>6. ~IsDuplication(ops[i], before)
  BY <1>4 DEF LocalOps
<1> HIDE DEF before
<1> QED
  BY <1>5, <1>6 DEF IsDuplication, SamePos

(* A pack goes past the others' operations as it was signed, although it   *)
(* was transformed when it was applied: without duplications it stands for *)
(* its operations.                                                         *)
LEMMA SignedStands ==
  ASSUME NoDuplications, IInv, NEW c \in Connected, MayPush(c),
         NEW ops \in LocalOps(datas[c]), crev[c] + Len(ops) <= MaxOps
  PROVE  LET pack == Signed(c, ops)
         IN  /\ datas[c] = datas[0]
             /\ pack \in Seq(OpDescriptor)
             /\ \A i \in 1 .. Len(pack) : MadeOn(datas[0], pack[i], Others(pack, i - 1, {}))
             /\ Named(Range(pack))
             /\ StandsFor(datas[0], Range(pack), pack)
<1> DEFINE pack == Signed(c, ops)
           n == Len(pack)
           D == datas[0]
<1>1. c \in Client /\ c \in 0 .. connected /\ c # 0 /\ TypeOK /\ D \in Seq(Value)
  BY AccumFacts, Constants DEF IInv, Connected, Client
<1>2. datas[c] = D
  <2>1. Own(c) = {} /\ Held(c).doc = datas[c]
    BY <1>1 DEF Own, Held, MayPush, Range
  <2>2. Replicates(D, Own(c), Held(c))
    BY <1>1 DEF IInv, Views
  <2> HIDE DEF D
  <2> QED
    BY <1>1, <2>1, <2>2, MergeOfNone DEF Replicates
<1>3. pack \in Seq(OpDescriptor) /\ Len(ops) \in Nat /\ n = Len(ops) /\ crev[c] \in Nat
  <2>1. crev[c] \in Nat
    BY <1>1, Constants DEF TypeOK
  <2>2. pack \in Seq(OpDescriptor) /\ Len(ops) \in Nat /\ n = Len(ops)
    BY <1>1, SignedType
  <2> QED
    BY <2>1, <2>2
<1>4. ASSUME NEW i \in 1 .. n
      PROVE  /\ pack[i] \in OpDescriptor /\ pack[i].cid = c /\ pack[i].rev = crev[c] + i - 1
             /\ pack[i].typ = ops[i].typ /\ pack[i].pos = ops[i].pos
             /\ pack[i].posser = pack[i].pos
             /\ pack[i].typ \in {"insert", "remove", "update"}
             /\ pack[i].pos <= Len(D)
             /\ pack[i].typ # "insert" => pack[i].pos < Len(D)
  <2> HIDE DEF D, pack, n
  <2> QED
    BY <1>1, <1>2, <1>3, SignedFields DEF pack
<1> HIDE DEF pack, n
<1>5. ASSUME NEW i \in 1 .. n PROVE MadeOn(D, pack[i], Others(pack, i - 1, {}))
  <2>1. ASSUME NEW j \in 1 .. i - 1 PROVE pack[j].rev < pack[i].rev
    <3>1. j \in 1 .. n
      BY <1>3 DEF n
    <3> QED
      BY <1>3, <1>4, <3>1
  <2>2. \A e \in Others(pack, i - 1, {}) : Earlier(e, pack[i])
    BY <2>1 DEF Others, Earlier
  <2> QED
    BY <1>4, <2>2 DEF MadeOn
<1>6. Range(pack) = {pack[i] : i \in 1 .. n} /\ Range(pack) = PackOps(pack, n)
  BY <1>3, RangeCounted DEF n, PackOps
<1>7. Named(Range(pack))
  <2>1. ASSUME NEW i \in 1 .. n, NEW j \in 1 .. n, pack[i].rev = pack[j].rev PROVE i = j
    BY <1>3, <1>4, <2>1
  <2> QED
    BY <1>6, <2>1 DEF Named
<1>8. NoRepeat(D, pack)
  <2>1. ASSUME NEW i \in 1 .. n, NEW j \in 1 .. i - 1
        PROVE  /\ pack[i].typ = "remove" /\ pack[j].typ = "remove" => pack[i].pos # pack[j].pos
               /\ NewKey(pack[i]) # NewKey(pack[j])
    <3>1. j \in 1 .. n /\ i \in 1 .. Len(ops)
      BY <1>3
    <3>2. pack[i].typ = "remove" /\ pack[j].typ = "remove" => pack[i].pos # pack[j].pos
      <4>1. ops[i].pos = ops[j].pos => ops[i].typ = "insert"
        BY <1>3, <3>1, SignedApart
      <4>2. pack[i].typ = ops[i].typ /\ pack[i].pos = ops[i].pos /\ pack[j].pos = ops[j].pos
        BY <1>4, <3>1
      <4> QED
        BY <4>1, <4>2
    <3>3. pack[i].rev # pack[j].rev
      BY <1>3, <1>4, <3>1
    <3>4. pack[i] \in OpDescriptor /\ pack[j] \in OpDescriptor
      BY <1>4, <3>1
    <3>5. NewKey(pack[i]) # NewKey(pack[j])
      BY <3>3, <3>4, OpFields, KeysCompared
    <3> QED
      BY <3>2, <3>5
  <2> QED
    BY <1>4, <2>1 DEF NoRepeat, n
<1>9. StandsFor(D, Range(pack), pack)
  <2>1. \A i \in 1 .. n : \E op \in Range(pack) :
          SameButMoved(pack[i], op) /\ pack[i].typ \in {op.typ, "nothing"}
    BY <1>6 DEF SameButMoved
  <2>2. \A u \in Range(pack) : u.typ = "update" => \E i \in 1 .. n :
          pack[i].typ = "update" /\ pack[i].pos = u.pos /\ pack[i].cid <= u.cid
    <3>1. \A i \in 1 .. n : pack[i].cid <= pack[i].cid
      BY <1>4, OpFields
    <3> QED
      BY <1>6, <3>1
  <2> QED
    BY <1>3, <1>6, <1>8, <2>1, <2>2 DEF StandsFor, n
<1> QED
  BY <1>2, <1>3, <1>5, <1>7, <1>9 DEF n, pack

-----------------------------------------------------------------------------
(* The steps: what IInv says of documents and packs is kept.               *)
DocInv == Idle /\ Views /\ Serial /\ Room

LEMMA DocInvInit == Init => DocInv
<1> SUFFICES ASSUME Init PROVE DocInv
  OBVIOUS
<1>1. /\ connected = 0 /\ accum = <<>> /\ Len(accum) = 0 /\ session = 0
      /\ crev = [c \in Client |-> 0] /\ applied = [c \in Client |-> <<>>]
      /\ datas[0] = Numbered(InitSize)
  BY Constants DEF Init
<1>2. datas[0] \in Seq(Value) /\ Len(datas[0]) = InitSize /\ InitSize \in Nat
  BY <1>1, NumberedType, Constants
<1>3. Idle
  BY <1>1 DEF Idle
<1>4. Views
  <2>1. Own(0) = {} /\ Held(0) = [doc |-> datas[0], pack |-> <<>>]
    BY DEF Own, Held
  <2>2. Replicates(datas[0], Own(0), Held(0))
    BY <1>2, <2>1, FreshReplica
  <2>3. \A c \in 0 .. connected : c = 0
    BY <1>1
  <2> QED
    BY <2>2, <2>3 DEF Views
<1>5. Serial
  BY <1>1 DEF Serial
<1>6. Room
  <2> DEFINE k == NClients * MaxOps
  <2>1. k \in Nat
    BY Constants
  <2> HIDE DEF k
  <2>2. session * k = 0
    BY <1>1, <2>1
  <2>3. Len(datas[0]) + Len(accum) <= InitSize + session * k + Cardinality(Made)
    BY <1>1, <1>2, <2>2, MadeBounded
  <2> QED
    BY <2>3 DEF Room, k
<1> QED
  BY <1>3, <1>4, <1>5, <1>6 DEF DocInv

LEMMA DocInvConnect ==
  ASSUME IInv, MayConnect, Connect
  PROVE  DocInv'
<1>1. PICK c \in Client : c = connected + 1
  BY Constants DEF IInv, TypeOK, MayConnect, Connect, Connecting, Clone, Client
<1>2. /\ connected' = c
      /\ datas' = [datas EXCEPT ![c] = datas[0]]
      /\ crev' = [crev EXCEPT ![c] = 0]
      /\ applied' = [applied EXCEPT ![c] = <<>>]
      /\ accum' = accum /\ session' = session
  BY <1>1 DEF MayConnect, Connect, Connecting, Clone
<1>3. /\ c \notin Connected /\ Connected' = Connected \union {c} /\ c # 0 /\ c \in 0 .. NClients
      /\ 0 .. connected' = (0 .. connected) \union {c}
      /\ connected \in Nat /\ 0 .. connected \subseteq 0 .. NClients
  <2>1. connected \in 0 .. NClients /\ NClients \in Nat /\ c \in 1 .. NClients
    BY Constants DEF IInv, TypeOK, Client
  <2> QED
    BY <1>1, <1>2, <2>1 DEF Connected
<1>4. crev[c] = 0 /\ applied[c] = <<>>
  BY <1>3 DEF IInv, Idle
<1>5. crev' = crev /\ applied' = applied
  BY <1>2, <1>4 DEF IInv, TypeOK
<1>6. datas'[0] = datas[0] /\ datas'[c] = datas[0] /\ datas[0] \in Seq(Value)
      /\ \A d \in 0 .. connected : datas'[d] = datas[d]
  BY <1>1, <1>2, <1>3, AccumFacts
<1>7. Idle'
  BY <1>3, <1>5 DEF IInv, Idle
<1>8. Views'
  <2>1. ASSUME NEW d \in 0 .. connected PROVE Replicates(datas[0], Own(d)', Held(d)')
    <3>1. Own(d)' = Own(d) /\ Held(d)' = Held(d)
      BY <1>5, <1>6 DEF Own, Held
    <3> QED
      BY <3>1 DEF IInv, Views
  <2>2. Replicates(datas[0], Own(c)', Held(c)')
    <3>1. Own(c)' = {} /\ Held(c)' = [doc |-> datas[0], pack |-> <<>>]
      BY <1>3, <1>4, <1>5, <1>6 DEF Own, Held, Range
    <3> QED
      BY <1>6, <3>1, FreshReplica
  <2>3. \A d \in 0 .. connected' : Replicates(datas'[0], Own(d)', Held(d)')
    BY <1>3, <1>6, <2>1, <2>2
  <2> QED
    BY <2>3 DEF Views
<1>9. Serial'
  BY <1>2, <1>6 DEF IInv, Serial
<1>10. Room'
  BY <1>2, <1>5, <1>6 DEF IInv, Room, Made
<1> QED
  BY <1>7, <1>8, <1>9, <1>10 DEF DocInv

(* Updates and resets leave nothing to be sent.                            *)
LEMMA FreshViews ==
  ASSUME datas'[0] \in Seq(Value), accum' = <<>>, applied' = [c \in Client |-> <<>>],
         connected' \in 0 .. NClients,
         \A c \in 1 .. connected' : datas'[c] = datas'[0]
  PROVE  Views' /\ Serial'
<1>1. Serial'
  <2>1. Len(accum') = 0
    OBVIOUS
  <2> QED
    BY <2>1 DEF Serial
<1>2. ASSUME NEW c \in 0 .. connected' PROVE Replicates(datas'[0], Own(c)', Held(c)')
  <2>1. c # 0 => c \in Client /\ c \in 1 .. connected'
    BY Constants DEF Client
  <2>2. Own(c)' = {} /\ Held(c)' = [doc |-> datas'[0], pack |-> <<>>]
    BY <2>1 DEF Own, Held, Range
  <2> QED
    BY <2>2, FreshReplica
<1>3. Views'
  BY <1>2 DEF Views
<1> QED
  BY <1>1, <1>3

LEMMA DocInvReset ==
  ASSUME IInv, MayReset, Reset
  PROVE  DocInv'
<1>1. /\ connected' = 0 /\ accum' = <<>> /\ accum = <<>> /\ session' = session + 1
      /\ crev' = [c \in Client |-> 0] /\ applied' = [c \in Client |-> <<>>]
      /\ datas'[0] = Numbered(Len(datas[0]))
  BY Constants DEF MayReset, Reset, Resetting
<1>2. /\ datas[0] \in Seq(Value) /\ Len(datas[0]) \in Nat
      /\ datas'[0] \in Seq(Value) /\ Len(datas'[0]) = Len(datas[0])
  BY <1>1, AccumFacts, NumberedType
<1>3. Idle'
  BY <1>1 DEF Idle
<1>4. Views' /\ Serial'
  <2>1. connected' \in 0 .. NClients /\ \A c \in 1 .. connected' : datas'[c] = datas'[0]
    BY <1>1, Constants
  <2> QED
    BY <1>1, <1>2, <2>1, FreshViews
<1>5. Room'
  <2> DEFINE k == NClients * MaxOps
  <2>1. Cardinality(Made') = 0
    <3>1. Made' = {}
      BY <1>1 DEF Made
    <3> QED
      BY <3>1, FS_EmptySet
  <2>2. k \in Nat /\ session \in Nat /\ InitSize \in Nat /\ Len(accum) = 0 /\ Len(accum') = 0
    BY <1>1, Constants DEF IInv, TypeOK
  <2>3. Len(datas[0]) <= InitSize + session * k + k
    BY <1>2, <2>2, MadeBounded DEF IInv, Room
  <2> HIDE DEF k
  <2>4. session * k + k = (session + 1) * k
    BY <2>2
  <2>5. Len(datas'[0]) + Len(accum') <= InitSize + session' * k + Cardinality(Made')
    BY <1>1, <1>2, <2>1, <2>2, <2>3, <2>4
  <2> QED
    BY <2>5 DEF Room, k
<1> QED
  BY <1>3, <1>4, <1>5 DEF DocInv

(* An update leaves all replicas with the merge of what was pushed.        *)
LEMMA UpdateMerges ==
  ASSUME IInv, Update
  PROVE  /\ \A c \in 0 .. connected : datas'[c] = Merge(datas[0], Range(accum))
         /\ datas'[0] \in Seq(Value)
         /\ Len(datas'[0]) \in Nat /\ Len(datas'[0]) <= Len(datas[0]) + Len(accum)
<1>1. ASSUME NEW c \in 0 .. connected
      PROVE  Replicates(datas[0], Range(accum), IntegrateAll(Held(c), accum, {c}))
  <2>1. accum \in Seq(OpDescriptor) /\ Len(accum) \in 0 .. Len(accum)
    BY AccumFacts
  <2>2. SubSeq(accum, 1, Len(accum)) = accum
    BY <2>1, SubSeqFull
  <2> QED
    BY <2>1, <2>2, OwnFacts, Updated
<1>2. ASSUME NEW c \in 0 .. connected
      PROVE  datas'[c] = IntegrateAll(Held(c), accum, {c}).doc
  <2>1. c \in 0 .. NClients /\ (c # 0 => c \in Connected) /\ 0 \notin Connected
    BY AccumFacts, Constants DEF Connected
  <2>2. c = 0 => datas'[c] = ApplyFromOthers(0, datas[0], <<>>, accum)
    BY <2>1 DEF Update
  <2>3. c # 0 => datas'[c] = ApplyFromOthers(c, datas[c], applied[c], accum)
    BY <2>1 DEF Update
  <2> QED
    BY <2>2, <2>3 DEF ApplyFromOthers, Held
<1>3. \A c \in 0 .. connected : datas'[c] = Merge(datas[0], Range(accum))
  BY <1>1, <1>2 DEF Replicates
<1> DEFINE r == IntegrateAll(Held(0), accum, {0})
<1>4. Replicates(datas[0], Range(accum), r) /\ datas'[0] = r.doc
  BY <1>1, <1>2, AccumFacts
<1> HIDE DEF r
<1>5. /\ r.doc \in Seq(Value) /\ Len(r.doc) \in Nat
      /\ Len(r.doc) <= Len(datas[0]) + Cardinality(Range(accum))
  BY <1>4, AccumFacts, ReplicaLength DEF Replicates, Replica
<1>6. /\ Cardinality(Range(accum)) <= Len(accum) /\ Cardinality(Range(accum)) \in Nat
      /\ Len(datas[0]) \in Nat /\ Len(accum) \in Nat
  BY AccumFacts, RangeCounted, FS_CardinalityType
<1> QED
  BY <1>3, <1>4, <1>5, <1>6

LEMMA AppliedAfterUpdate ==
  ASSUME IInv, Update
  PROVE  applied' = [c \in Client |-> <<>>]
BY DEF IInv, Idle, Update, Updating

LEMMA DocInvUpdate ==
  ASSUME IInv, Update
  PROVE  DocInv'
<1>1. /\ connected' = connected /\ accum' = <<>> /\ session' = session /\ crev' = crev
      /\ applied' = [c \in Client |-> <<>>]
  BY AppliedAfterUpdate DEF Update, Updating
<1>2. Idle'
  BY <1>1 DEF IInv, Idle, Connected
<1>3. Views' /\ Serial'
  <2>1. \A c \in 1 .. connected' : datas'[c] = datas'[0]
    BY <1>1, UpdateMerges, AccumFacts
  <2>2. connected' \in 0 .. NClients
    BY <1>1, AccumFacts
  <2> QED
    BY <1>1, <2>1, <2>2, UpdateMerges, FreshViews
<1>4. Room'
  <2> DEFINE most == InitSize + session * (NClients * MaxOps) + Cardinality(Made)
  <2>1. most \in Nat /\ Len(datas[0]) + Len(accum) <= most
    BY Constants, MadeBounded DEF IInv, TypeOK, Room
  <2>2. InitSize + session' * (NClients * MaxOps) + Cardinality(Made') = most
    BY <1>1 DEF Made
  <2>3. Len(accum') = 0 /\ Len(datas[0]) \in Nat /\ Len(accum) \in Nat
    BY <1>1, AccumFacts
  <2> HIDE DEF most
  <2>4. Len(datas'[0]) + Len(accum') <= most
    BY <2>1, <2>3, UpdateMerges
  <2> QED
    BY <2>2, <2>4 DEF Room
<1> QED
  BY <1>2, <1>3, <1>4 DEF DocInv

(* Client::makeLocalOps: the client applies to the server's document what  *)
(* it pushes, so its view is the merge of its own operations.              *)
LEMMA Pushed ==
  ASSUME NoDuplications, IInv, NEW c \in Connected, MayPush(c),
         NEW ops \in LocalOps(datas[c]), MakeLocalOps(c, ops), Room'
  PROVE  LET pack == Signed(c, ops)
         IN  /\ datas' = [datas EXCEPT ![c] = Merge(datas[0], Range(pack))]
             /\ Replicates(datas[0], Range(pack),
                           [doc |-> Merge(datas[0], Range(pack)), pack |-> pack])
<1> DEFINE pack == Signed(c, ops)
           D == datas[0]
           n == Len(pack)
<1>1. /\ crev[c] + Len(ops) <= MaxOps
      /\ datas' = [datas EXCEPT ![c] = ApplyPack(@, pack)]
  BY DEF MakeLocalOps, Pushing
<1>2. /\ datas[c] = D
      /\ pack \in Seq(OpDescriptor)
      /\ \A i \in 1 .. n : MadeOn(D, pack[i], Others(pack, i - 1, {}))
      /\ Named(Range(pack))
      /\ StandsFor(D, Range(pack), pack)
  BY <1>1, SignedStands
<1>3. D \in Seq(Value)
  BY AccumFacts
<1> HIDE DEF pack
<1>4. /\ Range(pack) = {pack[i] : i \in 1 .. n} /\ Range(pack) \in SUBSET OpDescriptor
      /\ IsFiniteSet(Range(pack)) /\ Cardinality(Range(pack)) <= n
  BY <1>2, RangeCounted
<1>5. Others(pack, n, {}) = Range(pack)
  BY <1>4 DEF Others
<1> DEFINE fresh == [doc |-> D, pack |-> <<>>]
<1>6. MadeInTurn(D, {}, pack, {})
  BY <1>2, <1>5 DEF MadeInTurn
<1>7. Len(D) + Cardinality(Range(pack)) < UMod
  <2>1. Len(D) + Len(accum) + n < UMod
    <3>1. IsFiniteSet(Made') /\ Cardinality(Made') \in Nat /\ Cardinality(Made') <= NClients * MaxOps
      <4>1. Made' \subseteq Client \X (0 .. MaxOps - 1)
        BY DEF Made
      <4>2. IsFiniteSet(Made') /\ Cardinality(Made') <= NClients * MaxOps
        BY <4>1, MadeCounted, FS_Subset
      <4> QED
        BY <4>2, FS_CardinalityType
    <3>2. datas'[0] = D /\ Len(accum') = Len(accum) + n /\ session' = session
      <4>1. c # 0 /\ 0 \in 0 .. NClients
        <5>1. c \in Client /\ NClients \in Nat
          BY AccumFacts, Constants
        <5> QED
          BY <5>1 DEF Client
      <4>2. accum' = accum \o pack /\ session' = session
        BY DEF MakeLocalOps, Pushing, pack
      <4> QED
        BY <1>1, <1>2, <4>1, <4>2, AccumFacts, ConcatProperties
    <3> DEFINE k == NClients * MaxOps
    <3>3. /\ k \in Nat /\ session \in Nat /\ MaxSessions \in Nat /\ session <= MaxSessions
          /\ InitSize \in Nat /\ UMod \in Nat
          /\ InitSize + k * (MaxSessions + 1) < UMod
      BY Constants, ClientServerAssumption DEF IInv, TypeOK
    <3>4. Len(D) \in Nat /\ Len(accum) \in Nat /\ n \in Nat
      BY <1>2, <1>3, AccumFacts
    <3> HIDE DEF D, n
    <3>5. Len(D) + Len(accum) + n <= InitSize + session * k + k
      BY <3>1, <3>2, <3>3, <3>4 DEF Room
    <3> HIDE DEF k
    <3>6. session * k + k <= k * (MaxSessions + 1)
      BY <3>3
    <3> QED
      BY <3>3, <3>4, <3>5, <3>6
  <2>2. Len(D) \in Nat /\ Len(accum) \in Nat /\ n \in Nat /\ UMod \in Nat
        /\ Cardinality(Range(pack)) \in Nat
    BY <1>2, <1>3, <1>4, AccumFacts, FS_CardinalityType, Constants
  <2> HIDE DEF D, n
  <2> QED
    BY <1>4, <2>1, <2>2
<1>8. Replicates(D, {}, fresh)
  BY <1>3, FreshReplica
<1>9. Replicates(D, Range(pack), IntegrateAll(fresh, pack, {}))
  <2>1. Range(pack) = {} \union Others(pack, Len(pack), {}) /\ {} \in SUBSET OpDescriptor
    BY <1>5
  <2> HIDE DEF fresh, D, n
  <2> QED
    BY <1>2, <1>3, <1>4, <1>6, <1>7, <1>8, <2>1, IntegrateAllMore
<1>10. ApplyPack(D, pack) = Merge(D, Range(pack))
  BY <1>9 DEF ApplyPack, Replicates
<1>11. datas' = [datas EXCEPT ![c] = Merge(D, Range(pack))]
  BY <1>1, <1>2, <1>10
<1>12. Replicates(D, Range(pack), [doc |-> Merge(D, Range(pack)), pack |-> pack])
  <2>1. Merge(D, Range(pack)) \in Seq(Value)
    BY <1>9 DEF Replicates, Replica
  <2>2. Len(pack) = Cardinality(Range(pack))
    <3>1. ASSUME NEW i \in 1 .. n, NEW j \in 1 .. n, pack[i] = pack[j] PROVE i = j
      <4>1. c \in Client /\ TypeOK
        BY AccumFacts DEF IInv
      <4>2. crev[c] \in Nat
        BY <4>1, Constants DEF TypeOK
      <4>3. /\ Len(ops) \in Nat /\ n = Len(ops)
            /\ \A k \in 1 .. Len(ops) : pack[k].rev = crev[c] + k - 1
        BY <1>1, <4>1, SignedType DEF pack
      <4>4. pack[i].rev = crev[c] + i - 1 /\ pack[j].rev = crev[c] + j - 1
        BY <4>3
      <4> HIDE DEF n
      <4> QED
        BY <3>1, <4>2, <4>4
    <3> DEFINE P == 1 .. n
               R == Range(pack)
               f == [i \in P |-> pack[i]]
    <3>0. n \in Nat
      BY <1>2
    <3>2. n \in Nat /\ IsFiniteSet(P) /\ Cardinality(P) = n
      <4> HIDE DEF n
      <4>1. 1 \in Int /\ n \in Int /\ (IF 1 > n THEN 0 ELSE n - 1 + 1) = n
        BY <3>0
      <4> QED
        BY <3>0, <4>1, FS_Interval
    <3>3. f \in Surjection(P, R)
      BY <1>4 DEF Surjection
    <3>4. f \in Injection(P, R)
      BY <3>1, <3>3 DEF Surjection, Injection, IsInjective
    <3> HIDE DEF P, R, f
    <3>5. Cardinality(R) = Cardinality(P)
      BY <3>2, <3>3, <3>4, FS_Surjection
    <3> QED
      BY <3>2, <3>5 DEF R
  <2> QED
    BY <1>2, <1>4, <2>1, <2>2 DEF Replicates, Replica
<1> QED
  BY <1>11, <1>12 DEF pack

(* The operations of the client that pushes are counted by its counter.    *)
LEMMA MadeMore ==
  ASSUME IInv, NEW c \in Client, NEW n \in Nat, crev[c] + n <= MaxOps,
         crev' = [crev EXCEPT ![c] = @ + n]
  PROVE  Cardinality(Made') = Cardinality(Made) + n
<1> DEFINE P == crev[c] .. crev[c] + n - 1
           new == {c} \X P
<1>1. crev \in [Client -> 0 .. MaxOps] /\ MaxOps \in Nat /\ crev[c] \in Nat
  BY Constants DEF IInv, TypeOK
<1>2. /\ crev' \in [Client -> Int] /\ crev'[c] = crev[c] + n
      /\ \A d \in Client : d # c => crev'[d] = crev[d]
  BY <1>1
<1>3. Made' = Made \union new
  <2>1. ASSUME NEW x \in Client \X (0 .. MaxOps - 1)
        PROVE  x[2] < crev'[x[1]] <=> x \in Made \/ x \in new
    <3>1. x[1] \in Client /\ x[2] \in 0 .. MaxOps - 1 /\ x = <<x[1], x[2]>>
      OBVIOUS
    <3>2. x \in Made <=> x[2] < crev[x[1]]
      BY DEF Made
    <3>3. x \in new <=> x[1] = c /\ crev[c] <= x[2] /\ x[2] < crev[c] + n
      BY <1>1, <3>1
    <3> QED
      BY <1>1, <1>2, <3>1, <3>2, <3>3
  <2>2. new \subseteq Client \X (0 .. MaxOps - 1)
    BY <1>1
  <2>3. Made \subseteq Client \X (0 .. MaxOps - 1)
    BY DEF Made
  <2>4. Made' = {x \in Client \X (0 .. MaxOps - 1) : x[2] < crev'[x[1]]}
    BY DEF Made
  <2> HIDE DEF new
  <2> QED
    BY <2>1, <2>2, <2>3, <2>4
<1>4. Made \intersect new = {}
  BY <1>1 DEF Made
<1>5. IsFiniteSet(new) /\ Cardinality(new) = n
  <2>1. IsFiniteSet(P) /\ Cardinality(P) = n
    <3> DEFINE a == crev[c]
               b == crev[c] + n - 1
    <3>1. a \in Int /\ b \in Int /\ (IF a > b THEN 0 ELSE b - a + 1) = n
      BY <1>1
    <3> HIDE DEF a, b
    <3>2. IsFiniteSet(a .. b) /\ Cardinality(a .. b) = n
      BY <3>1, FS_Interval
    <3> QED
      BY <3>2 DEF a, b
  <2>2. IsFiniteSet({c}) /\ Cardinality({c}) = 1
    BY FS_Singleton
  <2> HIDE DEF P
  <2>3. IsFiniteSet(new) /\ Cardinality(new) = 1 * n
    BY <2>1, <2>2, FS_Product
  <2> QED
    BY <2>3
<1> HIDE DEF new
<1>6. Cardinality(Made \union new)
        = Cardinality(Made) + Cardinality(new) - Cardinality(Made \intersect new)
  BY <1>5, MadeBounded, FS_Union
<1>7. Cardinality(Made \intersect new) = 0
  BY <1>4, FS_EmptySet
<1>8. Cardinality(Made \union new) = Cardinality(Made) + n
  BY <1>5, <1>6, <1>7, MadeBounded
<1> QED
  BY <1>3, <1>8

(* What a push does, whatever the pack is.                                 *)
LEMMA PushFacts ==
  ASSUME NoDuplications, IInv, NEW c \in Connected, MayPush(c),
         NEW ops \in LocalOps(datas[c]), MakeLocalOps(c, ops)
  PROVE  LET pack == Signed(c, ops)
         IN  /\ c \in Client /\ crev[c] + Len(ops) <= MaxOps
             /\ pack \in Seq(OpDescriptor) /\ Len(pack) = Len(ops) /\ Len(ops) \in Nat
             /\ \A i \in 1 .. Len(pack) : pack[i].cid = c
             /\ crev' = [crev EXCEPT ![c] = @ + Len(ops)]
             /\ accum' = accum \o pack
             /\ applied' = [applied EXCEPT ![c] = pack]
             /\ datas' = [datas EXCEPT ![c] = ApplyPack(@, pack)]
             /\ datas'[0] = datas[0]
             /\ connected' = connected /\ session' = session
<1> DEFINE pack == Signed(c, ops)
<1>1. c \in Client /\ TypeOK /\ 0 \notin Client /\ datas \in [0 .. NClients -> Seq(Value)]
  BY AccumFacts DEF IInv, Client
<1>2. /\ crev[c] + Len(ops) <= MaxOps
      /\ crev' = [crev EXCEPT ![c] = @ + Len(ops)]
      /\ accum' = accum \o pack
      /\ applied' = [applied EXCEPT ![c] = pack]
      /\ datas' = [datas EXCEPT ![c] = ApplyPack(@, pack)]
      /\ connected' = connected /\ session' = session
  BY DEF MakeLocalOps, Pushing, Kept
<1>3. /\ pack \in Seq(OpDescriptor) /\ Len(pack) = Len(ops) /\ Len(ops) \in Nat
      /\ \A i \in 1 .. Len(pack) : pack[i].cid = c
  BY <1>1, <1>2, SignedType
<1> HIDE DEF pack
<1>4. datas'[0] = datas[0]
  <2>1. 0 \in 0 .. NClients
    BY Constants
  <2> QED
    BY <1>1, <1>2, <2>1
<1> QED
  BY <1>1, <1>2, <1>3, <1>4 DEF pack

LEMMA RoomAfterPush ==
  ASSUME NoDuplications, IInv, NEW c \in Connected, MayPush(c),
         NEW ops \in LocalOps(datas[c]), MakeLocalOps(c, ops)
  PROVE  Room'
<1> DEFINE n == Len(ops)
           most == InitSize + session * (NClients * MaxOps)
<1>1. Cardinality(Made') = Cardinality(Made) + n
  BY PushFacts, MadeMore
<1>2. Len(accum') = Len(accum) + n /\ Len(accum) \in Nat /\ n \in Nat
  BY PushFacts, AccumFacts, ConcatProperties
<1>3. Len(datas'[0]) = Len(datas[0]) /\ Len(datas[0]) \in Nat /\ session' = session
  BY PushFacts, AccumFacts
<1>4. most \in Nat
  <2>1. InitSize \in Nat /\ session \in Nat /\ NClients \in Nat /\ MaxOps \in Nat
    BY Constants DEF IInv, TypeOK
  <2> QED
    BY <2>1
<1>5. Len(datas[0]) + Len(accum) <= most + Cardinality(Made)
  BY DEF IInv, Room
<1>6. Cardinality(Made) \in Nat
  BY MadeBounded
<1> HIDE DEF n, most
<1>7. Len(datas'[0]) + Len(accum') <= most + Cardinality(Made')
  <2> DEFINE a == Len(datas[0])
             b == Len(accum)
             m == Cardinality(Made)
  <2>1. a \in Nat /\ b \in Nat /\ n \in Nat /\ most \in Nat /\ m \in Nat /\ a + b <= most + m
    BY <1>2, <1>3, <1>4, <1>5, <1>6
  <2> HIDE DEF a, b, m
  <2>2. a + (b + n) <= most + (m + n)
    BY <2>1
  <2> USE DEF a, b, m
  <2> QED
    BY <1>1, <1>2, <1>3, <2>2
<1> QED
  BY <1>3, <1>7 DEF Room, most

LEMMA DocInvMakeLocalOps ==
  ASSUME NoDuplications, IInv, NEW c \in Connected, MayPush(c),
         NEW ops \in LocalOps(datas[c]), MakeLocalOps(c, ops)
  PROVE  DocInv'
<1> DEFINE pack == Signed(c, ops)
           D == datas[0]
           n == Len(accum)
<1>1. /\ c \in Client /\ crev[c] + Len(ops) <= MaxOps
      /\ pack \in Seq(OpDescriptor)
      /\ \A i \in 1 .. Len(pack) : pack[i].cid = c
      /\ crev' = [crev EXCEPT ![c] = @ + Len(ops)]
      /\ accum' = accum \o pack
      /\ applied' = [applied EXCEPT ![c] = pack]
      /\ datas'[0] = D
      /\ connected' = connected
  BY PushFacts
<1>2. Room'
  BY RoomAfterPush
<1>3. /\ datas' = [datas EXCEPT ![c] = Merge(D, Range(pack))]
      /\ Replicates(D, Range(pack), [doc |-> Merge(D, Range(pack)), pack |-> pack])
  BY <1>2, Pushed
<1>4. /\ \A i \in 1 .. Len(pack) : MadeOn(D, pack[i], Others(pack, i - 1, {}))
  BY <1>1, SignedStands
<1> HIDE DEF pack
<1>5. Idle'
  BY <1>1 DEF IInv, TypeOK, Idle, Connected
<1>6. Views'
  <2>1. ASSUME NEW d \in 0 .. connected PROVE Replicates(D, Own(d)', Held(d)')
    <3>1. d \in 0 .. NClients /\ c \in 0 .. NClients /\ (d # 0 => d \in Client) /\ c # 0
      <4>1. connected \in 0 .. NClients /\ NClients \in Nat /\ c \in Client
        BY <1>1, AccumFacts, Constants
      <4> QED
        BY <4>1 DEF Client
    <3>2. CASE d = c
      <4>1. Own(d)' = Range(pack) /\ Held(d)' = [doc |-> Merge(D, Range(pack)), pack |-> pack]
        BY <1>1, <1>3, <3>1, <3>2, AccumFacts DEF Own, Held, IInv, TypeOK
      <4> QED
        BY <1>3, <4>1
    <3>3. CASE d # c
      <4>1. Own(d)' = Own(d) /\ Held(d)' = Held(d)
        BY <1>1, <1>3, <3>1, <3>3, AccumFacts DEF Own, Held, IInv, TypeOK
      <4> QED
        BY <4>1 DEF IInv, Views
    <3> QED
      BY <3>2, <3>3
  <2> QED
    BY <1>1, <2>1 DEF Views
<1>7. Serial'
  <2>1. /\ n \in Nat /\ Len(pack) \in Nat /\ Len(accum') = n + Len(pack)
        /\ \A i \in 1 .. n : accum'[i] = accum[i]
        /\ \A i \in n + 1 .. n + Len(pack) : accum'[i] = pack[i - n] /\ i - n \in 1 .. Len(pack)
    BY <1>1, AccumFacts, ConcatProperties
  <2>2. \A i \in 1 .. n : accum[i].cid # c
    <3>1. Own(c) = {} /\ c \in 0 .. connected
      BY <1>1, AccumFacts, Constants DEF Own, MayPush, Range, Connected, Client
    <3>2. Own(c) = {op \in Range(accum) : op.cid = c}
      BY <3>1, OwnFacts
    <3> QED
      BY <3>1, <3>2, AccumFacts
  <2> HIDE DEF D, n
  <2>3. ASSUME NEW i \in 1 .. n
        PROVE  MadeOn(D, accum'[i], Others(accum', i - 1, {}))
    <3>1. MadeOn(D, accum[i], Others(accum, i - 1, {}))
      BY DEF IInv, Serial, D, n
    <3>2. Others(accum', i - 1, {}) = Others(accum, i - 1, {})
      BY <2>1 DEF Others
    <3> QED
      BY <2>1, <3>1, <3>2
  <2>4. ASSUME NEW i \in n + 1 .. n + Len(pack)
        PROVE  MadeOn(D, accum'[i], Others(accum', i - 1, {}))
    <3> DEFINE k == i - n
    <3>1. k \in 1 .. Len(pack) /\ accum'[i] = pack[k] /\ pack[k].cid = c
      BY <1>1, <2>1
    <3>2. MadeOn(D, pack[k], Others(pack, k - 1, {}))
      BY <1>4, <3>1
    <3>3. ASSUME NEW e \in Others(accum', i - 1, {}) PROVE Earlier(e, pack[k])
      <4>1. PICK j \in 1 .. i - 1 : e = accum'[j]
        BY DEF Others
      <4>2. CASE j \in 1 .. n
        BY <2>1, <2>2, <3>1, <4>1, <4>2 DEF Earlier
      <4>3. CASE j \notin 1 .. n
        <5>1. j \in n + 1 .. n + Len(pack) /\ j - n \in 1 .. k - 1 /\ e = pack[j - n]
          BY <2>1, <4>1, <4>3
        <5>2. e \in Others(pack, k - 1, {})
          BY <5>1 DEF Others
        <5> QED
          BY <3>2, <5>2 DEF MadeOn
      <4> QED
        BY <4>2, <4>3
    <3> HIDE DEF k
    <3> QED
      BY <3>1, <3>2, <3>3 DEF MadeOn
  <2>5. \A i \in 1 .. Len(accum') : MadeOn(D, accum'[i], Others(accum', i - 1, {}))
    BY <2>1, <2>3, <2>4
  <2> QED
    BY <1>1, <2>5 DEF Serial, D
<1> QED
  BY <1>2, <1>5, <1>6, <1>7 DEF DocInv

-----------------------------------------------------------------------------
LEMMA DocInvNext ==
  ASSUME NoDuplications, IInv, [Next]_vars
  PROVE  DocInv'
<1>1. CASE MayConnect /\ Connect
  BY <1>1, DocInvConnect
<1>2. ASSUME NEW c \in Connected, MayPush(c),
             NEW ops \in LocalOps(datas[c]), MakeLocalOps(c, ops)
      PROVE  DocInv'
  BY <1>2, DocInvMakeLocalOps
<1>3. CASE Update
  BY <1>3, DocInvUpdate
<1>4. CASE MayReset /\ Reset
  BY <1>4, DocInvReset
<1>5. CASE UNCHANGED vars
  <2>1. /\ datas' = datas /\ connected' = connected /\ accum' = accum
        /\ crev' = crev /\ applied' = applied /\ session' = session
    BY <1>5 DEF vars
  <2>2. Idle' /\ Serial'
    BY <2>1 DEF IInv, Idle, Serial, Connected
  <2>3. Views'
    BY <2>1 DEF IInv, Views, Own, Held
  <2>4. Room'
    BY <2>1 DEF IInv, Room, Made
  <2> QED
    BY <2>2, <2>3, <2>4 DEF DocInv
<1> QED
  BY <1>1, <1>2, <1>3, <1>4, <1>5 DEF Next

(* Between two updates, every replica is the merge of the server's         *)
(* document and its client's own operations, and everything pushed can be  *)
(* applied in the order in which it was.                                   *)
THEOREM Invariance ==
  ASSUME NoDuplications
  PROVE  Spec => []IInv
<1>1. Init => DocInv
  BY DocInvInit
<1>2. TypeOK /\ OwnInv /\ DocInv /\ [Next]_vars => DocInv'
  BY DocInvNext DEF IInv, DocInv
<1>3. Spec => []DocInv
  BY <1>1, <1>2, TypeCorrect, OwnInvariance, PTL DEF Spec
<1>4. TypeOK /\ OwnInv /\ DocInv => IInv
  BY DEF IInv, DocInv
<1> QED
  BY <1>3, <1>4, TypeCorrect, OwnInvariance, PTL

(* When nothing is left to be sent, everyone has the server's document     *)
(* (checkStates in main.cpp and in the tests).                             *)
THEOREM AllConverge ==
  ASSUME NoDuplications
  PROVE  Spec => []Converged
<1>1. IInv => Converged
  <2> SUFFICES ASSUME IInv, accum = <<>>, NEW c \in Connected
               PROVE  datas[c] = datas[0]
    BY DEF Converged
  <2>1. c \in 0 .. connected /\ c # 0 /\ datas[0] \in Seq(Value)
    BY AccumFacts DEF Connected
  <2>2. Own(c) = {}
    <3>1. Range(accum) = {}
      BY DEF Range
    <3> QED
      BY <2>1, <3>1, OwnFacts
  <2>3. Replicates(datas[0], {}, Held(c)) /\ Held(c).doc = datas[c]
    BY <2>1, <2>2 DEF IInv, Views, Held
  <2> QED
    BY <2>1, <2>3, MergeOfNone DEF Replicates
<1> QED
  BY <1>1, Invariance, PTL

(* No update needs the fallbacks of State::apply, and no position it       *)
(* transforms wraps around.                                                *)
THEOREM UpdatesInBounds ==
  ASSUME NoDuplications
  PROVE  Spec => []UpdateInBounds
<1>1. IInv => UpdateInBounds
  <2> SUFFICES ASSUME IInv, NEW c \in 0 .. connected, NEW i \in 1 .. Len(accum),
                      accum[i].cid # c
               PROVE  InBounds(BeforeOp(c, i).doc, TransformAll(accum[i], BeforeOp(c, i).pack))
    BY DEF UpdateInBounds
  <2> DEFINE ops == Own(c) \union Others(accum, i - 1, {c})
             D == datas[0]
             op == accum[i]
             r == IntegrateAll(Held(c), SubSeq(accum, 1, i - 1), {c})
  <2>1. r = BeforeOp(c, i)
    BY DEF BeforeOp, Held
  <2>2. D \in Seq(Value) /\ accum \in Seq(OpDescriptor) /\ op \in OpDescriptor
        /\ i - 1 \in 0 .. Len(accum) /\ i \in 1 .. Len(accum)
    BY AccumFacts
  <2>3. Replicates(D, ops, r)
    BY <2>2, Updated
  <2>4. Own(c) = {e \in Range(accum) : e.cid = c}
    BY OwnFacts
  <2>5. ops \union {op} \subseteq Range(accum) /\ Range(accum) \in SUBSET OpDescriptor
    <3>1. Others(accum, i - 1, {c}) \subseteq Range(accum)
      BY <2>2, AccumFacts DEF Others
    <3> QED
      BY <2>2, <2>4, <3>1, AccumFacts
  <2>6. Named(ops \union {op})
    BY <2>5, AccumFacts DEF Named
  <2>7. MadeOn(D, op, ops)
    <3>1. MadeOn(D, op, Others(accum, i - 1, {}))
      BY DEF IInv, Serial
    <3>2. \A e \in Others(accum, i - 1, {c}) : Earlier(e, op)
      BY <3>1 DEF Others, MadeOn
    <3>3. \A e \in Own(c) : Earlier(e, op)
      BY <2>4 DEF Earlier
    <3> HIDE DEF D, op
    <3> QED
      BY <3>1, <3>2, <3>3 DEF MadeOn
  <2>8. Len(D) + Cardinality(ops) < UMod
    <3> HIDE DEF ops, op
    <3>1. IsFiniteSet(ops) /\ Cardinality(ops) <= Cardinality(Range(accum))
      BY <2>5, AccumFacts, FS_Subset
    <3>2. /\ Cardinality(ops) \in Nat /\ Cardinality(Range(accum)) \in Nat /\ UMod \in Nat
          /\ Len(D) \in Nat
      BY <2>2, <3>1, AccumFacts, FS_CardinalityType, Constants
    <3>3. Len(D) + Cardinality(Range(accum)) < UMod
      BY AccumFacts
    <3> HIDE DEF D
    <3> QED
      BY <3>1, <3>2, <3>3
  <2>9. ops \in SUBSET OpDescriptor
    BY <2>5
  <2> HIDE DEF D, ops, op, r
  <2>10. InBounds(r.doc, TransformAll(op, r.pack))
    BY <2>2, <2>3, <2>6, <2>7, <2>8, <2>9, IntegrateMore
  <2> QED
    BY <2>1, <2>10 DEF op
<1> QED
  BY <1>1, Invariance, PTL

-----------------------------------------------------------------------------
(* The detailed specification implements SharedDocument.                   *)
LEMMA SharedMerge ==
  ASSUME NEW D, NEW ops
  PROVE  Shared!Merge(D, ops) = Merge(D, ops) /\ (Shared!WellFormed(D, ops) <=> WellFormed(D, ops))
<1>1. Shared!Merge(D, ops) = Merge(D, ops)
  <2>1. Shared!Items(D, ops) = Items(D, ops)
    BY DEF Shared!Items, Shared!OldKey, Shared!NewKey, Shared!AtPos, Shared!Inserts,
           Items, OldKey, NewKey, AtPos, Inserts
  <2>2. ASSUME NEW S PROVE Shared!Cardinality(S) = Cardinality(S)
    BY Zenon DEF Shared!Cardinality, Cardinality
  <2>3. ASSUME NEW items, NEW x PROVE Shared!Rank(items, x) = Rank(items, x)
    <3>1. \A y : Shared!Before(y, x) <=> Before(y, x)
      BY DEF Shared!Before, Before
    <3>2. {y \in items : Shared!Before(y, x)} = {y \in items : Before(y, x)}
      BY <3>1
    <3> QED
      BY <2>2, <3>2 DEF Shared!Rank, Rank
  <2>4. ASSUME NEW x PROVE Shared!ItemValue(D, ops, x) = ItemValue(D, ops, x)
    <3>1. ASSUME NEW us PROVE Shared!Winner(us) = Winner(us)
      BY DEF Shared!Winner, Winner
    <3>2. Shared!AtPos(ops, "update", x[1]) = AtPos(ops, "update", x[1])
      BY DEF Shared!AtPos, AtPos
    <3>3. Shared!Inserts(ops) = Inserts(ops) /\ \A op : Shared!NewKey(op) = NewKey(op)
      BY DEF Shared!Inserts, Shared!NewKey, Inserts, NewKey
    <3>4. (CHOOSE op \in Shared!Inserts(ops) : Shared!NewKey(op) = x)
            = CHOOSE op \in Inserts(ops) : NewKey(op) = x
      BY <3>3
    <3>5. Shared!Winner(Shared!AtPos(ops, "update", x[1])) = Winner(AtPos(ops, "update", x[1]))
      BY <3>1, <3>2
    <3>6. CASE x[2] = 0
      <4>1. Shared!ItemValue(D, ops, x)
              = (CHOOSE op \in Shared!Inserts(ops) : Shared!NewKey(op) = x).value
        BY <3>6 DEF Shared!ItemValue
      <4>2. ItemValue(D, ops, x) = (CHOOSE op \in Inserts(ops) : NewKey(op) = x).value
        BY <3>6 DEF ItemValue
      <4> QED
        BY <3>4, <4>1, <4>2, Zenon
    <3>7. CASE x[2] # 0
      BY <3>2, <3>5, <3>7 DEF Shared!ItemValue, ItemValue
    <3> QED
      BY <3>6, <3>7
  <2> DEFINE items  == Items(D, ops)
             sitems == Shared!Items(D, ops)
             at(i)  == CHOOSE x \in items : Rank(items, x) = i - 1
             sat(i) == CHOOSE x \in sitems : Shared!Rank(sitems, x) = i - 1
  <2>5. Shared!Merge(D, ops)
          = [i \in 1 .. Shared!Cardinality(sitems) |-> Shared!ItemValue(D, ops, sat(i))]
    BY DEF Shared!Merge
  <2>6. Merge(D, ops) = [i \in 1 .. Cardinality(items) |-> ItemValue(D, ops, at(i))]
    BY DEF Merge
  <2>7. ASSUME NEW i PROVE sat(i) = at(i)
    BY <2>1, <2>3
  <2>8. Shared!Cardinality(sitems) = Cardinality(items)
    BY <2>1, <2>2
  <2> HIDE DEF items, sitems, at, sat
  <2> QED
    BY <2>4, <2>5, <2>6, <2>7, <2>8
<1>2. Shared!WellFormed(D, ops) <=> WellFormed(D, ops)
  BY DEF Shared!WellFormed, WellFormed
<1> QED
  BY <1>1, <1>2

LEMMA SharedInit == Init => Shared!Init
<1> SUFFICES ASSUME Init PROVE Shared!Init
  OBVIOUS
<1>1. datas[0] = Numbered(InitSize) /\ connected = 0
  BY Constants DEF Init
<1>2. [c \in Client |-> Range(applied[c])] = Shared!Empty({})
  BY DEF Init, Range, Shared!Empty
<1>3. [c \in Client |-> datas[c]] = Shared!Empty(<<>>)
  BY Constants DEF Init, Client, Shared!Empty
<1> QED
  BY <1>1, <1>2, <1>3 DEF Shared!Init

LEMMA SharedReset ==
  ASSUME IInv, MayReset, Reset
  PROVE  Shared!Restart
<1>1. datas'[0] = Numbered(Len(datas[0])) /\ connected' = 0 /\ accum = <<>>
  BY Constants DEF MayReset, Reset, Resetting
<1>2. [c \in Client |-> Range(applied[c])] = Shared!Empty({})
  <2>1. Range(accum) = {}
    BY <1>1 DEF Range
  <2>2. \A c \in Client : Range(applied[c]) = {}
    BY <2>1 DEF IInv, OwnInv, OwnOpsKept
  <2> QED
    BY <2>2 DEF Shared!Empty
<1>3. [c \in Client |-> Range(applied'[c])] = Shared!Empty({})
  BY DEF Reset, Resetting, Range, Shared!Empty
<1>4. [c \in Client |-> datas'[c]] = Shared!Empty(<<>>)
  BY Constants DEF Reset, Client, Shared!Empty
<1> QED
  BY <1>1, <1>2, <1>3, <1>4 DEF Shared!Restart

LEMMA SharedConnect ==
  ASSUME IInv, MayConnect, Connect
  PROVE  Shared!Join
<1>1. PICK c \in Client : c = connected + 1
  BY Constants DEF IInv, TypeOK, MayConnect, Connect, Connecting, Clone, Client
<1>2. /\ connected' = c
      /\ datas' = [datas EXCEPT ![c] = datas[0]]
      /\ applied' = [applied EXCEPT ![c] = <<>>]
  BY <1>1 DEF MayConnect, Connect, Connecting, Clone
<1>3. connected \in Nat /\ c \notin Connected /\ c # 0 /\ Client \subseteq 0 .. NClients
  <2>1. connected \in 0 .. NClients /\ NClients \in Nat
    BY AccumFacts, Constants
  <2> QED
    BY <1>1, <2>1 DEF Connected, Client
<1>4. applied' = applied
  BY <1>2, <1>3 DEF IInv, Idle, TypeOK
<1>5. datas'[0] = datas[0]
  BY <1>2, <1>3, AccumFacts, Constants
<1> DEFINE view == [d \in Client |-> datas[d]]
<1>6. [d \in Client |-> datas'[d]] = [view EXCEPT ![c] = datas[0]]
  BY <1>2, <1>3, AccumFacts
<1>7. [d \in Client |-> Range(applied'[d])] = [d \in Client |-> Range(applied[d])]
  BY <1>4
<1> QED
  BY <1>1, <1>2, <1>5, <1>6, <1>7 DEF Shared!Join

LEMMA SharedPush ==
  ASSUME NoDuplications, IInv, NEW c \in Connected, MayPush(c),
         NEW ops \in LocalOps(datas[c]), MakeLocalOps(c, ops)
  PROVE  Shared!Edit(c)
<1> DEFINE pack    == Signed(c, ops)
           D       == datas[0]
           view    == [d \in Client |-> datas[d]]
           pending == [d \in Client |-> Range(applied[d])]
<1>1. /\ c \in Client /\ crev[c] + Len(ops) <= MaxOps
      /\ pack \in Seq(OpDescriptor)
      /\ \A i \in 1 .. Len(pack) : pack[i].cid = c
      /\ applied' = [applied EXCEPT ![c] = pack]
      /\ datas'[0] = D
      /\ connected' = connected
  BY PushFacts
<1>2. datas' = [datas EXCEPT ![c] = Merge(D, Range(pack))]
  BY RoomAfterPush, Pushed
<1>3. /\ \A i \in 1 .. Len(pack) : MadeOn(D, pack[i], Others(pack, i - 1, {}))
      /\ Named(Range(pack))
  BY <1>1, SignedStands
<1>4. Range(pack) = {pack[i] : i \in 1 .. Len(pack)}
  BY <1>1, RangeCounted
<1> HIDE DEF pack
<1>5. \A op \in Range(pack) : op.cid = c
  BY <1>1, <1>4
<1>6. Shared!WellFormed(D, Range(pack))
  <2>1. ASSUME NEW op \in Range(pack)
        PROVE  op.pos \in 0 .. (IF op.typ = "insert" THEN Len(D) ELSE Len(D) - 1)
    <3>1. PICK i \in 1 .. Len(pack) : op = pack[i]
      BY <1>4
    <3>2. D \in Seq(Value)
      BY AccumFacts
    <3>3. Len(D) \in Nat
      BY <3>2
    <3>4. MadeOn(D, op, Others(pack, i - 1, {}))
      BY <1>3, <3>1
    <3>5. op.pos \in Nat
      BY <3>4, OpFields DEF MadeOn
    <3> HIDE DEF D
    <3> QED
      BY <3>3, <3>4, <3>5 DEF MadeOn
  <2>2. WellFormed(D, Range(pack))
    BY <1>3, <2>1 DEF WellFormed, Named
  <2> QED
    BY <2>2, SharedMerge
<1>7. pending[c] = {}
  BY <1>1 DEF MayPush, Range
<1>8. [d \in Client |-> Range(applied'[d])] = [pending EXCEPT ![c] = Range(pack)]
  BY <1>1 DEF IInv, TypeOK
<1>9. [d \in Client |-> datas'[d]] = [view EXCEPT ![c] = Shared!Merge(D, Range(pack))]
  <2>1. Shared!Merge(D, Range(pack)) = Merge(D, Range(pack))
    BY SharedMerge
  <2>2. Client \subseteq 0 .. NClients
    BY Constants DEF Client
  <2> QED
    BY <1>1, <1>2, <2>1, <2>2, AccumFacts
<1>10. [d \in Client |-> Range(applied'[d])][c] = Range(pack)
  BY <1>1, <1>8
<1> QED
  BY <1>1, <1>5, <1>6, <1>7, <1>8, <1>9, <1>10 DEF Shared!Edit

LEMMA SharedUpdate ==
  ASSUME IInv, Update
  PROVE  Shared!Close
<1> DEFINE pending == [d \in Client |-> Range(applied[d])]
<1>1. connected' = connected /\ applied' = [c \in Client |-> <<>>]
  BY AppliedAfterUpdate DEF Update, Updating
<1>2. UNION {pending[c] : c \in Connected} = Range(accum)
  <2>1. \A c \in Connected : pending[c] = {op \in Range(accum) : op.cid = c}
    BY AccumFacts DEF IInv, OwnInv, OwnOpsKept
  <2>2. \A op \in Range(accum) : op.cid \in Connected
    BY AccumFacts DEF IInv, OwnInv, AccumNumbered
  <2> HIDE DEF pending
  <2> QED
    BY <2>1, <2>2
<1>3. datas'[0] = Shared!Merge(datas[0], UNION {pending[c] : c \in Connected})
  <2>1. datas'[0] = Merge(datas[0], Range(accum))
    BY UpdateMerges, AccumFacts
  <2> QED
    BY <1>2, <2>1, SharedMerge
<1>4. [c \in Client |-> datas'[c]]
        = [c \in Client |-> IF c \in Connected THEN datas'[0] ELSE datas[c]]
  <2>1. ASSUME NEW c \in Client
        PROVE  datas'[c] = IF c \in Connected THEN datas'[0] ELSE datas[c]
    <3>1. c \in 0 .. NClients /\ c # 0 /\ (c \in Connected => c \in 0 .. connected)
      <4>1. connected \in 0 .. NClients /\ NClients \in Nat
        BY AccumFacts, Constants
      <4> QED
        BY <4>1 DEF Connected, Client
    <3>2. c \in Connected => datas'[c] = datas'[0]
      BY <3>1, UpdateMerges, AccumFacts
    <3>3. c \notin Connected => datas'[c] = datas[c]
      BY <3>1 DEF Update
    <3> QED
      BY <3>2, <3>3
  <2> QED
    BY <2>1
<1>5. [c \in Client |-> Range(applied'[c])] = Shared!Empty({})
  BY <1>1 DEF Range, Shared!Empty
<1>6. Shared!Joined = Connected
  BY DEF Shared!Joined, Connected
<1> HIDE DEF pending
<1>7. \A c \in Client : [d \in Client |-> datas[d]][c] = datas[c]
  OBVIOUS
<1> QED
  BY <1>1, <1>3, <1>4, <1>5, <1>6, <1>7, AccumFacts DEF Shared!Close, pending

(* The system is one document edited in rounds: without transforming       *)
(* anything, a client sees the merge of its own operations with the        *)
(* document, and an update merges everyone's.                              *)
THEOREM Implementation ==
  ASSUME NoDuplications
  PROVE  Spec => ImplementsSharedDocument
<1>1. Init => Shared!Init
  BY SharedInit
<1>2. IInv /\ [Next]_vars => [Shared!Next]_(Shared!vars)
  <2> SUFFICES ASSUME IInv, [Next]_vars PROVE [Shared!Next]_(Shared!vars)
    OBVIOUS
  <2>1. CASE MayConnect /\ Connect
    BY <2>1, SharedConnect DEF Shared!Next
  <2>2. ASSUME NEW c \in Connected, MayPush(c),
               NEW ops \in LocalOps(datas[c]), MakeLocalOps(c, ops)
        PROVE  Shared!Next
    <3>1. Shared!Edit(c)
      BY <2>2, SharedPush
    <3> QED
      BY <3>1 DEF Shared!Next, Shared!Joined, Connected
  <2>3. CASE Update
    BY <2>3, SharedUpdate DEF Shared!Next
  <2>4. CASE MayReset /\ Reset
    BY <2>4, SharedReset DEF Shared!Next
  <2>5. CASE UNCHANGED vars
    BY <2>5 DEF vars, Shared!vars
  <2> QED
    BY <2>1, <2>2, <2>3, <2>4, <2>5 DEF Next
<1> QED
  BY <1>1, <1>2, Invariance, PTL DEF Spec, ImplementsSharedDocument, Shared!Spec

-----------------------------------------------------------------------------
(***************************************************************************)
(* What the loop around the server and the clients guarantees, for any     *)
(* number of clients, rounds and sessions and any length of packs: it      *)
(* calls the classes only as they allow, so that all that is proved of     *)
(* ClientServer is true of the program.                                    *)
(***************************************************************************)
LEMMA DriverConstants ==
  /\ OpsPerRound \in Nat /\ OpsPerRound <= MaxPack /\ MaxPack \in Nat
  /\ Rounds \in Nat /\ Rounds + 1 \in Unsigned
  /\ \A r \in 0 .. Rounds : UInc(r) = r + 1
<1>1. {OpsPerRound, Rounds, Rounds + 1} \subseteq Unsigned /\ OpsPerRound <= MaxPack
  BY DriverAssumption
<1>2. ASSUME NEW r \in 0 .. Rounds PROVE UInc(r) = r + 1
  <2>1. Rounds \in Nat /\ Rounds + 1 <= UMod - 1 /\ UMod \in Nat
    BY <1>1, UModAssumption DEF Unsigned
  <2> QED
    BY <2>1 DEF UInc
<1> QED
  BY <1>1, <1>2, Constants

-----------------------------------------------------------------------------
(* The packs of createLocalOps are among those an owner may ask for.       *)
LEMMA CreatedOpAllowed ==
  ASSUME NEW doc \in Seq(Value), NEW i
  PROVE  CreatedOp(doc, i) \subseteq LocalOp(doc)
<1> SUFFICES ASSUME NEW op \in CreatedOp(doc, i) PROVE op \in LocalOp(doc)
  OBVIOUS
<1>1. PICK p \in Unsigned \intersect 0 .. Len(doc),
           t \in IF doc = <<>> THEN {"insert"} ELSE {"insert", "remove", "update"} :
        op = [typ |-> t,
              pos |-> IF p < Len(doc) THEN p ELSE IF AtEnd(t, i) THEN Len(doc) ELSE 0]
  BY DEF CreatedOp
<1>2. /\ Len(doc) \in Nat /\ 0 \in Unsigned /\ p \in Unsigned /\ p \in 0 .. Len(doc)
      /\ ~(p < Len(doc)) => p = Len(doc)
      /\ doc # <<>> => 0 \in 0 .. Len(doc) - 1
      /\ p < Len(doc) => p \in 0 .. Len(doc) - 1
      /\ 0 \in 0 .. Len(doc) /\ Len(doc) \in 0 .. Len(doc)
      /\ doc = <<>> => ~(p < Len(doc))
  BY UModAssumption DEF Unsigned
<1> DEFINE q == IF p < Len(doc) THEN p ELSE IF AtEnd(t, i) THEN Len(doc) ELSE 0
<1>3. q \in Unsigned \intersect 0 .. Len(doc)
  BY <1>2
<1>4. ASSUME t # "insert" PROVE q \in Unsigned \intersect 0 .. Len(doc) - 1
  <2>1. doc # <<>> /\ ~AtEnd(t, i)
    BY <1>1, <1>4 DEF AtEnd
  <2> QED
    BY <1>2, <2>1
<1>5. op = [typ |-> t, pos |-> q] /\ t \in {"insert", "remove", "update"}
  BY <1>1
<1> HIDE DEF q
<1>6. CASE t = "insert"
  BY <1>3, <1>5, <1>6 DEF LocalOp
<1>7. CASE t # "insert"
  BY <1>4, <1>5, <1>7 DEF LocalOp
<1> QED
  BY <1>6, <1>7

(* A pack in which no operation duplicates an earlier one.                 *)
Clean(s) == \A i \in 1 .. Len(s) : ~IsDuplication(s[i], SubSeq(s, 1, i - 1))

LEMMA AppendClean ==
  ASSUME NEW L, NEW s \in Seq(L), Clean(s), NEW op \in L, ~IsDuplication(op, s)
  PROVE  Append(s, op) \in Seq(L) /\ Len(Append(s, op)) = Len(s) + 1 /\ Clean(Append(s, op))
<1> DEFINE a == Append(s, op)
<1>1. /\ a \in Seq(L) /\ Len(a) = Len(s) + 1 /\ Len(s) \in Nat
      /\ \A i \in 1 .. Len(s) : a[i] = s[i]
      /\ a[Len(s) + 1] = op
  BY AppendProperties
<1> HIDE DEF a
<1>2. \A i \in 1 .. Len(s) + 1 :
        /\ Len(SubSeq(a, 1, i - 1)) = i - 1
        /\ \A j \in 1 .. i - 1 : SubSeq(a, 1, i - 1)[j] = s[j]
  BY <1>1
<1>3. \A i \in 1 .. Len(s) :
        /\ Len(SubSeq(s, 1, i - 1)) = i - 1
        /\ \A j \in 1 .. i - 1 : SubSeq(s, 1, i - 1)[j] = s[j]
  OBVIOUS
<1>4. ASSUME NEW i \in 1 .. Len(s) + 1 PROVE ~IsDuplication(a[i], SubSeq(a, 1, i - 1))
  <2>1. CASE i \in 1 .. Len(s)
    <3>1. ~IsDuplication(s[i], SubSeq(s, 1, i - 1)) /\ a[i] = s[i]
      BY <1>1, <2>1 DEF Clean
    <3> QED
      BY <1>2, <1>3, <2>1, <3>1 DEF IsDuplication
  <2>2. CASE i = Len(s) + 1
    <3>1. i - 1 = Len(s) /\ a[i] = op
      BY <1>1, <2>2
    <3> QED
      BY <1>2, <3>1 DEF IsDuplication
  <2> QED
    BY <1>1, <2>1, <2>2
<1> QED
  BY <1>1, <1>4 DEF Clean, a

LEMMA DeduplicatedClean ==
  ASSUME NEW n \in Nat, NEW L, NEW ops \in [1 .. n -> L]
  PROVE  /\ Deduplicated(ops) \in Seq(L)
         /\ Len(Deduplicated(ops)) <= n
         /\ Clean(Deduplicated(ops))
<1> DEFINE next(i, s) == IF IsDuplication(ops[i], s) THEN s ELSE Append(s, ops[i])
           S == {s \in Seq(L) : Clean(s)}
           step == [i \in 1 .. n |-> [s \in S |-> next(i, s)]]
           R(t) == t = [i \in 0 .. n |-> IF i = 0 THEN <<>> ELSE next(i, t[i - 1])]
<1>1. /\ <<>> \in S /\ Len(<<>>) = 0 /\ Len(ops) = n
      /\ \A i \in 1 .. n : ops[i] \in L
      /\ \A s \in S : s \in Seq(L) /\ Clean(s) /\ Len(s) \in Nat
  BY DEF Clean
<1>2. ASSUME NEW i \in 1 .. n, NEW s \in S
      PROVE  next(i, s) \in S /\ Len(next(i, s)) <= Len(s) + 1
  <2>1. CASE IsDuplication(ops[i], s)
    BY <1>1, <2>1
  <2>2. CASE ~IsDuplication(ops[i], s)
    BY <1>1, <2>2, AppendClean
  <2> QED
    BY <2>1, <2>2
<1> HIDE DEF S
<1>3. step \in Steps(n, S)
  <2> HIDE DEF next
  <2> QED
    BY <1>2 DEF Steps
<1>4. PICK g : Iteration(g, n, S, <<>>, step)
  <2> HIDE DEF step
  <2> QED
    BY <1>1, <1>3, Iterates
<1>5. /\ g \in [0 .. n -> S]
      /\ g[0] = <<>>
      /\ \A i \in 1 .. n : g[i] = step[i][g[i - 1]]
  <2> HIDE DEF step
  <2> QED
    BY <1>4 DEF Iteration
<1>6. ASSUME NEW i \in 1 .. n PROVE g[i] = next(i, g[i - 1])
  <2>1. i - 1 \in 0 .. n /\ g[i - 1] \in S
    BY <1>1, <1>5
  <2> HIDE DEF next
  <2>2. step[i][g[i - 1]] = next(i, g[i - 1])
    BY <2>1
  <2> QED
    BY <1>5, <2>2
<1>7. R(g)
  <2> HIDE DEF step, next
  <2>1. g = [i \in 0 .. n |-> g[i]]
    BY <1>5
  <2>2. \A i \in 0 .. n : g[i] = IF i = 0 THEN <<>> ELSE next(i, g[i - 1])
    BY <1>5, <1>6
  <2> QED
    BY <2>1, <2>2
<1> DEFINE t == CHOOSE u : R(u)
<1>8. Deduplicated(ops) = t[n]
  BY <1>1 DEF Deduplicated
<1>9. R(t)
  <2> HIDE DEF R
  <2> QED
    BY <1>7
<1> HIDE DEF t
<1>10. t[0] = <<>> /\ \A i \in 1 .. n : t[i] = next(i, t[i - 1])
  <2> HIDE DEF step, next
  <2> QED
    BY <1>1, <1>9
<1> DEFINE T == {i \in 0 .. n : t[i] \in S /\ Len(t[i]) <= i}
<1> HIDE DEF R, step, next
<1>11. 0 \in T
  BY <1>1, <1>10
<1>12. ASSUME NEW i \in 0 .. n - 1, i \in T PROVE i + 1 \in T
  <2>1. i + 1 \in 1 .. n /\ i + 1 \in 0 .. n /\ (i + 1) - 1 = i /\ t[i] \in S /\ Len(t[i]) <= i
    BY <1>12
  <2>2. t[i + 1] = next(i + 1, t[i])
    BY <1>10, <2>1
  <2>3. next(i + 1, t[i]) \in S /\ Len(next(i + 1, t[i])) <= Len(t[i]) + 1
    BY <1>2, <2>1
  <2>4. Len(t[i]) \in Nat /\ Len(next(i + 1, t[i])) \in Nat
    BY <1>1, <2>1, <2>3
  <2> QED
    BY <2>1, <2>2, <2>3, <2>4
<1>13. n \in T
  <2> HIDE DEF T
  <2>1. 0 .. n \subseteq T
    BY <1>11, <1>12, UpTo
  <2> QED
    BY <2>1
<1> QED
  BY <1>1, <1>8, <1>13

LEMMA CreatedOpsAllowed ==
  ASSUME NEW doc \in Seq(Value)
  PROVE  CreatedOps(doc) \subseteq LocalOps(doc)
<1> DEFINE made == {ops \in [1 .. OpsPerRound -> UNION {CreatedOp(doc, i) : i \in 1 .. OpsPerRound}] :
                      \A i \in 1 .. OpsPerRound : ops[i] \in CreatedOp(doc, i)}
<1>1. OpsPerRound \in 0 .. MaxPack /\ OpsPerRound \in Nat /\ MaxPack \in Nat
  BY DriverConstants
<1>2. \A ops \in made : ops \in [1 .. OpsPerRound -> LocalOp(doc)]
  BY CreatedOpAllowed
<1>3. CreatedOps(doc) = IF Filtered THEN {Deduplicated(ops) : ops \in made} ELSE made
  BY DEF CreatedOps
<1> HIDE DEF made
<1>4. CASE ~Filtered
  BY <1>1, <1>2, <1>3, <1>4 DEF LocalOps
<1>5. CASE Filtered
  <2> SUFFICES ASSUME NEW ops \in made PROVE Deduplicated(ops) \in LocalOps(doc)
    BY <1>3, <1>5
  <2> DEFINE d == Deduplicated(ops)
  <2>1. d \in Seq(LocalOp(doc)) /\ Len(d) <= OpsPerRound /\ Clean(d)
    BY <1>1, <1>2, DeduplicatedClean
  <2> HIDE DEF d
  <2>2. Len(d) \in 0 .. MaxPack /\ d \in [1 .. Len(d) -> LocalOp(doc)]
    BY <1>1, <2>1
  <2> QED
    BY <2>1, <2>2 DEF LocalOps, Clean, d
<1> QED
  BY <1>4, <1>5

-----------------------------------------------------------------------------
(* Nothing is pushed outside the loop of pushes, in which the clients from *)
(* turn on have not pushed yet; and the round is one of the loop's.        *)
Orderly ==
  /\ phase # "push" => accum = <<>>
  /\ \A c \in Connected : (phase = "push" => turn <= c) => applied[c] = <<>>
  /\ phase = "push" => turn <= connected + 1
  /\ phase # "done" => round <= Rounds

(* The types are those of the classes, too: which packs a client makes     *)
(* depends on its array.                                                   *)
DriverInv == TypeOK /\ DriverTypeOK /\ Orderly

LEMMA InitOrderly == DriverInit => DriverInv
<1> SUFFICES ASSUME DriverInit PROVE DriverInv
  OBVIOUS
<1>1. TypeOK
  BY InitTyped DEF DriverInit
<1>2. NClients \in Nat /\ Rounds \in Nat
  BY Constants, DriverConstants
<1>3. DriverTypeOK
  BY <1>2 DEF DriverInit, DriverTypeOK
<1>4. Orderly
  BY <1>2 DEF DriverInit, Orderly, Init, Connected
<1> QED
  BY <1>1, <1>3, <1>4 DEF DriverInv

(* Every call of the loop is one the classes allow.                        *)
LEMMA StepAllowed ==
  ASSUME DriverInv, [DriverNext]_dvars
  PROVE  [Next]_vars
<1>1. CASE Join
  <2>1. (MayConnect /\ Connect) \/ UNCHANGED vars
    BY <1>1 DEF Join
  <2> QED
    BY <2>1 DEF Next
<1>2. CASE Push
  <2>1. PICK ops \in CreatedOps(datas[turn]) : MakeLocalOps(turn, ops)
    BY <1>2 DEF Push
  <2>2. turn \in Connected /\ turn \in Nat /\ MayPush(turn)
    BY <1>2 DEF Push, DriverInv, Orderly, MayPush, Connected
  <2>3. datas[turn] \in Seq(Value)
    BY <2>2, Constants DEF DriverInv, TypeOK, Connected
  <2>4. ops \in LocalOps(datas[turn])
    BY <2>3, CreatedOpsAllowed
  <2> QED
    BY <2>1, <2>2, <2>4 DEF Next
<1>3. CASE Sync
  BY <1>3 DEF Sync, Next
<1>4. CASE Test
  BY <1>4 DEF Test
<1>5. CASE NewSession
  <2>1. MayReset
    BY <1>5 DEF NewSession, DriverInv, Orderly, MayReset
  <2> QED
    BY <1>5, <2>1 DEF NewSession, Next
<1>6. CASE UNCHANGED dvars
  BY <1>6 DEF dvars
<1> QED
  BY <1>1, <1>2, <1>3, <1>4, <1>5, <1>6 DEF DriverNext

LEMMA StepTyped ==
  ASSUME DriverInv, [DriverNext]_dvars
  PROVE  DriverTypeOK'
<1>1. NClients \in Nat /\ Rounds \in Nat /\ connected \in 0 .. NClients
  BY Constants, DriverConstants DEF DriverInv, TypeOK
<1>2. CASE Join
  BY <1>1, <1>2 DEF Join, DriverInv, DriverTypeOK
<1>3. CASE Push
  <2>1. turn \in 1 .. NClients
    BY <1>1, <1>3 DEF Push, Connected
  <2> QED
    BY <1>1, <1>3, <2>1 DEF Push, DriverInv, DriverTypeOK
<1>4. CASE Sync
  BY <1>4 DEF Sync, DriverInv, DriverTypeOK
<1>5. CASE Test
  <2>1. round \in 0 .. Rounds /\ UInc(round) = round + 1
    BY <1>1, <1>5, DriverConstants DEF Test, DriverInv, DriverTypeOK, Orderly
  <2> QED
    BY <1>1, <1>5, <2>1 DEF Test, DriverInv, DriverTypeOK
<1>6. CASE NewSession
  BY <1>1, <1>6 DEF NewSession, DriverTypeOK
<1>7. CASE UNCHANGED dvars
  BY <1>7 DEF dvars, DriverInv, DriverTypeOK
<1> QED
  BY <1>2, <1>3, <1>4, <1>5, <1>6, <1>7 DEF DriverNext

LEMMA StepOrderly ==
  ASSUME DriverInv, [DriverNext]_dvars
  PROVE  Orderly'
<1>1. /\ NClients \in Nat /\ Rounds \in Nat /\ connected \in 0 .. NClients
      /\ applied \in [Client -> Seq(OpDescriptor)]
      /\ Connected \subseteq Client
  BY Constants, DriverConstants DEF DriverInv, TypeOK, Connected, Client
<1>2. CASE Join
  <2>1. /\ phase = "join" /\ phase' = "push" /\ turn' = 1 /\ round' = round /\ round <= Rounds
        /\ \A c \in Connected : applied[c] = <<>>
    BY <1>2 DEF Join, DriverInv, Orderly
  <2>2. connected' \in Nat /\ \A c \in Connected' : applied'[c] = <<>>
    <3>1. CASE MayConnect /\ Connect
      <4>1. /\ connected' = connected + 1
            /\ applied' = [applied EXCEPT ![connected + 1] = <<>>]
            /\ connected + 1 \in Client
        BY <1>1, <3>1 DEF MayConnect, Connect, Connecting, Clone, Client
      <4> QED
        BY <1>1, <2>1, <4>1 DEF Connected
    <3>2. CASE UNCHANGED vars
      BY <1>1, <2>1, <3>2 DEF vars, Connected
    <3> QED
      BY <1>2, <3>1, <3>2 DEF Join
  <2>3. (phase # "push" => accum = <<>>)' /\ (phase # "done" => round <= Rounds)'
    BY <2>1
  <2>4. (phase = "push" => turn <= connected + 1)'
    <3>1. PICK n \in Nat : n = connected'
      BY <2>2
    <3>2. 1 <= n + 1
      OBVIOUS
    <3> QED
      BY <2>1, <3>1, <3>2
  <2>5. (\A c \in Connected : (phase = "push" => turn <= c) => applied[c] = <<>>)'
    BY <2>2
  <2> QED
    BY <2>3, <2>4, <2>5 DEF Orderly
<1>3. CASE Push
  <2>1. PICK ops \in CreatedOps(datas[turn]) : MakeLocalOps(turn, ops)
    BY <1>3 DEF Push
  <2>2. /\ phase = "push" /\ phase' = "push" /\ turn \in Connected /\ turn' = turn + 1
        /\ round' = round /\ connected' = connected
        /\ applied' = [applied EXCEPT ![turn] = Kept(Signed(turn, ops))]
    BY <1>3, <2>1 DEF Push, MakeLocalOps, Pushing
  <2>3. \A c \in Connected : turn + 1 <= c => applied'[c] = <<>>
    <3>1. \A c \in Connected : turn <= c => applied[c] = <<>>
      BY <2>2 DEF DriverInv, Orderly
    <3>2. \A c \in Connected : turn + 1 <= c => c # turn /\ turn <= c
      BY <1>1, <2>2 DEF Connected
    <3> QED
      BY <1>1, <2>2, <3>1, <3>2
  <2>4. turn + 1 <= connected + 1 /\ round <= Rounds
    BY <1>1, <2>2 DEF Connected, DriverInv, Orderly
  <2> QED
    BY <2>2, <2>3, <2>4 DEF Orderly, Connected
<1>4. CASE Sync
  <2>1. /\ phase = "push" /\ phase' = "test" /\ round' = round
        /\ accum' = <<>> /\ connected' = connected
        /\ applied' = [c \in Client |-> IF c \in Connected THEN <<>> ELSE applied[c]]
    BY <1>4 DEF Sync, Update, Updating
  <2>2. \A c \in Connected : applied'[c] = <<>>
    BY <1>1, <2>1
  <2> QED
    BY <2>1, <2>2 DEF Orderly, Connected, DriverInv
<1>5. CASE Test
  <2>1. round \in 0 .. Rounds /\ UInc(round) = round + 1
    BY <1>1, <1>5, DriverConstants DEF Test, DriverInv, DriverTypeOK, Orderly
  <2>2. /\ phase = "test" /\ phase' \in {"join", "done"} /\ round' = round + 1
        /\ round = Rounds => phase' = "done"
        /\ accum' = accum /\ connected' = connected /\ applied' = applied
    BY <1>5, <2>1 DEF Test, vars
  <2>3. phase' # "done" => round' <= Rounds
    BY <1>1, <2>1, <2>2
  <2> QED
    BY <2>2, <2>3 DEF Orderly, Connected, DriverInv
<1>6. CASE NewSession
  <2>1. /\ phase = "done" /\ phase' = "join" /\ round' = 0
        /\ accum' = accum /\ connected' = 0
    BY <1>6 DEF NewSession, Reset, Resetting
  <2> QED
    BY <1>1, <2>1 DEF Orderly, Connected, DriverInv
<1>7. CASE UNCHANGED dvars
  BY <1>7 DEF dvars, vars, DriverInv, Orderly, Connected
<1> QED
  BY <1>2, <1>3, <1>4, <1>5, <1>6, <1>7 DEF DriverNext

LEMMA StepDriverInv == DriverInv /\ [DriverNext]_dvars => DriverInv'
<1> SUFFICES ASSUME DriverInv, [DriverNext]_dvars PROVE DriverInv'
  OBVIOUS
<1>1. TypeOK'
  BY StepAllowed, NextTyped DEF DriverInv
<1> QED
  BY <1>1, StepTyped, StepOrderly DEF DriverInv

(* The loop stays within its rounds and its clients, and pushes nothing    *)
(* but between a connection and the update.                                *)
THEOREM DriverInvariance == Driver => []DriverInv
  BY InitOrderly, StepDriverInv, PTL DEF Driver

(* Type correctness of the loop: its counter goes one past the last round  *)
(* and never wraps around.                                                 *)
THEOREM DriverTypeCorrect == Driver => []DriverTypeOK
  BY DriverInvariance, PTL DEF DriverInv

(* The loop calls the classes only as they allow: connect while there is   *)
(* room in the vectors, push once between two updates, what                *)
(* createLocalOps makes on the client's array and (in the tests) without   *)
(* duplications, clear the server only when all that was pushed was sent.  *)
THEOREM CallsStayAllowed == Driver => CallsAllowed
<1>1. DriverInit => Init
  BY DEF DriverInit
<1>2. DriverInv /\ [DriverNext]_dvars => [Next]_vars
  BY StepAllowed
<1> QED
  BY <1>1, <1>2, DriverInvariance, PTL DEF Driver, CallsAllowed, Spec

(* Hence the replicas converge in the program, too, and the comparison     *)
(* that TrivialClientServer makes after an update does not fail.           *)
THEOREM ReplicasConverge ==
  ASSUME NoDuplications
  PROVE  Driver => [](Converged /\ (phase # "push" => Consistent))
<1>1. DriverInv /\ Converged => (phase # "push" => Consistent)
  BY DEF DriverInv, Orderly, Converged, Consistent
<1>2. Driver => []Converged
  BY CallsStayAllowed, AllConverge DEF CallsAllowed
<1> QED
  BY <1>1, <1>2, DriverInvariance, PTL
=============================================================================
