---------------------------- MODULE ClientServer ----------------------------
(***************************************************************************)
(* Server<C> and the Client<C>s connected to it (comm/server.hpp,          *)
(* comm/client.hpp), with the vectors their owner keeps them in (main.cpp, *)
(* tests-clients-server.cpp).  Calls are synchronous, but nothing in the   *)
(* classes fixes the order in which their owner makes them: a client may   *)
(* connect, and any client may push, at any time between two updates.      *)
(***************************************************************************)
EXTENDS Ops

CONSTANTS
  NClients,       (* how many clients can connect                          *)
  InitSize,       (* the length of the first document                      *)
  OldValue(_),    (* what an owner writes into element i of the document   *)
  NewValue(_, _), (* the value of the operation a client signs with a rev  *)
  Filtered,       (* TRUE: packs are made as in the tests, with            *)
                  (* isDuplication; FALSE: as in main.cpp, without         *)
  MaxPack,        (* bound: operations in one pack                         *)
  MaxOps,         (* bound: operations one client makes                    *)
  MaxRounds,      (* bound: updates in one session                         *)
  MaxSessions     (* bound: sessions after the first                       *)

Client == 1 .. NClients

ASSUME ClientServerAssumption ==
  /\ {NClients, InitSize, MaxPack, MaxOps, MaxRounds, MaxSessions} \subseteq Unsigned
  /\ InitSize + NClients * MaxOps * (MaxSessions + 1) < UMod
  /\ Filtered \in BOOLEAN
  /\ \A i \in Unsigned : OldValue(i) \in Value
  /\ \A c \in Client, r \in Unsigned : NewValue(c, r) \in Value

VARIABLES
  datas,      (* datas[c]: the array of client c; datas[0] is the server's *)
  connected,  (* clients 1 .. connected are in Server::clients             *)
  rev,        (* Server::rev: updates made                                 *)
  accum,      (* Server::accum: what was pushed since the last update      *)
  servRev,    (* Client::servRev: the update the client knows of           *)
  crev,       (* Client::rev: the number of the client's next operation    *)
  applied,    (* Client::applied: own operations the update must go past   *)
  stale,      (* the clients, or 0, a reallocation left dangling pointers  *)
  session     (* sessions ended, only to bound them                        *)

vars == <<datas, connected, rev, accum, servRev, crev, applied, stale, session>>

Connected == 1 .. connected

(* The owner's vectors never grow past what was reserved for them, or the  *)
(* pointers into them that State and Server keep would dangle.             *)
ReservedForClients == NClients  (* broken: without the server's array      *)
ReservedDatas   == NClients + 1
ReservedClients == NClients

(* for i: array[i] = start + i                                             *)
Numbered(n) == [i \in 1 .. n |-> OldValue((i - 1) % UMod)]

-----------------------------------------------------------------------------
Init ==
  /\ datas = [c \in 0 .. NClients |-> IF c = 0 THEN Numbered(InitSize) ELSE <<>>]
  /\ connected = 0
  /\ rev = 0
  /\ accum = <<>>
  /\ servRev = [c \in Client |-> 0]
  /\ crev = [c \in Client |-> 0]
  /\ applied = [c \in Client |-> <<>>]
  /\ stale = {}
  /\ session = 0

(* Server::clone: the place of the new array, the server's revision, and   *)
(* what the new array holds.                                               *)
CloneOfNoRev == [cid |-> connected + 1, rev |-> 0, data |-> datas[0]]  (* broken *)
Clone == [cid |-> connected + 1, rev |-> rev, data |-> datas[0]]

(* A new Client, clients.emplace_back, and Client::connect.  How many      *)
(* there may be is up to the owner: MayConnect is what its loop sees to.   *)
(* Of each action there is a part that does not name the arrays, to be     *)
(* used where they are more than sequences (ClientServerArrays).           *)
MayConnect == connected < NClients

Connecting ==
  /\ stale = {}
  /\ LET c == Clone.cid
     IN  /\ connected' = c
         /\ servRev' = [servRev EXCEPT ![c] = Clone.rev]
         /\ crev' = [crev EXCEPT ![c] = 0]
         /\ applied' = [applied EXCEPT ![c] = <<>>]
         /\ stale' = IF c + 1 > ReservedDatas \/ c > ReservedClients
                     THEN 0 .. connected ELSE {}
  /\ UNCHANGED <<rev, accum, session>>

Connect == Connecting /\ datas' = [datas EXCEPT ![Clone.cid] = Clone.data]

(* What an owner may ask of a client that sees doc (createLocalOps).       *)
LocalOp(doc) ==
  [typ : {"insert"}, pos : Unsigned \intersect 0 .. Len(doc)]
    \union [typ : {"remove", "update"}, pos : Unsigned \intersect 0 .. Len(doc) - 1]

LocalOps(doc) ==
  {ops \in UNION {[1 .. k -> LocalOp(doc)] : k \in 0 .. MaxPack} :
     Filtered => \A i \in 1 .. Len(ops) : ~IsDuplication(ops[i], SubSeq(ops, 1, i - 1))}

(* Broken: every operation of a pack gets the same number.                 *)
SignedAlike(c, ops) ==
  [i \in 1 .. Len(ops) |->
     MakeOp(ops[i].typ, ops[i].pos, NewValue(c, crev[c]), c, crev[c])]

(* The client signs the operations with its cid and its counter.           *)
Signed(c, ops) ==
  [i \in 1 .. Len(ops) |->
     LET r == crev[c] + i - 1
     IN  MakeOp(ops[i].typ, ops[i].pos, NewValue(c, r), c, r)]

(* What the client keeps to go past when the others' operations come: the  *)
(* pack as it was signed, not as State::apply(pack) transformed it.        *)
KeptNot(pack) == <<>>  (* broken: as after updateFromServer *)
Kept(pack) == pack

(* Client::makeLocalOps with Server::push.  What their assertions ask is   *)
(* no guard: MayPush is what the owner has to see to, PushInSync what the  *)
(* classes do.                                                             *)
MayPush(c) == applied[c] = <<>>

Pushing(c, ops) ==
  /\ stale = {}
  /\ crev[c] + Len(ops) <= MaxOps
  /\ crev' = [crev EXCEPT ![c] = @ + Len(ops)]
  /\ accum' = accum \o Signed(c, ops)
  /\ applied' = [applied EXCEPT ![c] = Kept(Signed(c, ops))]
  /\ UNCHANGED <<connected, rev, servRev, stale, session>>

MakeLocalOps(c, ops) ==
  /\ Pushing(c, ops)
  /\ datas' = [datas EXCEPT ![c] = ApplyPack(@, Signed(c, ops))]

(* Server::update, with Client::updateFromServer of every client: each     *)
(* goes past its own operations, the server past none.                     *)
Updating ==
  /\ stale = {}
  /\ rev < MaxRounds
  /\ rev' = rev + 1
  /\ servRev' = [c \in Client |-> IF c \in Connected THEN rev' ELSE servRev[c]]
  /\ applied' = [c \in Client |-> IF c \in Connected THEN <<>> ELSE applied[c]]
  /\ accum' = <<>>
  /\ UNCHANGED <<connected, crev, stale, session>>

Update ==
  /\ Updating
  /\ datas' = [c \in 0 .. NClients |->
       CASE c = 0                            -> ApplyFromOthers(0, datas[0], <<>>, accum)
         [] c \in Connected                  -> ApplyFromOthers(c, datas[c], applied[c], accum)
         [] c \notin Connected /\ c # 0      -> datas[c]]

(* The fixture's reset: Server::clear, the clients destroyed, the server's *)
(* array kept and numbered, Server::init.  Server::clear leaves accum      *)
(* alone: MayReset is what the owner has to see to.                        *)
MayReset == accum = <<>>

Resetting ==
  /\ stale = {}
  /\ session < MaxSessions
  /\ session' = session + 1
  /\ connected' = 0
  /\ rev' = 0
  /\ servRev' = [c \in Client |-> 0]
  /\ crev' = [c \in Client |-> 0]
  /\ applied' = [c \in Client |-> <<>>]
  /\ UNCHANGED <<accum, stale>>

Reset ==
  /\ Resetting
  /\ datas' = [c \in 0 .. NClients |-> IF c = 0 THEN Numbered(Len(datas[0])) ELSE <<>>]

Next ==
  \/ MayConnect /\ Connect
  \/ \E c \in Connected :
       MayPush(c) /\ \E ops \in LocalOps(datas[c]) : MakeLocalOps(c, ops)
  \/ Update
  \/ MayReset /\ Reset

Spec == Init /\ [][Next]_vars

-----------------------------------------------------------------------------
TypeOK ==
  /\ datas \in [0 .. NClients -> Seq(Value)]
  /\ connected \in 0 .. NClients
  /\ rev \in 0 .. MaxRounds
  /\ accum \in Seq(OpDescriptor)
  /\ servRev \in [Client -> 0 .. MaxRounds]
  /\ crev \in [Client -> 0 .. MaxOps]
  /\ applied \in [Client -> Seq(OpDescriptor)]
  /\ stale \subseteq 0 .. NClients
  /\ session \in 0 .. MaxSessions

(* When nothing is left to be sent, everyone has the server's document     *)
(* (the readme's "all of them eventually seeing the same result locally",  *)
(* checkStates in main.cpp and in the tests).                              *)
Converged == accum = <<>> => \A c \in Connected : datas[c] = datas[0]

(* Server::push asserts that the client has seen every update.             *)
PushInSync == \A c \in Connected : servRev[c] = rev

(* updateFromServer skips the operations of accum that are its client's,   *)
(* on the assumption that they are those the client keeps and has applied  *)
(* ("Assume it's already applied and present in pack", state.hpp): no      *)
(* operation reaches a replica twice, or never.                            *)
OwnOpsKept ==
  /\ \A c \in Client : Range(applied[c]) = {op \in Range(accum) : op.cid = c}
  /\ \A i, j \in 1 .. Len(accum) :
       accum[i].cid = accum[j].cid /\ accum[i].rev = accum[j].rev => i = j

(* What an update is about to apply to a replica: each operation, with the *)
(* replica as the operations before it leave it.                           *)
BeforeOp(c, i) ==
  IntegrateAll([doc |-> datas[c], pack |-> IF c = 0 THEN <<>> ELSE applied[c]],
               SubSeq(accum, 1, i - 1), {c})

(* An update never needs the fallbacks of State::apply (append, or the     *)
(* last element): every transformed position names a place of the array,   *)
(* and none has wrapped around below 0.                                    *)
UpdateInBounds ==
  \A c \in 0 .. connected : \A i \in 1 .. Len(accum) :
    accum[i].cid # c =>
      InBounds(BeforeOp(c, i).doc, TransformAll(accum[i], BeforeOp(c, i).pack))

(* No pointer into the owner's vectors dangles ("N.B. Will cause a failure *)
(* without proper reserve", Server::clone).                                *)
PointersValid == stale = {}

(* The system is one document edited in rounds: what clients see between   *)
(* updates is the merge of their own operations with it, and an update     *)
(* merges everyone's.                                                      *)
Shared == INSTANCE SharedDocument WITH
  InitDoc   <- Numbered(InitSize),
  Rewritten <- LAMBDA d : Numbered(Len(d)),
  doc       <- datas[0],
  joined    <- connected,
  pending   <- [c \in Client |-> Range(applied[c])],
  view      <- [c \in Client |-> datas[c]]

ImplementsSharedDocument == Shared!Spec
=============================================================================
