------------------------ MODULE TrivialClientServer ------------------------
(***************************************************************************)
(* The owner of the server and the clients: TrivialClientServer::run of    *)
(* main.cpp and, with Filtered, the run of the fixture in                  *)
(* tests-clients-server.cpp, with the loop of CatchConcurentPackets around *)
(* it.  One loop: perhaps a new client, a pack from every client, an       *)
(* update, a test; and, in the fixture, a reset and the loop again.        *)
(***************************************************************************)
EXTENDS ClientServer

CONSTANTS
  Rounds,       (* the last round                                          *)
  OpsPerRound,  (* operations a client makes in one round                  *)
  JoinPeriod,   (* rounds between two new clients: 4 in main.cpp, 1 in the *)
                (* tests                                                   *)
  TestPeriod,   (* rounds between two comparisons of the replicas; 0: 1800 *)
  MaxStart      (* bound: the length of the array a session takes over     *)

ASSUME DriverAssumption ==
  /\ {OpsPerRound, TestPeriod, MaxStart} \subseteq Unsigned
  /\ OpsPerRound <= MaxPack
  /\ JoinPeriod \in Unsigned \ {0}
  /\ {Rounds, Rounds + 1} \subseteq Unsigned  (* r <= rounds ends the loop *)

VARIABLES
  phase,  (* where the loop is                                             *)
  round,  (* its counter r                                                 *)
  turn    (* the client whose pack is next                                 *)

dvars == <<vars, phase, round, turn>>

(* createLocalOps.  A position at the end becomes 0, unless the operation  *)
(* is an insert and the number it is made with (its index in the pack, in  *)
(* the tests the first revision of the round) is odd.                      *)
AtEnd(t, i) ==
  /\ t = "insert"
  /\ IF Filtered THEN (round * OpsPerRound) % 2 = 1 ELSE (i - 1) % 2 = 1

CreatedOp(doc, i) ==
  {[typ |-> t,
    pos |-> IF p < Len(doc) THEN p ELSE IF AtEnd(t, i) THEN Len(doc) ELSE 0] :
      p \in Unsigned \intersect 0 .. Len(doc),
      t \in IF doc = <<>> THEN {"insert"} ELSE {"insert", "remove", "update"}}

Deduplicated(ops) ==
  LET pack[i \in 0 .. Len(ops)] ==
        IF i = 0 THEN <<>>
        ELSE IF IsDuplication(ops[i], pack[i - 1]) THEN pack[i - 1]
        ELSE Append(pack[i - 1], ops[i])
  IN  pack[Len(ops)]

CreatedOps(doc) ==
  LET made == {ops \in [1 .. OpsPerRound -> UNION {CreatedOp(doc, i) : i \in 1 .. OpsPerRound}] :
                 \A i \in 1 .. OpsPerRound : ops[i] \in CreatedOp(doc, i)}
  IN  IF Filtered THEN {Deduplicated(ops) : ops \in made} ELSE made

Compared == round % (IF TestPeriod = 0 THEN 1800 ELSE TestPeriod) = 0

Consistent == \A c \in Connected : datas[c] = datas[0]

-----------------------------------------------------------------------------
DriverInit == Init /\ phase = "join" /\ round = 0 /\ turn = 1

Join ==
  /\ phase = "join"
  /\ IF round % JoinPeriod = 0 /\ MayConnect
     THEN Connect ELSE UNCHANGED vars
  /\ phase' = "push" /\ turn' = 1
  /\ UNCHANGED round

(* Broken: a client pushes again before the update.                        *)
PushTwice ==
  /\ phase = "push" /\ turn \in Connected
  /\ \E ops \in CreatedOps(datas[turn]) : MakeLocalOps(turn, ops)
  /\ \E next \in {turn, turn + 1} : turn' = next
  /\ UNCHANGED <<phase, round>>

Push ==
  /\ phase = "push" /\ turn \in Connected
  /\ \E ops \in CreatedOps(datas[turn]) : MakeLocalOps(turn, ops)
  /\ turn' = turn + 1
  /\ UNCHANGED <<phase, round>>

Sync ==
  /\ phase = "push" /\ turn \notin Connected
  /\ Update
  /\ phase' = "test"
  /\ UNCHANGED <<round, turn>>

(* Broken: the loop makes one round too many.                             *)
TestOneMore ==
  /\ phase = "test"
  /\ round' = UInc(round)
  /\ phase' = IF round = Rounds + 1 \/ (Compared /\ ~Consistent)
              THEN "done" ELSE "join"
  /\ UNCHANGED <<vars, turn>>

(* The loop is left after its last round, or, in main.cpp, at a failed     *)
(* comparison (in the fixture the comparison only returns).                *)
Test ==
  /\ phase = "test"
  /\ round' = UInc(round)
  /\ phase' = IF round = Rounds \/ (~Filtered /\ Compared /\ ~Consistent)
              THEN "done" ELSE "join"
  /\ UNCHANGED <<vars, turn>>

(* Broken: the session ends before the update.                             *)
NewSessionEarly ==
  /\ phase \in {"push", "done"}
  /\ Reset
  /\ phase' = "join" /\ round' = 0 /\ turn' = 1

(* CatchConcurentPackets: reset, and another run (main.cpp: one session).  *)
NewSession ==
  /\ phase = "done"
  /\ Len(datas[0]) <= MaxStart
  /\ Reset
  /\ phase' = "join" /\ round' = 0 /\ turn' = 1

DriverNext == Join \/ Push \/ Sync \/ Test \/ NewSession

Driver == DriverInit /\ [][DriverNext]_dvars

(* One thread runs the loop, and no call in it waits for anything.         *)
FairDriver == Driver /\ WF_dvars(DriverNext)

-----------------------------------------------------------------------------
DriverTypeOK ==
  /\ phase \in {"join", "push", "test", "done"}
  /\ round \in 0 .. Rounds + 1
  /\ turn \in 1 .. NClients + 1

(* The loop calls the classes only as they allow: a client is connected    *)
(* before it pushes and pushes once between two updates (the assertions of *)
(* Client::makeLocalOps), and the server is cleared only when it has sent  *)
(* all that was pushed (Server::clear keeps what is left in accum).        *)
CallsAllowed == Spec

(* What a client inserts comes to be in every replica.                     *)
InsertsReachAll ==
  \A c \in Client : \A r \in 0 .. MaxOps - 1 :
    (\E i \in 1 .. Len(accum) : accum[i].typ = "insert" /\ accum[i].cid = c /\ accum[i].rev = r)
      ~> \A d \in {0} \union Connected : NewValue(c, r) \in Range(datas[d])

(* The program ends, and does not print "Consistency lost".                *)
EndsConsistent == <>[](phase = "done" /\ Consistent)
=============================================================================
