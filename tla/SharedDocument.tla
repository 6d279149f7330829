--------------------------- MODULE SharedDocument ---------------------------
(***************************************************************************)
(* What the client-server system promises: one document that clients edit  *)
(* in rounds.  A client sees its own edits at once and the others' edits   *)
(* when the round is closed; closing a round merges all edits made in it   *)
(* and shows everyone the result.  No operation is transformed here, and   *)
(* no order of messages or of clients exists.                              *)
(***************************************************************************)
EXTENDS Merge

CONSTANTS
  Client,       (* 1 .. n: those that can join, in this order              *)
  InitDoc,      (* the document of the first session                       *)
  Rewritten(_)  (* the document a new session makes of an old one          *)

VARIABLES
  doc,      (* the document as of the last closed round                    *)
  joined,   (* how many clients take part                                  *)
  pending,  (* pending[c]: the operations c made since                     *)
  view      (* view[c]: what c sees                                        *)

vars == <<doc, joined, pending, view>>

Joined == 1 .. joined

Empty(x) == [c \in Client |-> x]

Init ==
  /\ doc = InitDoc
  /\ joined = 0
  /\ pending = Empty({})
  /\ view = Empty(<<>>)

(* A client may join in the middle of a round.                             *)
Join ==
  /\ joined + 1 \in Client
  /\ joined' = joined + 1
  /\ view' = [view EXCEPT ![joined + 1] = doc]
  /\ UNCHANGED <<doc, pending>>

(* A client makes its edits of the round, all on the document it sees.     *)
Edit(c) ==
  /\ pending[c] = {}
  /\ \A op \in pending'[c] : op.cid = c
  /\ WellFormed(doc, pending'[c])
  /\ pending' = [pending EXCEPT ![c] = pending'[c]]
  /\ view' = [view EXCEPT ![c] = Merge(doc, pending'[c])]
  /\ UNCHANGED <<doc, joined>>

Close ==
  /\ doc' = Merge(doc, UNION {pending[c] : c \in Joined})
  /\ view' = [c \in Client |-> IF c \in Joined THEN doc' ELSE view[c]]
  /\ pending' = Empty({})
  /\ UNCHANGED joined

(* Everyone leaves and the document is written anew.                       *)
Restart ==
  /\ pending = Empty({})
  /\ doc' = Rewritten(doc)
  /\ joined' = 0
  /\ view' = Empty(<<>>)
  /\ UNCHANGED pending

Next == Join \/ (\E c \in Joined : Edit(c)) \/ Close \/ Restart

Spec == Init /\ [][Next]_vars
=============================================================================
