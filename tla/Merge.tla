------------------------------- MODULE Merge -------------------------------
(***************************************************************************)
(* What a set of concurrent operations means, without any order in which   *)
(* they are applied: the reference the transformation of Ops is checked    *)
(* against.  The code has no such function: the readme asks that all users *)
(* eventually see the same result, the table in OpDescriptor::trans and    *)
(* the comments of ops.hpp say which operation wins.                       *)
(*                                                                         *)
(* The elements that survive in the document and the inserted ones are     *)
(* items; each item has a key, and the merged document is the items in the *)
(* order of their keys.                                                    *)
(***************************************************************************)
EXTENDS Integers, Sequences, FiniteSets

(* Element p of the document (numbered from 0) comes after everything that *)
(* is inserted at p.                                                       *)
OldKey(p) == <<p, 1, 0, 0>>

(* Of two inserts at one position the lower cid comes first; of two by the *)
(* same client, the later one.                                             *)
NewKey(op) == <<op.pos, 0, op.cid, -op.rev>>

Before(x, y) ==
  \E k \in 1 .. 4 : x[k] < y[k] /\ \A j \in 1 .. k - 1 : x[j] = y[j]

AtPos(ops, t, p) == {op \in ops : op.typ = t /\ op.pos = p}
Inserts(ops)     == {op \in ops : op.typ = "insert"}

Items(doc, ops) ==
  {OldKey(p) : p \in {q \in 0 .. Len(doc) - 1 : AtPos(ops, "remove", q) = {}}}
    \union {NewKey(op) : op \in Inserts(ops)}

(* Of several updates of one element the lowest cid wins, and its latest.  *)
Winner(updates) ==
  CHOOSE u \in updates : \A v \in updates :
    u.cid < v.cid \/ (u.cid = v.cid /\ u.rev >= v.rev)

ItemValue(doc, ops, x) ==
  IF x[2] = 0
  THEN (CHOOSE op \in Inserts(ops) : NewKey(op) = x).value
  ELSE LET updates == AtPos(ops, "update", x[1])
       IN  IF updates = {} THEN doc[x[1] + 1] ELSE Winner(updates).value

Rank(items, x) == Cardinality({y \in items : Before(y, x)})

Merge(doc, ops) ==
  LET items == Items(doc, ops)
  IN  [i \in 1 .. Cardinality(items) |->
         ItemValue(doc, ops, CHOOSE x \in items : Rank(items, x) = i - 1)]

(* Operations made on doc, each named by its author's cid and rev.         *)
WellFormed(doc, ops) ==
  /\ \A op \in ops :
       op.pos \in 0 .. (IF op.typ = "insert" THEN Len(doc) ELSE Len(doc) - 1)
  /\ \A p, q \in ops : p.cid = q.cid /\ p.rev = q.rev => p = q
=============================================================================
