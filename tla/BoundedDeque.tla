---------------------------- MODULE BoundedDeque ----------------------------
(***************************************************************************)
(* What FixedDeque<T> promises: a sequence of at most MaxSize elements,    *)
(* changed at either end or inside.  A call that would not fit, or that    *)
(* needs an element when there is none, throws and changes nothing.        *)
(***************************************************************************)
EXTENDS SequenceCalls

CONSTANT MaxSize  (* the argument of the constructor                       *)

VARIABLES
  contents,
  thrown,   (* the last call threw                                         *)
  call      (* the last call: its name and arguments                       *)

vars == <<contents, thrown, call>>

Init == contents = <<>> /\ thrown = FALSE /\ call = <<"create">>

Next ==
  /\ thrown' = Throws(MaxSize, contents, call')
  /\ contents' = IF thrown' THEN contents ELSE Result(contents, call')

Spec == Init /\ [][Next]_vars
=============================================================================
