------------------------------- MODULE Vector -------------------------------
(***************************************************************************)
(* What IgushArray<T> promises ("totally implements std::vector            *)
(* interface"): a sequence with the operations of std::vector, none of     *)
(* which is refused.                                                       *)
(***************************************************************************)
EXTENDS SequenceCalls

VARIABLES
  contents,
  call      (* the last call: its name and arguments                       *)

vars == <<contents, call>>

Init == contents = <<>> /\ call = <<"create">>

Next == contents' = Result(contents, call')

Spec == Init /\ [][Next]_vars
=============================================================================
