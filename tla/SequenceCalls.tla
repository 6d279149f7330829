--------------------------- MODULE SequenceCalls ---------------------------
(***************************************************************************)
(* What the calls of std::deque and std::vector make of a sequence, and    *)
(* when a bounded deque refuses one.  A call is its name and arguments;    *)
(* positions in it are counted from 0, as in the code.                     *)
(***************************************************************************)
EXTENDS Naturals, Sequences, SequencesExt

Copies(n, x) == [i \in 1 .. n |-> x]

(* s without its elements j+1 .. k, if there are any.                      *)
Without(s, j, k) == IF j < k THEN SubSeq(s, 1, j) \o SubSeq(s, k + 1, Len(s)) ELSE s

Resized(s, n, x) ==
  IF n <= Len(s) THEN SubSeq(s, 1, n) ELSE s \o Copies(n - Len(s), x)

(* s after call c, if c does not throw.                                    *)
Result(s, c) ==
  CASE c[1] = "push_back"            -> Append(s, c[2])
    [] c[1] = "push_front"           -> <<c[2]>> \o s
    [] c[1] = "pop_back"             -> Front(s)
    [] c[1] = "pop_front"            -> Tail(s)
    [] c[1] = "insert"               -> InsertAt(s, c[2] + 1, c[3])
    [] c[1] = "set"                  -> [s EXCEPT ![c[2] + 1] = c[3]]
    [] c[1] = "erase"                -> Without(s, c[2], c[2] + 1)
    [] c[1] = "erase_range"          -> Without(s, c[2], c[3])
    [] c[1] = "resize"               -> Resized(s, c[2], c[3])
    [] c[1] = "replace"              -> Copies(c[2], c[3])
    [] c[1] \in {"reserve", "copy"}  -> s
    [] c[1] \in {"clear", "swap"}    -> <<>>

(* Whether c throws std::out_of_range on a deque that may hold max         *)
(* elements and holds s; then it leaves s alone.                           *)
Throws(max, s, c) ==
  CASE c[1] \in {"push_back", "push_front", "insert"} -> Len(s) = max
    [] c[1] \in {"pop_back", "pop_front", "erase"}    -> s = <<>>
    [] c[1] = "erase_range"                           -> c[3] < c[2]
    [] c[1] = "resize"                                -> c[2] > max
    [] c[1] = "set"                                   -> c[2] >= Len(s)
    [] c[1] = "clear"                                 -> FALSE
=============================================================================
