------------------------------- MODULE Lemmas -------------------------------
(***************************************************************************)
(* What the proofs about all components rest on.  Induction over naturals  *)
(* in the form they need it: over the iterations of a loop that a          *)
(* recursive function defines.  What such a function computes is obtained  *)
(* by induction over sets of naturals, which rests on the                  *)
(* well-foundedness of <.                                                  *)
(***************************************************************************)
EXTENDS Integers, WellFoundedInduction, SequenceTheorems, TLAPS

(* Every nonempty set of naturals has a least element.                     *)
LEMMA NatLeast ==
  ASSUME NEW S \in SUBSET Nat, S # {}
  PROVE  \E x \in S : \A y \in S : x <= y
<1>1. IsWellFoundedOn(OpToRel(<, Nat), Nat)
  BY NatLessThanWellFounded
<1>2. PICK x \in S : \A y \in S : ~ (<<y, x>> \in OpToRel(<, Nat))
  BY <1>1, WFMin, Zenon
<1>3. ASSUME NEW y \in S PROVE x <= y
  <2>1. y \in Nat /\ x \in Nat
    OBVIOUS
  <2>2. ~ (y < x)
    BY <1>2, <2>1 DEF OpToRel
  <2> QED
    BY <2>1, <2>2
<1> QED
  BY <1>3

(* Induction up to n: a set that holds 0 and, with i, i + 1 as long as i   *)
(* is below n, holds 0 .. n.                                               *)
LEMMA UpTo ==
  ASSUME NEW n \in Nat, NEW S, 0 \in S,
         \A i \in 0 .. n - 1 : i \in S => i + 1 \in S
  PROVE  0 .. n \subseteq S
<1> DEFINE T == {i \in 0 .. n : i \notin S}
<1>1. SUFFICES ASSUME T # {} PROVE FALSE
  OBVIOUS
<1>2. PICK x \in T : \A y \in T : x <= y
  <2>1. T \in SUBSET Nat
    OBVIOUS
  <2> QED
    BY <1>1, <2>1, NatLeast
<1>3. x # 0 /\ x \in 1 .. n
  OBVIOUS
<1>4. x - 1 \in 0 .. n - 1 /\ x - 1 \notin T
  BY <1>2, <1>3
<1>5. (x - 1) + 1 \in S
  BY <1>4
<1> QED
  BY <1>3, <1>5

(* The steps of a loop, as functions: step[i] is its ith iteration.        *)
Steps(n, S) == [1 .. n -> [S -> S]]

(* g[i] is what the loop has computed after i iterations.                  *)
Iteration(g, n, S, x, step) ==
  /\ g \in [0 .. n -> S]
  /\ g[0] = x
  /\ \A i \in 1 .. n : g[i] = step[i][g[i - 1]]

LEMMA Iterates ==
  ASSUME NEW n \in Nat, NEW S, NEW x \in S, NEW step \in Steps(n, S)
  PROVE  \E g : Iteration(g, n, S, x, step)
<1>0. step \in [1 .. n -> [S -> S]]
  BY DEF Steps
<1> DEFINE G(g, k) == Iteration(g, k, S, x, step)
           K == {k \in 0 .. n : \E g : G(g, k)}
<1>1. 0 \in K
  <2> DEFINE h == [i \in 0 .. 0 |-> x]
  <2>1. G(h, 0) /\ 0 \in 0 .. n
    BY DEF Iteration
  <2> HIDE DEF G, h
  <2> QED
    BY <2>1
<1>2. ASSUME NEW k \in 0 .. n - 1, k \in K PROVE k + 1 \in K
  <2>0. PICK g : G(g, k)
    BY <1>2
  <2>1. /\ g \in [0 .. k -> S]
        /\ g[0] = x
        /\ \A i \in 1 .. k : g[i] = step[i][g[i - 1]]
    BY <2>0 DEF Iteration
  <2>k. k \in Nat /\ k + 1 \in 1 .. n /\ 0 .. k + 1 = (0 .. k) \union {k + 1} /\ k + 1 \notin 0 .. k
    OBVIOUS
  <2>2. PICK v \in S : v = step[k + 1][g[k]]
    BY <1>0, <2>k, <2>1
  <2> DEFINE h == [i \in 0 .. k + 1 |-> IF i = k + 1 THEN v ELSE g[i]]
  <2>3. h \in [0 .. k + 1 -> S]
    BY <2>k, <2>1
  <2>4. h[0] = x
    BY <2>1, <2>k
  <2>5. ASSUME NEW i \in 1 .. k + 1 PROVE h[i] = step[i][h[i - 1]]
    <3>1. CASE i = k + 1
      <4>1. h[i] = v /\ h[i - 1] = g[k]
        BY <2>k, <3>1
      <4> QED
        BY <4>1, <2>2, <3>1
    <3>2. CASE i \in 1 .. k
      <4>1. h[i] = g[i] /\ h[i - 1] = g[i - 1]
        BY <2>k, <3>2
      <4> QED
        BY <4>1, <2>1, <3>2
    <3> QED
      BY <2>k, <3>1, <3>2
  <2>6. G(h, k + 1)
    BY <2>3, <2>4, <2>5 DEF Iteration
  <2>7. k + 1 \in 0 .. n
    OBVIOUS
  <2> HIDE DEF G, h
  <2> QED
    BY <2>6, <2>7
<1>3. n \in K
  <2> HIDE DEF K
  <2>1. 0 .. n \subseteq K
    BY <1>1, <1>2, UpTo
  <2> QED
    BY <2>1
<1> QED
  BY <1>3

-----------------------------------------------------------------------------
(* Sequences, element by element.                                          *)
LEMMA Pieces ==
  ASSUME NEW S, NEW s \in Seq(S), NEW j \in 0 .. Len(s), NEW k \in j .. Len(s)
  PROVE  /\ SubSeq(s, 1, j) \in Seq(S) /\ Len(SubSeq(s, 1, j)) = j
         /\ \A i \in 1 .. j : SubSeq(s, 1, j)[i] = s[i]
         /\ SubSeq(s, k + 1, Len(s)) \in Seq(S) /\ Len(SubSeq(s, k + 1, Len(s))) = Len(s) - k
         /\ \A i \in 1 .. Len(s) - k : SubSeq(s, k + 1, Len(s))[i] = s[k + i]
<1>1. Len(s) \in Nat /\ j \in Nat /\ k \in Nat /\ j <= k /\ k <= Len(s)
  OBVIOUS
<1>2. \A i \in 1 .. j : s[i] \in S
  BY <1>1
<1>3. \A i \in 1 .. Len(s) - k : s[k + i] \in S
  BY <1>1
<1>4. SubSeq(s, 1, j) = [i \in 1 .. j |-> s[i]]
  BY <1>1
<1>5. SubSeq(s, k + 1, Len(s)) = [i \in 1 .. Len(s) - k |-> s[k + i]]
  BY <1>1
<1> QED
  BY <1>1, <1>2, <1>3, <1>4, <1>5

LEMMA Shortened ==
  ASSUME NEW S, NEW s \in Seq(S), NEW k \in 0 .. Len(s)
  PROVE  /\ SubSeq(s, 1, k) \in Seq(S) /\ Len(SubSeq(s, 1, k)) = k
         /\ \A i \in 1 .. k : SubSeq(s, 1, k)[i] = s[i]
<1>1. Len(s) \in k .. Len(s)
  OBVIOUS
<1> QED
  BY <1>1, Pieces

LEMMA Joined ==
  ASSUME NEW S, NEW s \in Seq(S), NEW t \in Seq(S)
  PROVE  /\ s \o t \in Seq(S) /\ Len(s \o t) = Len(s) + Len(t)
         /\ s \o t = [i \in 1 .. Len(s) + Len(t) |-> IF i <= Len(s) THEN s[i] ELSE t[i - Len(s)]]
<1>1. /\ s \o t \in Seq(S) /\ Len(s \o t) = Len(s) + Len(t)
      /\ Len(s) \in Nat /\ Len(t) \in Nat
  OBVIOUS
<1>2. \A i \in 1 .. Len(s) + Len(t) : (s \o t)[i] = IF i <= Len(s) THEN s[i] ELSE t[i - Len(s)]
  BY ConcatProperties
<1>3. s \o t = [i \in 1 .. Len(s \o t) |-> (s \o t)[i]]
  <2>1. \A u \in Seq(S) : u = [i \in 1 .. Len(u) |-> u[i]]
    OBVIOUS
  <2> QED
    BY <1>1, <2>1
<1> QED
  BY <1>1, <1>2, <1>3

LEMMA CutOut ==
  ASSUME NEW S, NEW s \in Seq(S), NEW j \in 0 .. Len(s), NEW k \in j .. Len(s)
  PROVE  SubSeq(s, 1, j) \o SubSeq(s, k + 1, Len(s)) =
         [i \in 1 .. Len(s) - (k - j) |-> IF i <= j THEN s[i] ELSE s[i + (k - j)]]
<1> DEFINE a == SubSeq(s, 1, j)
           b == SubSeq(s, k + 1, Len(s))
<1>1. Len(s) \in Nat /\ j \in Nat /\ k \in Nat /\ j <= k /\ k <= Len(s)
  OBVIOUS
<1>2. /\ a \in Seq(S) /\ b \in Seq(S) /\ Len(a) = j /\ Len(b) = Len(s) - k
      /\ \A i \in 1 .. j : a[i] = s[i]
      /\ \A i \in 1 .. Len(s) - k : b[i] = s[k + i]
  BY Pieces
<1> HIDE DEF a, b
<1>3. a \o b = [i \in 1 .. j + (Len(s) - k) |-> IF i <= j THEN a[i] ELSE b[i - j]]
  <2>1. a \o b = [i \in 1 .. Len(a) + Len(b) |-> IF i <= Len(a) THEN a[i] ELSE b[i - Len(a)]]
    BY <1>2, Joined
  <2> QED
    BY <1>2, <2>1
<1>4. j + (Len(s) - k) = Len(s) - (k - j)
  BY <1>1
<1>5. ASSUME NEW i \in 1 .. Len(s) - (k - j)
      PROVE  (IF i <= j THEN a[i] ELSE b[i - j]) = IF i <= j THEN s[i] ELSE s[i + (k - j)]
  <2>1. CASE i <= j
    BY <1>1, <1>2, <2>1
  <2>2. CASE ~(i <= j)
    <3>1. i - j \in 1 .. Len(s) - k /\ k + (i - j) = i + (k - j)
      BY <1>1, <2>2
    <3> QED
      BY <1>2, <2>2, <3>1
  <2> QED
    BY <2>1, <2>2
<1> QED
  BY <1>3, <1>4, <1>5 DEF a, b

(* x put between the first k elements of s and the others.                 *)
With(s, k, x) == SubSeq(s, 1, k) \o <<x>> \o SubSeq(s, k + 1, Len(s))

LEMMA Spliced ==
  ASSUME NEW S, NEW s \in Seq(S), NEW k \in 0 .. Len(s), NEW x \in S
  PROVE  With(s, k, x) =
         [i \in 1 .. Len(s) + 1 |-> IF i <= k THEN s[i] ELSE IF i = k + 1 THEN x ELSE s[i - 1]]
<1> DEFINE a == SubSeq(s, 1, k)
           b == SubSeq(s, k + 1, Len(s))
           ax == a \o <<x>>
<1>1. Len(s) \in Nat /\ k \in Nat /\ k <= Len(s) /\ (k + 1) - 1 = k
  OBVIOUS
<1>3. /\ a \in Seq(S) /\ b \in Seq(S) /\ Len(a) = k /\ Len(b) = Len(s) - k
      /\ \A i \in 1 .. k : a[i] = s[i]
      /\ \A i \in 1 .. Len(s) - k : b[i] = s[k + i]
  <2>1. k \in k .. Len(s)
    BY <1>1
  <2> QED
    BY <2>1, Pieces
<1> HIDE DEF a, b
<1>4. /\ ax \in Seq(S) /\ Len(ax) = k + 1
      /\ ax = [i \in 1 .. k + 1 |-> IF i <= k THEN a[i] ELSE <<x>>[i - k]]
  <2>1. <<x>> \in Seq(S) /\ Len(<<x>>) = 1
    OBVIOUS
  <2> QED
    BY <1>3, <2>1, Joined
<1>5. /\ \A i \in 1 .. k : ax[i] = s[i]
      /\ ax[k + 1] = x
  <2>1. k + 1 \in 1 .. k + 1 /\ ~(k + 1 <= k) /\ (k + 1) - k = 1
    BY <1>1
  <2>2. \A i \in 1 .. k : i \in 1 .. k + 1 /\ i <= k
    BY <1>1
  <2> HIDE DEF ax
  <2> QED
    BY <1>3, <1>4, <2>1, <2>2
<1> HIDE DEF ax
<1>6. ax \o b = [i \in 1 .. (k + 1) + (Len(s) - k) |->
                   IF i <= k + 1 THEN ax[i] ELSE b[i - (k + 1)]]
  BY <1>3, <1>4, Joined
<1>7. (k + 1) + (Len(s) - k) = Len(s) + 1
  BY <1>1
<1>8. ASSUME NEW i \in 1 .. Len(s) + 1
      PROVE  (IF i <= k + 1 THEN ax[i] ELSE b[i - (k + 1)])
             = IF i <= k THEN s[i] ELSE IF i = k + 1 THEN x ELSE s[i - 1]
  <2>1. CASE i <= k
    <3>1. i \in 1 .. k /\ i <= k + 1
      BY <1>1, <2>1
    <3> QED
      BY <1>5, <2>1, <3>1
  <2>2. CASE i = k + 1
    <3>1. ~(i <= k) /\ i <= k + 1
      BY <1>1, <2>2
    <3> QED
      BY <1>5, <2>2, <3>1
  <2>3. CASE ~(i <= k) /\ i # k + 1
    <3>1. /\ ~(i <= k + 1) /\ i - (k + 1) \in 1 .. Len(s) - k
          /\ k + (i - (k + 1)) = i - 1
      BY <1>1, <2>3
    <3> QED
      BY <1>3, <2>3, <3>1
  <2> QED
    BY <2>1, <2>2, <2>3
<1> QED
  BY <1>6, <1>7, <1>8 DEF a, b, ax, With
=============================================================================
