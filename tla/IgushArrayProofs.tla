-------------------------- MODULE IgushArrayProofs --------------------------
(***************************************************************************)
(* IgushArray for every size: its deques are the chunks of a sequence, and *)
(* every operation makes of them the chunks of the sequence that a vector  *)
(* would hold, without a call that throws.                                 *)
(***************************************************************************)
EXTENDS IgushArray, Lemmas

(* Elements in front of the ith deque, when all deques have d.             *)
Base(d, i) == (i - 1) * d

LEMMA Bases ==
  ASSUME NEW d \in Nat \ {0}, NEW i \in Nat \ {0}
  PROVE  /\ Base(d, i) \in Nat
         /\ Base(d, 1) = 0
         /\ Base(d, i + 1) = Base(d, i) + d
         /\ i > 1 => Base(d, i) = Base(d, i - 1) + d
         /\ \A k \in Nat \ {0} : i < k => Base(d, i) + d <= Base(d, k)
<1>1. (i - 1) * d \in Nat /\ ((i + 1) - 1) * d = (i - 1) * d + d
  OBVIOUS
<1>2. i > 1 => (i - 1) * d = ((i - 1) - 1) * d + d
  OBVIOUS
<1>3. ASSUME NEW k \in Nat \ {0}, i < k PROVE (i - 1) * d + d <= (k - 1) * d
  <2>1. PICK n \in Nat : k - 1 = (i - 1) + 1 + n
    <3>1. k - 1 - i \in Nat /\ k - 1 = (i - 1) + 1 + (k - 1 - i)
      BY <1>3
    <3> QED
      BY <3>1
  <2>2. (k - 1) * d = (i - 1) * d + d + n * d /\ n * d \in Nat /\ (i - 1) * d \in Nat
    BY <2>1
  <2> QED
    BY <2>2
<1> QED
  BY <1>1, <1>2, <1>3 DEF Base

(* vs are s cut into deques of d elements, the last of which may have      *)
(* fewer, or none.                                                         *)
Filled(vs, d, s) ==
  /\ vs \in Seq(Seq(Value)) /\ Len(vs) > 0
  /\ s \in Seq(Value)
  /\ Len(s) = Base(d, Len(vs)) + Len(vs[Len(vs)])
  /\ \A i \in 1 .. Len(vs) :
       /\ Len(vs[i]) <= d
       /\ i < Len(vs) => Len(vs[i]) = d
       /\ \A j \in 1 .. Len(vs[i]) : vs[i][j] = s[Base(d, i) + j]

(* The last of them has none only when it is alone.                        *)
Chunks(vs, d, s) ==
  /\ Filled(vs, d, s)
  /\ Len(vs) > 1 => vs[Len(vs)] # <<>>

-----------------------------------------------------------------------------
(* Calls of a deque, none of which throws.                                 *)
Run(size, deq, calls, r) ==
  \E t \in [0 .. Len(calls) -> Seq(Value)] :
    /\ t[0] = deq /\ t[Len(calls)] = r
    /\ \A i \in 1 .. Len(calls) :
         Throws(size, t[i - 1], calls[i]) = FALSE /\ t[i] = Result(t[i - 1], calls[i])

LEMMA RunDoes ==
  ASSUME NEW size, NEW deq, NEW calls, NEW r, Len(calls) \in Nat, Run(size, deq, calls, r)
  PROVE  Do(size, deq, calls) = r /\ r \in Seq(Value)
<1> DEFINE n == Len(calls)
           R(f) == f = [i \in 0 .. n |-> IF i = 0 THEN deq ELSE Called(size, f[i - 1], calls[i])]
<1>1. PICK t \in [0 .. n -> Seq(Value)] :
        /\ t[0] = deq /\ t[n] = r
        /\ \A i \in 1 .. n : Throws(size, t[i - 1], calls[i]) = FALSE /\ t[i] = Result(t[i - 1], calls[i])
  BY DEF Run
<1>2. ASSUME NEW i \in 1 .. n PROVE t[i] = Called(size, t[i - 1], calls[i])
  <2>1. t[i - 1] \in Seq(Value)
    BY <1>1
  <2>2. t[i - 1] # Thrown
    BY <2>1, DequesAssumption
  <2> QED
    BY <1>1, <2>2 DEF Called
<1>3. R(t)
  <2>1. t = [i \in 0 .. n |-> t[i]]
    BY <1>1
  <2>2. \A i \in 0 .. n : t[i] = IF i = 0 THEN deq ELSE Called(size, t[i - 1], calls[i])
    BY <1>1, <1>2
  <2> QED
    BY <2>1, <2>2
<1> DEFINE u == CHOOSE f : R(f)
<1>4. Do(size, deq, calls) = u[n]
  BY DEF Do
<1>5. R(u)
  <2> HIDE DEF R
  <2> QED
    BY <1>3
<1> HIDE DEF u
<1>6. u[0] = deq /\ \A i \in 1 .. n : u[i] = Called(size, u[i - 1], calls[i])
  BY <1>5
<1> DEFINE K == {i \in 0 .. n : u[i] = t[i]}
<1>7. 0 \in K
  BY <1>1, <1>6
<1>8. ASSUME NEW i \in 0 .. n - 1, i \in K PROVE i + 1 \in K
  <2>1. i + 1 \in 1 .. n /\ i + 1 \in 0 .. n /\ (i + 1) - 1 = i
    OBVIOUS
  <2> QED
    BY <1>2, <1>6, <1>8, <2>1
<1>9. n \in K
  <2> HIDE DEF K, n
  <2>1. 0 .. n \subseteq K
    BY <1>7, <1>8, UpTo DEF n
  <2> QED
    BY <2>1 DEF n
<1> QED
  BY <1>1, <1>4, <1>9

LEMMA RunNone ==
  ASSUME NEW size, NEW deq \in Seq(Value)
  PROVE  Run(size, deq, <<>>, deq)
<1> DEFINE t == [i \in 0 .. 0 |-> deq]
<1>1. t \in [0 .. 0 -> Seq(Value)] /\ t[0] = deq /\ Len(<<>>) = 0
  OBVIOUS
<1> HIDE DEF t
<1> QED
  BY <1>1 DEF Run

LEMMA RunMore ==
  ASSUME NEW size, NEW deq, NEW C, NEW calls \in Seq(C), NEW m, Run(size, deq, calls, m),
         NEW c \in C, Throws(size, m, c) = FALSE, Result(m, c) \in Seq(Value)
  PROVE  Run(size, deq, Append(calls, c), Result(m, c))
<1> DEFINE n == Len(calls)
           all == Append(calls, c)
<1>1. PICK t \in [0 .. n -> Seq(Value)] :
        /\ t[0] = deq /\ t[n] = m
        /\ \A i \in 1 .. n : Throws(size, t[i - 1], calls[i]) = FALSE /\ t[i] = Result(t[i - 1], calls[i])
  BY DEF Run
<1>2. /\ n \in Nat /\ Len(all) = n + 1 /\ all[n + 1] = c
      /\ \A i \in 1 .. n : all[i] = calls[i]
  BY AppendProperties
<1> DEFINE u == [i \in 0 .. n + 1 |-> IF i = n + 1 THEN Result(m, c) ELSE t[i]]
<1>3. u \in [0 .. n + 1 -> Seq(Value)] /\ u[0] = deq /\ u[n + 1] = Result(m, c)
  <2>1. \A i \in 0 .. n + 1 : i # n + 1 => i \in 0 .. n
    BY <1>2
  <2>2. 0 \in 0 .. n + 1 /\ n + 1 \in 0 .. n + 1 /\ 0 # n + 1
    BY <1>2
  <2> QED
    BY <1>1, <2>1, <2>2
<1>4. ASSUME NEW i \in 1 .. n + 1
      PROVE  Throws(size, u[i - 1], all[i]) = FALSE /\ u[i] = Result(u[i - 1], all[i])
  <2>1. CASE i = n + 1
    <3>1. i - 1 = n /\ i - 1 \in 0 .. n + 1 /\ i - 1 # n + 1
      BY <1>2, <2>1
    <3>2. u[i - 1] = m /\ u[i] = Result(m, c) /\ all[i] = c
      BY <1>1, <1>2, <1>3, <2>1, <3>1
    <3> QED
      BY <3>2
  <2>2. CASE i \in 1 .. n
    <3>1. i # n + 1 /\ i - 1 # n + 1 /\ i \in 0 .. n + 1 /\ i - 1 \in 0 .. n + 1
      BY <1>2, <2>2
    <3>2. u[i] = t[i] /\ u[i - 1] = t[i - 1] /\ all[i] = calls[i]
      BY <1>2, <2>2, <3>1
    <3> QED
      BY <1>1, <2>2, <3>2
  <2>3. i = n + 1 \/ i \in 1 .. n
    BY <1>2
  <2> HIDE DEF u, all, n
  <2> QED
    BY <2>1, <2>2, <2>3
<1> HIDE DEF u, all
<1> QED
  BY <1>2, <1>3, <1>4 DEF Run, all

LEMMA RunOne ==
  ASSUME NEW size, NEW deq \in Seq(Value), NEW c,
         Throws(size, deq, c) = FALSE, Result(deq, c) \in Seq(Value)
  PROVE  Run(size, deq, <<c>>, Result(deq, c))
<1>1. <<>> \in Seq({c}) /\ Append(<<>>, c) = <<c>> /\ c \in {c}
  OBVIOUS
<1>2. Run(size, deq, Append(<<>>, c), Result(deq, c))
  BY <1>1, RunNone, RunMore
<1> QED
  BY <1>1, <1>2

LEMMA RunBoth ==
  ASSUME NEW size, NEW deq, NEW C, NEW a \in Seq(C), NEW m, Run(size, deq, a, m),
         NEW b \in Seq(C), NEW r, Run(size, m, b, r)
  PROVE  Run(size, deq, a \o b, r)
<1> DEFINE n == Len(a)
           k == Len(b)
           all == a \o b
<1>1. PICK t \in [0 .. n -> Seq(Value)] :
        /\ t[0] = deq /\ t[n] = m
        /\ \A i \in 1 .. n : Throws(size, t[i - 1], a[i]) = FALSE /\ t[i] = Result(t[i - 1], a[i])
  BY DEF Run
<1>2. PICK w \in [0 .. k -> Seq(Value)] :
        /\ w[0] = m /\ w[k] = r
        /\ \A i \in 1 .. k : Throws(size, w[i - 1], b[i]) = FALSE /\ w[i] = Result(w[i - 1], b[i])
  BY DEF Run
<1>3. /\ n \in Nat /\ k \in Nat /\ Len(all) = n + k
      /\ all = [i \in 1 .. n + k |-> IF i <= n THEN a[i] ELSE b[i - n]]
  BY Joined
<1> DEFINE u == [i \in 0 .. n + k |-> IF i <= n THEN t[i] ELSE w[i - n]]
<1>4. \A i \in 0 .. n : u[i] = t[i]
  BY <1>3
<1>5. \A i \in 0 .. k : u[n + i] = w[i]
  <2> SUFFICES ASSUME NEW i \in 0 .. k PROVE u[n + i] = w[i]
    OBVIOUS
  <2>1. n + i \in 0 .. n + k /\ (n + i) - n = i /\ (n + i <= n => i = 0 /\ n + i = n)
    BY <1>3
  <2>2. CASE i = 0
    BY <1>1, <1>2, <1>3, <2>1, <2>2
  <2>3. CASE i # 0
    BY <2>1, <2>3
  <2> QED
    BY <2>2, <2>3
<1>6. u \in [0 .. n + k -> Seq(Value)]
  <2>1. \A i \in 0 .. n + k : (i <= n => i \in 0 .. n) /\ (~(i <= n) => i - n \in 0 .. k)
    BY <1>3
  <2> QED
    BY <1>1, <1>2, <2>1
<1>7. u[0] = deq /\ u[n + k] = r
  <2>1. 0 \in 0 .. n /\ k \in 0 .. k
    BY <1>3
  <2> HIDE DEF u
  <2> QED
    BY <1>1, <1>2, <1>4, <1>5, <2>1
<1>8. ASSUME NEW i \in 1 .. n + k
      PROVE  Throws(size, u[i - 1], all[i]) = FALSE /\ u[i] = Result(u[i - 1], all[i])
  <2> HIDE DEF u, all
  <2>1. CASE i <= n
    <3>1. i \in 1 .. n /\ i \in 0 .. n /\ i - 1 \in 0 .. n
      BY <1>3, <2>1
    <3>2. u[i] = t[i] /\ u[i - 1] = t[i - 1] /\ all[i] = a[i]
      BY <1>3, <1>4, <2>1, <3>1
    <3> QED
      BY <1>1, <3>1, <3>2
  <2>2. CASE ~(i <= n)
    <3>1. PICK j \in 1 .. k : i = n + j
      <4>1. i - n \in 1 .. k /\ i = n + (i - n)
        BY <1>3, <2>2
      <4> QED
        BY <4>1
    <3>2. j \in 0 .. k /\ j - 1 \in 0 .. k /\ i - 1 = n + (j - 1) /\ i - n = j
      BY <1>3, <3>1
    <3>3. u[i] = w[j] /\ u[i - 1] = w[j - 1] /\ all[i] = b[j]
      BY <1>3, <1>5, <2>2, <3>1, <3>2
    <3> QED
      BY <1>2, <3>1, <3>3
  <2> QED
    BY <2>1, <2>2
<1> HIDE DEF u, all
<1> QED
  BY <1>3, <1>6, <1>7, <1>8 DEF Run, all

(* Elements put at the end, one by one.                                    *)
LEMMA PutsRun ==
  ASSUME NEW size \in Nat, NEW deq \in Seq(Value), NEW xs \in Seq(Value),
         Len(deq) + Len(xs) <= size
  PROVE  Run(size, deq, Puts(xs), deq \o xs) /\ Len(Puts(xs)) = Len(xs)
<1> DEFINE n == Len(xs)
           t == [i \in 0 .. n |-> deq \o SubSeq(xs, 1, i)]
<1>1. n \in Nat /\ Len(deq) \in Nat /\ Len(Puts(xs)) = n
      /\ \A i \in 1 .. n : Puts(xs)[i] = <<"push_back", xs[i]>> /\ xs[i] \in Value
  BY DEF Puts
<1>2. \A i \in 0 .. n : SubSeq(xs, 1, i) \in Seq(Value) /\ Len(SubSeq(xs, 1, i)) = i
  BY <1>1
<1>3. t \in [0 .. n -> Seq(Value)] /\ \A i \in 0 .. n : Len(t[i]) = Len(deq) + i
  <2>1. \A i \in 0 .. n : deq \o SubSeq(xs, 1, i) \in Seq(Value) /\ Len(deq \o SubSeq(xs, 1, i)) = Len(deq) + i
    <3> TAKE i \in 0 .. n
    <3> DEFINE p == SubSeq(xs, 1, i)
    <3>1. p \in Seq(Value) /\ Len(p) = i
      BY <1>2
    <3> HIDE DEF p
    <3>2. deq \o p \in Seq(Value) /\ Len(deq \o p) = Len(deq) + Len(p)
      BY <3>1, Joined
    <3> QED
      BY <3>1, <3>2 DEF p
  <2> QED
    BY <2>1
<1>4. t[0] = deq /\ t[n] = deq \o xs
  <2>1. SubSeq(xs, 1, 0) = <<>> /\ SubSeq(xs, 1, n) = xs
    BY <1>1
  <2>2. deq \o <<>> = deq /\ 0 \in 0 .. n /\ n \in 0 .. n
    BY <1>1
  <2> QED
    BY <2>1, <2>2
<1>5. ASSUME NEW i \in 1 .. n
      PROVE  /\ Throws(size, t[i - 1], Puts(xs)[i]) = FALSE
             /\ t[i] = Result(t[i - 1], Puts(xs)[i])
  <2>1. i - 1 \in 0 .. n /\ i \in 0 .. n /\ Len(t[i - 1]) = Len(deq) + (i - 1)
    BY <1>1, <1>3
  <2>2. Len(t[i - 1]) # size
    BY <1>1, <2>1
  <2>3. t[i] = Append(t[i - 1], xs[i])
    <3>1. SubSeq(xs, 1, i) = Append(SubSeq(xs, 1, i - 1), xs[i])
      BY <1>1, <1>2, <2>1
    <3>2. deq \o Append(SubSeq(xs, 1, i - 1), xs[i]) = Append(deq \o SubSeq(xs, 1, i - 1), xs[i])
      BY <1>1, <1>2, <2>1
    <3> QED
      BY <2>1, <3>1, <3>2
  <2> HIDE DEF t
  <2>4. Throws(size, t[i - 1], <<"push_back", xs[i]>>) = FALSE
    BY <2>2 DEF Throws
  <2>5. Result(t[i - 1], <<"push_back", xs[i]>>) = Append(t[i - 1], xs[i])
    BY DEF Result
  <2> QED
    BY <1>1, <2>3, <2>4, <2>5
<1> HIDE DEF t
<1> QED
  BY <1>1, <1>3, <1>4, <1>5 DEF Run

(* Elements taken from the front, one by one.                              *)
LEMMA PopsRun ==
  ASSUME NEW size, NEW deq \in Seq(Value), NEW m \in 0 .. Len(deq)
  PROVE  Run(size, deq, [j \in 1 .. m |-> <<"pop_front">>], SubSeq(deq, m + 1, Len(deq)))
<1> DEFINE calls == [j \in 1 .. m |-> <<"pop_front">>]
           t == [i \in 0 .. m |-> SubSeq(deq, i + 1, Len(deq))]
<1>1. m \in Nat /\ Len(deq) \in Nat /\ Len(calls) = m
      /\ \A i \in 1 .. m : calls[i] = <<"pop_front">>
  OBVIOUS
<1>2. \A i \in 0 .. m : t[i] \in Seq(Value) /\ Len(t[i]) = Len(deq) - i
  BY <1>1
<1>3. t \in [0 .. m -> Seq(Value)] /\ t[0] = deq /\ t[m] = SubSeq(deq, m + 1, Len(deq))
  BY <1>1, <1>2
<1>4. ASSUME NEW i \in 1 .. m
      PROVE  Throws(size, t[i - 1], calls[i]) = FALSE /\ t[i] = Result(t[i - 1], calls[i])
  <2>1. i - 1 \in 0 .. m /\ i \in 0 .. m /\ (i - 1) + 1 = i /\ i <= Len(deq)
    BY <1>1
  <2>2. t[i - 1] = SubSeq(deq, i, Len(deq)) /\ t[i] = SubSeq(deq, i + 1, Len(deq))
    BY <2>1
  <2>3. t[i - 1] # <<>> /\ Tail(t[i - 1]) = t[i]
    <3>1. i <= Len(deq) /\ i \in 1 .. Len(deq)
      BY <1>1, <2>1
    <3>2. Len(t[i - 1]) # 0
      <4>1. Len(t[i - 1]) = Len(deq) - (i - 1)
        BY <1>2, <2>1
      <4> HIDE DEF t
      <4> QED
        BY <1>1, <2>1, <3>1, <4>1
    <3>3. Tail(SubSeq(deq, i, Len(deq))) = SubSeq(deq, i + 1, Len(deq))
      BY <1>1, <3>1, HeadTailOfSubSeq
    <3> HIDE DEF t
    <3>4. t[i - 1] # <<>>
      BY <3>2
    <3> QED
      BY <2>2, <3>3, <3>4
  <2> HIDE DEF t
  <2>4. Throws(size, t[i - 1], <<"pop_front">>) = FALSE /\ Result(t[i - 1], <<"pop_front">>) = Tail(t[i - 1])
    BY <2>3 DEF Throws, Result
  <2> QED
    BY <1>1, <2>3, <2>4
<1> HIDE DEF t, calls
<1> QED
  BY <1>1, <1>3, <1>4 DEF Run, calls

LEMMA PutsDo ==
  ASSUME NEW size \in Nat, NEW deq \in Seq(Value), NEW xs \in Seq(Value),
         Len(deq) + Len(xs) <= size
  PROVE  Do(size, deq, Puts(xs)) = deq \o xs
<1>1. Run(size, deq, Puts(xs), deq \o xs) /\ Len(Puts(xs)) \in Nat
  BY PutsRun
<1> QED
  BY <1>1, RunDoes

LEMMA Fronts ==
  ASSUME NEW S, NEW s \in Seq(S), Len(s) > 0
  PROVE  /\ Front(s) \in Seq(S) /\ Len(Front(s)) = Len(s) - 1
         /\ \A i \in 1 .. Len(s) - 1 : Front(s)[i] = s[i]
         /\ Last(s) = s[Len(s)] /\ Last(s) \in S
<1>1. Len(s) \in Nat /\ Len(s) - 1 \in 0 .. Len(s) /\ Len(s) \in Len(s) - 1 .. Len(s) /\ Len(s) \in 1 .. Len(s)
  OBVIOUS
<1>2. /\ SubSeq(s, 1, Len(s) - 1) \in Seq(S) /\ Len(SubSeq(s, 1, Len(s) - 1)) = Len(s) - 1
      /\ \A i \in 1 .. Len(s) - 1 : SubSeq(s, 1, Len(s) - 1)[i] = s[i]
  BY <1>1, Pieces
<1> QED
  BY <1>1, <1>2 DEF Front, Last

(* One more element: where it is.                                          *)
LEMMA OneMore ==
  ASSUME NEW S, NEW s \in Seq(S), NEW x \in S
  PROVE  /\ Append(s, x) \in Seq(S) /\ Len(Append(s, x)) = Len(s) + 1 /\ Len(s) \in Nat
         /\ Append(s, x)[Len(s) + 1] = x
         /\ \A i \in 1 .. Len(s) : Append(s, x)[i] = s[i]
         /\ Append(s, x) = s \o <<x>>
BY AppendProperties, AppendIsConcat

LEMMA AppendLater ==
  ASSUME NEW s \in Seq(Value), NEW t \in Seq(Value), NEW x \in Value
  PROVE  Append(s \o t, x) = s \o Append(t, x)
<1> DEFINE u == s \o t
<1>1. u \in Seq(Value) /\ <<x>> \in Seq(Value)
  OBVIOUS
<1>2. (s \o t) \o <<x>> = s \o (t \o <<x>>)
  BY <1>1, ConcatAssociative
<1> HIDE DEF u
<1>3. Append(u, x) = u \o <<x>>
  BY <1>1, AppendIsConcat
<1>4. Append(t, x) = t \o <<x>>
  BY AppendIsConcat
<1> QED
  BY <1>2, <1>3, <1>4 DEF u

LEMMA FrontAndLast ==
  ASSUME NEW S, NEW s \in Seq(S), Len(s) > 0
  PROVE  Append(Front(s), Last(s)) = s
<1>1. PICK n \in Nat, x \in S : n + 1 = Len(s) /\ x = Last(s) /\ x = s[n + 1]
  <2>1. Len(s) - 1 \in Nat /\ (Len(s) - 1) + 1 = Len(s)
    OBVIOUS
  <2>2. Last(s) = s[Len(s)] /\ Last(s) \in S
    BY Fronts
  <2> QED
    BY <2>1, <2>2
<1>2. PICK f : f = Front(s) /\ f \in Seq(S) /\ Len(f) = n /\ \A i \in 1 .. n : f[i] = s[i]
  <2>1. Front(s) \in Seq(S) /\ Len(Front(s)) = Len(s) - 1 /\ \A i \in 1 .. Len(s) - 1 : Front(s)[i] = s[i]
    BY Fronts
  <2>2. Len(s) - 1 = n
    BY <1>1
  <2> QED
    BY <2>1, <2>2
<1>3. PICK t : /\ t = Append(f, x) /\ t \in Seq(S) /\ Len(t) = n + 1 /\ t[n + 1] = x
               /\ \A i \in 1 .. n : t[i] = f[i]
  BY <1>1, <1>2, OneMore
<1>4. \A i \in 1 .. n + 1 : t[i] = s[i]
  <2> TAKE i \in 1 .. n + 1
  <2>1. i \in 1 .. n \/ i = n + 1
    OBVIOUS
  <2> QED
    BY <1>1, <1>2, <1>3, <2>1
<1>5. t = s
  <2>1. t = [i \in 1 .. n + 1 |-> t[i]] /\ s = [i \in 1 .. n + 1 |-> s[i]]
    BY <1>1, <1>3
  <2> QED
    BY <1>4, <2>1
<1> QED
  BY <1>1, <1>2, <1>3, <1>5

LEMMA LastReplaced ==
  ASSUME NEW S, NEW s \in Seq(S), Len(s) > 0, NEW q \in S
  PROVE  /\ WithLast(s, q) \in Seq(S) /\ Len(WithLast(s, q)) = Len(s)
         /\ \A i \in 1 .. Len(s) - 1 : WithLast(s, q)[i] = s[i]
         /\ WithLast(s, q)[Len(s)] = q
<1> DEFINE f == Front(s)
<1>1. /\ f \in Seq(S) /\ Len(f) = Len(s) - 1 /\ \A i \in 1 .. Len(s) - 1 : f[i] = s[i]
      /\ Len(s) \in Nat
  BY Fronts
<1>2. WithLast(s, q) = Append(f, q)
  BY DEF WithLast
<1> HIDE DEF f
<1> QED
  BY <1>1, <1>2, AppendProperties

LEMMA DequeReplaced ==
  ASSUME NEW vs \in Seq(Seq(Value)), Len(vs) > 0, NEW q \in Seq(Value)
  PROVE  /\ WithLast(vs, q) \in Seq(Seq(Value)) /\ Len(WithLast(vs, q)) = Len(vs)
         /\ \A i \in 1 .. Len(vs) - 1 : WithLast(vs, q)[i] = vs[i]
         /\ WithLast(vs, q)[Len(vs)] = q
<1>1. PICK S : S = Seq(Value)
  OBVIOUS
<1>2. vs \in Seq(S) /\ q \in S
  BY <1>1
<1>3. WithLast(vs, q) \in Seq(S) /\ Len(WithLast(vs, q)) = Len(vs)
  BY <1>2, LastReplaced
<1>4. \A i \in 1 .. Len(vs) - 1 : WithLast(vs, q)[i] = vs[i]
  BY <1>2, LastReplaced
<1>5. WithLast(vs, q)[Len(vs)] = q
  BY <1>2, LastReplaced
<1> QED
  BY <1>1, <1>3, <1>4, <1>5

(* What Filled says of each deque.                                         *)
LEMMA FilledFacts ==
  ASSUME NEW d \in Nat \ {0}, NEW vs, NEW s, Filled(vs, d, s)
  PROVE  /\ vs \in Seq(Seq(Value)) /\ s \in Seq(Value) /\ Len(s) \in Nat
         /\ Len(vs) \in Nat \ {0} /\ Len(vs) \in 1 .. Len(vs)
         /\ Last(vs) = vs[Len(vs)]
         /\ Len(s) = Base(d, Len(vs)) + Len(vs[Len(vs)])
         /\ \A i \in 1 .. Len(vs) :
              /\ vs[i] \in Seq(Value) /\ Len(vs[i]) \in Nat /\ vs[i] # Thrown
              /\ Len(vs[i]) <= d
              /\ i < Len(vs) => Len(vs[i]) = d
              /\ i \in Nat \ {0} /\ Base(d, i) \in Nat
              /\ \A j \in 1 .. Len(vs[i]) :
                   /\ vs[i][j] = s[Base(d, i) + j]
                   /\ Base(d, i) + j \in 1 .. Len(s)
<1> DEFINE n == Len(vs)
<1>1. vs \in Seq(Seq(Value)) /\ s \in Seq(Value) /\ n \in Nat \ {0} /\ n \in 1 .. n /\ Len(s) \in Nat
  BY DEF Filled
<1>2. Len(s) = Base(d, n) + Len(vs[n]) /\ Last(vs) = vs[n]
  BY DEF Filled, Last
<1>3. ASSUME NEW i \in 1 .. n
      PROVE  /\ vs[i] \in Seq(Value) /\ Len(vs[i]) \in Nat /\ vs[i] # Thrown
             /\ i \in Nat \ {0} /\ Base(d, i) \in Nat
             /\ i < n => Base(d, i) + d <= Base(d, n)
  <2>1. vs[i] \in Seq(Value)
    BY <1>1
  <2>2. vs[i] # Thrown /\ Len(vs[i]) \in Nat
    BY <2>1, DequesAssumption
  <2>3. i \in Nat \ {0} /\ n \in Nat \ {0}
    BY <1>1
  <2> HIDE DEF n
  <2> QED
    BY <2>1, <2>2, <2>3, Bases
<1>4. \A i \in 1 .. n :
        /\ Len(vs[i]) <= d
        /\ i < n => Len(vs[i]) = d
        /\ \A j \in 1 .. Len(vs[i]) : vs[i][j] = s[Base(d, i) + j]
  BY DEF Filled
<1> HIDE DEF n
<1>5. ASSUME NEW i \in 1 .. n, NEW j \in 1 .. Len(vs[i]) PROVE Base(d, i) + j \in 1 .. Len(s)
  <2>1. Len(vs[i]) <= d /\ Len(vs[i]) \in Nat /\ Base(d, i) \in Nat /\ Base(d, n) \in Nat /\ Len(vs[n]) \in Nat
    BY <1>1, <1>3, <1>4
  <2>2. CASE i < n
    <3>1. Base(d, i) + d <= Base(d, n) /\ Len(s) = Base(d, n) + Len(vs[n])
      BY <1>2, <1>3, <2>2
    <3>2. j \in Nat \ {0} /\ j <= Len(vs[i])
      BY <2>1
    <3>3. PICK b \in Nat, e \in Nat, m \in Nat, l \in Nat :
            b = Base(d, i) /\ e = Base(d, n) /\ m = Len(vs[i]) /\ l = Len(vs[n])
      BY <2>1
    <3>4. j \in Nat \ {0} /\ j <= m /\ m <= d /\ b + d <= e
      BY <2>1, <3>1, <3>2, <3>3
    <3>5. b + j \in 1 .. e + l
      BY <3>4
    <3> QED
      BY <3>1, <3>3, <3>5
  <2>3. CASE i = n
    BY <1>1, <1>2, <2>1, <2>3
  <2> QED
    BY <1>1, <2>2, <2>3
<1> QED
  BY <1>1, <1>2, <1>3, <1>4, <1>5 DEF n

(* The same of the whole, and of one deque.                                *)
LEMMA FilledWhole ==
  ASSUME NEW d \in Nat \ {0}, NEW vs, NEW s, Filled(vs, d, s)
  PROVE  /\ vs \in Seq(Seq(Value)) /\ s \in Seq(Value) /\ Len(s) \in Nat
         /\ Len(vs) \in Nat \ {0} /\ Len(vs) \in 1 .. Len(vs)
         /\ Len(s) = Base(d, Len(vs)) + Len(vs[Len(vs)])
BY DEF Filled

LEMMA FilledAt ==
  ASSUME NEW d \in Nat \ {0}, NEW vs, NEW s, Filled(vs, d, s), NEW I \in 1 .. Len(vs)
  PROVE  /\ vs[I] \in Seq(Value) /\ Len(vs[I]) \in Nat /\ Len(vs[I]) <= d
         /\ I < Len(vs) => Len(vs[I]) = d
         /\ I \in Nat \ {0} /\ Base(d, I) \in Nat
<1>1. vs \in Seq(Seq(Value)) /\ Len(vs) \in Nat
  BY FilledWhole
<1>2. vs[I] \in Seq(Value) /\ I \in Nat \ {0}
  BY <1>1
<1>3. Len(vs[I]) <= d /\ (I < Len(vs) => Len(vs[I]) = d)
  BY DEF Filled
<1>4. Base(d, I) \in Nat
  BY <1>2, Bases
<1> QED
  BY <1>2, <1>3, <1>4

(* Cut in the right places, deques with the right elements are Filled.     *)
LEMMA FillFacts ==
  ASSUME NEW d \in Nat \ {0}, NEW vs \in Seq(Seq(Value)), NEW s \in Seq(Value), NEW n \in Nat \ {0},
         Len(vs) = n, Len(s) = Base(d, n) + Len(vs[n]), Len(vs[n]) <= d,
         \A i \in 1 .. n - 1 : Len(vs[i]) = d,
         \A i \in 1 .. n : \A j \in 1 .. Len(vs[i]) : vs[i][j] = s[Base(d, i) + j]
  PROVE  Filled(vs, d, s)
<1>1. ASSUME NEW i \in 1 .. n PROVE Len(vs[i]) <= d /\ (i < n => Len(vs[i]) = d)
  <2>1. CASE i = n
    BY <2>1
  <2>2. CASE i \in 1 .. n - 1
    <3>1. Len(vs[i]) = d
      BY <2>2
    <3> QED
      BY <3>1
  <2> QED
    BY <2>1, <2>2
<1> QED
  BY <1>1 DEF Filled

(* One element replaced.                                                   *)
LEMMA OneSet ==
  ASSUME NEW S, NEW s \in Seq(S), NEW k \in 1 .. Len(s), NEW x \in S
  PROVE  /\ [s EXCEPT ![k] = x] \in Seq(S) /\ Len([s EXCEPT ![k] = x]) = Len(s)
         /\ [s EXCEPT ![k] = x][k] = x
         /\ \A i \in 1 .. Len(s) : i # k => [s EXCEPT ![k] = x][i] = s[i]
BY ExceptSeq

-----------------------------------------------------------------------------
(* push_back puts x at the end of the last deque, or into a new one.       *)
LEMMA PutLast ==
  ASSUME NEW d \in Nat \ {0}, NEW q \in Seq(Value), Len(q) < d, NEW x \in Value
  PROVE  Do(d, q, Puts(<<x>>)) = Append(q, x)
<1>1. <<x>> \in Seq(Value) /\ Len(<<x>>) = 1 /\ Len(q) \in Nat
  OBVIOUS
<1>2. Len(q) + Len(<<x>>) <= d /\ d \in Nat
  BY <1>1
<1>3. Do(d, q, Puts(<<x>>)) = q \o <<x>>
  BY <1>1, <1>2, PutsDo
<1> QED
  BY <1>3, OneMore

LEMMA PushedInto ==
  ASSUME NEW d \in Nat \ {0}, NEW vs \in Seq(Seq(Value)), Len(vs) > 0,
         Len(vs[Len(vs)]) < d, NEW x \in Value
  PROVE  /\ Pushed(vs, d, x) \in Seq(Seq(Value)) /\ Len(Pushed(vs, d, x)) = Len(vs)
         /\ Pushed(vs, d, x)[Len(vs)] = Append(vs[Len(vs)], x)
         /\ \A i \in 1 .. Len(vs) - 1 : Pushed(vs, d, x)[i] = vs[i]
<1>1. PICK l \in Seq(Value) : l = vs[Len(vs)] /\ Last(vs) = l
  BY DEF Last
<1>2. l # Thrown /\ Len(l) \in Nat /\ Len(vs) \in Nat
  BY DequesAssumption
<1>3. Len(l) # d
  BY <1>1, <1>2
<1>4. Pushed(vs, d, x) = WithLast(vs, Do(d, l, Puts(<<x>>)))
  BY <1>1, <1>2, <1>3 DEF Pushed
<1>5. PICK q \in Seq(Value) : q = Append(l, x)
  <2>1. Append(l, x) \in Seq(Value)
    OBVIOUS
  <2> QED
    BY <2>1
<1>6. Do(d, l, Puts(<<x>>)) = q
  BY <1>1, <1>5, PutLast
<1>7. /\ WithLast(vs, q) \in Seq(Seq(Value)) /\ Len(WithLast(vs, q)) = Len(vs)
      /\ \A i \in 1 .. Len(vs) - 1 : WithLast(vs, q)[i] = vs[i]
      /\ WithLast(vs, q)[Len(vs)] = q
  BY DequeReplaced
<1> QED
  BY <1>1, <1>4, <1>5, <1>6, <1>7

LEMMA PushedBehind ==
  ASSUME NEW d \in Nat \ {0}, NEW vs \in Seq(Seq(Value)), Len(vs) > 0,
         Len(vs[Len(vs)]) = d, NEW x \in Value
  PROVE  /\ Pushed(vs, d, x) \in Seq(Seq(Value)) /\ Len(Pushed(vs, d, x)) = Len(vs) + 1
         /\ Pushed(vs, d, x)[Len(vs) + 1] = <<x>>
         /\ \A i \in 1 .. Len(vs) : Pushed(vs, d, x)[i] = vs[i]
<1>1. PICK l \in Seq(Value) : l = vs[Len(vs)] /\ Last(vs) = l
  BY DEF Last
<1>2. l # Thrown /\ Len(l) \in Nat /\ Len(vs) \in Nat
  BY DequesAssumption
<1>3. Len(l) = d
  BY <1>1
<1>4. PICK q \in Seq(Value) : q = <<x>>
  <2>1. <<x>> \in Seq(Value)
    OBVIOUS
  <2> QED
    BY <2>1
<1>5. PICK none \in Seq(Value) : none = <<>>
  <2>1. <<>> \in Seq(Value)
    OBVIOUS
  <2> QED
    BY <2>1
<1>6. PICK room \in Seq(Seq(Value)) :
        /\ room = Append(vs, none) /\ Len(room) = Len(vs) + 1 /\ room[Len(vs) + 1] = none
        /\ \A i \in 1 .. Len(vs) : room[i] = vs[i]
  <2>1. /\ Append(vs, none) \in Seq(Seq(Value)) /\ Len(Append(vs, none)) = Len(vs) + 1
        /\ Append(vs, none)[Len(vs) + 1] = none
        /\ \A i \in 1 .. Len(vs) : Append(vs, none)[i] = vs[i]
    BY OneMore
  <2> QED
    BY <2>1
<1>7. Len(room) > 0
  BY <1>2, <1>6
<1>8. Last(room) = none /\ Len(room) - 1 = Len(vs)
  BY <1>2, <1>6 DEF Last
<1>9. Do(d, none, Puts(<<x>>)) = q
  <2>1. Len(none) < d /\ Append(none, x) = q
    BY <1>4, <1>5
  <2> QED
    BY <2>1, PutLast
<1>10. Pushed(vs, d, x) = WithLast(room, q)
  BY <1>1, <1>2, <1>3, <1>5, <1>6, <1>8, <1>9 DEF Pushed
<1>11. /\ WithLast(room, q) \in Seq(Seq(Value)) /\ Len(WithLast(room, q)) = Len(room)
       /\ \A i \in 1 .. Len(room) - 1 : WithLast(room, q)[i] = room[i]
       /\ WithLast(room, q)[Len(room)] = q
  <2>1. room \in Seq(Seq(Value)) /\ q \in Seq(Value)
    OBVIOUS
  <2> QED
    BY <1>7, <2>1, DequeReplaced
<1> QED
  BY <1>4, <1>6, <1>8, <1>10, <1>11

LEMMA PushedFilled ==
  ASSUME NEW d \in Nat \ {0}, NEW vs, NEW s, Filled(vs, d, s), NEW x \in Value
  PROVE  Chunks(Pushed(vs, d, x), d, Append(s, x))
<1> DEFINE n == Len(vs)
           p == Pushed(vs, d, x)
           t == Append(s, x)
<1>1. /\ vs \in Seq(Seq(Value)) /\ s \in Seq(Value) /\ Len(s) \in Nat
      /\ n \in Nat \ {0} /\ n \in 1 .. n /\ Len(vs) > 0
      /\ Len(s) = Base(d, n) + Len(vs[n])
      /\ \A i \in 1 .. n :
           /\ vs[i] \in Seq(Value) /\ Len(vs[i]) \in Nat
           /\ Len(vs[i]) <= d
           /\ i < n => Len(vs[i]) = d
           /\ \A j \in 1 .. Len(vs[i]) : vs[i][j] = s[Base(d, i) + j] /\ Base(d, i) + j \in 1 .. Len(s)
  BY FilledFacts DEF Filled
<1>2. t \in Seq(Value) /\ Len(t) = Len(s) + 1 /\ t[Len(s) + 1] = x /\ \A i \in 1 .. Len(s) : t[i] = s[i]
  BY <1>1, OneMore
<1>3. ASSUME NEW i \in 1 .. n, p[i] = vs[i], NEW j \in 1 .. Len(p[i]) PROVE p[i][j] = t[Base(d, i) + j]
  <2> HIDE DEF p, t, n
  <2>1. j \in 1 .. Len(vs[i])
    BY <1>3
  <2>2. vs[i][j] = s[Base(d, i) + j] /\ Base(d, i) + j \in 1 .. Len(s)
    BY <1>1, <2>1
  <2> QED
    BY <1>2, <1>3, <2>2
<1>4. Len(vs[n]) <= d /\ Len(vs[n]) \in Nat /\ Len(s) = Base(d, n) + Len(vs[n]) /\ d \in Nat \ {0}
  BY <1>1
<1>5. CASE Len(vs[n]) < d
  <2>1. /\ p \in Seq(Seq(Value)) /\ Len(p) = n /\ p[n] = Append(vs[n], x)
        /\ \A i \in 1 .. n - 1 : p[i] = vs[i]
    BY <1>1, <1>5, PushedInto
  <2>2. /\ Len(p[n]) = Len(vs[n]) + 1 /\ p[n][Len(vs[n]) + 1] = x
        /\ \A j \in 1 .. Len(vs[n]) : p[n][j] = vs[n][j]
    <3>1. vs[n] \in Seq(Value)
      BY <1>1
    <3> HIDE DEF n, p
    <3> QED
      BY <2>1, <3>1, OneMore
  <2>3. ASSUME NEW i \in 1 .. n, NEW j \in 1 .. Len(p[i]) PROVE p[i][j] = t[Base(d, i) + j]
    <3>1. CASE i \in 1 .. n - 1
      <4>1. p[i] = vs[i]
        BY <2>1, <3>1
      <4> HIDE DEF p, t, n
      <4> QED
        BY <1>3, <4>1
    <3>2. CASE i = n /\ j \in 1 .. Len(vs[n])
      <4> HIDE DEF p, t, n
      <4>1. vs[n][j] = s[Base(d, n) + j] /\ Base(d, n) + j \in 1 .. Len(s)
        BY <1>1, <3>2
      <4> QED
        BY <1>2, <2>2, <3>2, <4>1
    <3>3. CASE i = n /\ j = Len(vs[n]) + 1
      <4>1. Base(d, n) + j = Len(s) + 1
        <5>1. Base(d, n) \in Nat
          BY <1>1, Bases
        <5> HIDE DEF n
        <5> QED
          BY <1>1, <1>4, <3>3, <5>1
      <4> HIDE DEF p, t, n
      <4> QED
        BY <1>2, <2>2, <3>3, <4>1
    <3>4. i = n => j \in 1 .. Len(vs[n]) \/ j = Len(vs[n]) + 1
      <4> HIDE DEF p, n
      <4> QED
        BY <1>4, <2>2
    <3>5. i \in 1 .. n - 1 \/ i = n
      BY <1>1
    <3> QED
      BY <3>1, <3>2, <3>3, <3>4, <3>5
  <2>4. Len(t) = Base(d, n) + Len(p[n]) /\ Len(p[n]) <= d /\ Len(p[n]) > 0
    <3>1. Base(d, n) \in Nat
      BY <1>1, Bases
    <3>2. Len(t) = Len(s) + 1 /\ Len(p[n]) = Len(vs[n]) + 1
      BY <1>2, <2>2
    <3> HIDE DEF p, t, n
    <3> QED
      BY <1>4, <1>5, <3>1, <3>2
  <2>5. \A i \in 1 .. n - 1 : Len(p[i]) = d
    <3> TAKE i \in 1 .. n - 1
    <3>1. i \in 1 .. n /\ i < n
      BY <1>1
    <3> HIDE DEF p
    <3> QED
      BY <1>1, <2>1, <3>1
  <2> HIDE DEF p, t, n
  <2>6. Filled(p, d, t)
    BY <1>1, <1>2, <2>1, <2>3, <2>4, <2>5, FillFacts
  <2>7. p[Len(p)] # <<>>
    BY <2>1, <2>4
  <2> QED
    BY <2>6, <2>7 DEF Chunks, p, t
<1>6. CASE Len(vs[n]) = d
  <2>1. /\ p \in Seq(Seq(Value)) /\ Len(p) = n + 1 /\ p[n + 1] = <<x>>
        /\ \A i \in 1 .. n : p[i] = vs[i]
    <3>1. vs \in Seq(Seq(Value)) /\ Len(vs) > 0 /\ Len(vs[Len(vs)]) = d
      BY <1>1, <1>6
    <3>2. p \in Seq(Seq(Value)) /\ Len(p) = n + 1 /\ p[n + 1] = <<x>>
      BY <3>1, PushedBehind
    <3>3. \A i \in 1 .. n : p[i] = vs[i]
      BY <3>1, PushedBehind
    <3> QED
      BY <3>2, <3>3
  <2>2. Len(p[n + 1]) = 1 /\ p[n + 1][1] = x
    BY <2>1
  <2>b. Base(d, n) \in Nat /\ Base(d, n + 1) = Base(d, n) + d
    BY <1>1, Bases
  <2> HIDE DEF p, t, n
  <2>3. ASSUME NEW i \in 1 .. n + 1, NEW j \in 1 .. Len(p[i]) PROVE p[i][j] = t[Base(d, i) + j]
    <3>1. CASE i \in 1 .. n
      BY <1>3, <2>1, <3>1
    <3>2. CASE i = n + 1
      <4>1. j = 1 /\ Base(d, i) + j = Len(s) + 1
        <5>1. Len(p[i]) = 1 /\ Base(d, i) = Base(d, n) + d
          BY <2>2, <2>b, <3>2
        <5> QED
          BY <1>4, <1>6, <2>b, <5>1
      <4> QED
        BY <1>2, <2>2, <3>2, <4>1
    <3> QED
      BY <1>1, <3>1, <3>2
  <2>4. Len(t) = Base(d, n + 1) + Len(p[n + 1]) /\ Len(p[n + 1]) <= d /\ n + 1 \in Nat \ {0} /\ (n + 1) - 1 = n
    BY <1>1, <1>2, <1>6, <2>2, <2>b
  <2>5. \A i \in 1 .. (n + 1) - 1 : Len(p[i]) = d
    <3> TAKE i \in 1 .. (n + 1) - 1
    <3>1. i \in 1 .. n /\ (i < n \/ i = n)
      BY <1>1
    <3> QED
      BY <1>1, <1>6, <2>1, <3>1
  <2>6. Filled(p, d, t)
    BY <1>1, <1>2, <2>1, <2>3, <2>4, <2>5, FillFacts
  <2>7. p[Len(p)] # <<>>
    BY <2>1, <2>2
  <2> QED
    BY <2>6, <2>7 DEF Chunks, p, t
<1>7. Len(vs[n]) < d \/ Len(vs[n]) = d
  BY <1>4
<1> QED
  BY <1>5, <1>6, <1>7

(* Elements put at the end of the array, one by one.                       *)
LEMMA PushedAllChunks ==
  ASSUME NEW d \in Nat \ {0}, NEW vs, NEW s, Chunks(vs, d, s), NEW xs \in Seq(Value)
  PROVE  Chunks(PushedAll(vs, d, xs), d, s \o xs)
<1> DEFINE n == Len(xs)
           S == {w \in Seq(Seq(Value)) : \E u \in Seq(Value) : Chunks(w, d, u)}
           step == [i \in 1 .. n |-> [w \in S |-> Pushed(w, d, xs[i])]]
           R(f) == f = [i \in 0 .. n |-> IF i = 0 THEN vs ELSE Pushed(f[i - 1], d, xs[i])]
<1>1. n \in Nat /\ \A i \in 1 .. n : xs[i] \in Value
  OBVIOUS
<1>2. s \in Seq(Value) /\ vs \in S
  BY DEF Chunks, Filled
<1>3. ASSUME NEW w, NEW u, Chunks(w, d, u), NEW x \in Value
      PROVE  Chunks(Pushed(w, d, x), d, Append(u, x)) /\ Pushed(w, d, x) \in S
  <2>1. Chunks(Pushed(w, d, x), d, Append(u, x))
    BY <1>3, PushedFilled DEF Chunks
  <2> QED
    BY <2>1 DEF Chunks, Filled
<1>4. step \in Steps(n, S)
  <2>1. ASSUME NEW i \in 1 .. n, NEW w \in S PROVE Pushed(w, d, xs[i]) \in S
    <3>1. PICK u \in Seq(Value) : Chunks(w, d, u)
      OBVIOUS
    <3> HIDE DEF S
    <3> QED
      BY <1>1, <1>3, <3>1
  <2> HIDE DEF S
  <2> QED
    BY <2>1 DEF Steps
<1>5. \A i \in 1 .. n : \A w \in S : step[i][w] = Pushed(w, d, xs[i])
  OBVIOUS
<1> HIDE DEF S, step
<1>6. PICK g : Iteration(g, n, S, vs, step)
  BY <1>1, <1>2, <1>4, Iterates
<1>7. R(g)
  <2>1. g \in [0 .. n -> S] /\ g[0] = vs /\ \A i \in 1 .. n : g[i] = step[i][g[i - 1]]
    BY <1>6 DEF Iteration
  <2>2. ASSUME NEW i \in 1 .. n PROVE g[i] = Pushed(g[i - 1], d, xs[i])
    <3>1. g[i - 1] \in S
      BY <1>1, <2>1
    <3> HIDE DEF n
    <3> QED
      BY <1>5, <2>1, <3>1
  <2>3. \A i \in 0 .. n : g[i] = IF i = 0 THEN vs ELSE Pushed(g[i - 1], d, xs[i])
    <3> HIDE DEF n
    <3> QED
      BY <1>1, <2>1, <2>2
  <2>4. g = [i \in 0 .. n |-> g[i]]
    BY <2>1
  <2> QED
    BY <2>3, <2>4
<1> DEFINE r == CHOOSE f : R(f)
<1>8. R(r) /\ PushedAll(vs, d, xs) = r[n]
  <2>1. PushedAll(vs, d, xs) = r[n]
    BY DEF PushedAll
  <2> HIDE DEF R
  <2> QED
    BY <1>7, <2>1
<1> HIDE DEF r
<1>9. r[0] = vs /\ \A i \in 1 .. n : r[i] = Pushed(r[i - 1], d, xs[i])
  BY <1>1, <1>8
<1> DEFINE K == {i \in 0 .. n : Chunks(r[i], d, s \o SubSeq(xs, 1, i))}
<1>10. 0 \in K
  <2>1. SubSeq(xs, 1, 0) = <<>> /\ s \o <<>> = s
    BY <1>1, <1>2
  <2>2. s \o SubSeq(xs, 1, 0) = s
    BY <2>1
  <2>3. Chunks(r[0], d, s \o SubSeq(xs, 1, 0))
    BY <1>9, <2>2, Zenon
  <2> QED
    BY <1>1, <2>3
<1>11. ASSUME NEW i \in 0 .. n - 1, i \in K PROVE i + 1 \in K
  <2>1. i + 1 \in 1 .. n /\ i + 1 \in 0 .. n /\ (i + 1) - 1 = i /\ i \in Nat
    BY <1>1
  <2>2. Append(s \o SubSeq(xs, 1, i), xs[i + 1]) = s \o SubSeq(xs, 1, i + 1)
    <3>1. SubSeq(xs, 1, i) \in Seq(Value)
      BY <1>1, <2>1
    <3>2. SubSeq(xs, 1, i + 1) = Append(SubSeq(xs, 1, i), xs[i + 1])
      BY <1>1, <2>1
    <3> DEFINE p == SubSeq(xs, 1, i)
               x == xs[i + 1]
    <3>3. p \in Seq(Value) /\ x \in Value
      BY <1>1, <2>1, <3>1
    <3> HIDE DEF p, x
    <3>4. Append(s \o p, x) = s \o Append(p, x)
      <4>1. s \in Seq(Value) /\ p \in Seq(Value) /\ x \in Value
        BY <1>2, <3>3
      <4> QED
        BY <4>1, AppendLater, Zenon
    <3> QED
      BY <3>2, <3>4 DEF p, x
  <2>3. Chunks(Pushed(r[i], d, xs[i + 1]), d, Append(s \o SubSeq(xs, 1, i), xs[i + 1]))
    BY <1>1, <1>3, <1>11, <2>1
  <2> QED
    BY <1>9, <2>1, <2>2, <2>3
<1>12. n \in K
  <2> HIDE DEF K, n
  <2>1. 0 .. n \subseteq K
    BY <1>1, <1>10, <1>11, UpTo
  <2> QED
    BY <1>1, <2>1
<1>13. SubSeq(xs, 1, n) = xs
  OBVIOUS
<1> QED
  BY <1>8, <1>12, <1>13

(* A last deque that has become empty goes.                                *)
LEMMA TrimmedChunks ==
  ASSUME NEW d \in Nat \ {0}, NEW vs, NEW s, Filled(vs, d, s)
  PROVE  Chunks(Trimmed(vs), d, s)
<1>1. /\ vs \in Seq(Seq(Value)) /\ s \in Seq(Value) /\ Len(vs) \in Nat \ {0}
      /\ Last(vs) = vs[Len(vs)] /\ Len(s) = Base(d, Len(vs)) + Len(vs[Len(vs)])
      /\ \A i \in 1 .. Len(vs) :
           /\ Len(vs[i]) <= d
           /\ i < Len(vs) => Len(vs[i]) = d
           /\ \A j \in 1 .. Len(vs[i]) : vs[i][j] = s[Base(d, i) + j]
  BY FilledFacts
<1>2. CASE ~(Len(vs) > 1 /\ Last(vs) = <<>>)
  BY <1>1, <1>2 DEF Trimmed, Chunks
<1>3. CASE Len(vs) > 1 /\ Last(vs) = <<>>
  <2>1. PICK f : f = Front(vs) /\ Trimmed(vs) = f
    BY <1>3 DEF Trimmed
  <2>2. PICK n \in Nat \ {0} : n = Len(vs) - 1 /\ Len(vs) = n + 1
    <3>1. Len(vs) - 1 \in Nat \ {0} /\ Len(vs) = (Len(vs) - 1) + 1
      BY <1>1, <1>3
    <3> QED
      BY <3>1
  <2>3. f \in Seq(Seq(Value)) /\ Len(f) = n /\ \A i \in 1 .. n : f[i] = vs[i]
    <3>1. Len(vs) > 0 /\ vs \in Seq(Seq(Value))
      BY <1>1
    <3>2. /\ Front(vs) \in Seq(Seq(Value)) /\ Len(Front(vs)) = Len(vs) - 1
          /\ \A i \in 1 .. Len(vs) - 1 : Front(vs)[i] = vs[i]
      BY <3>1, Fronts
    <3> QED
      BY <2>1, <2>2, <3>2
  <2>4. \A i \in 1 .. n : i \in 1 .. Len(vs) /\ i < Len(vs)
    BY <2>2
  <2>5. ASSUME NEW i \in 1 .. n
        PROVE  Len(f[i]) = d /\ \A j \in 1 .. Len(f[i]) : f[i][j] = s[Base(d, i) + j]
    <3>1. f[i] = vs[i] /\ i \in 1 .. Len(vs) /\ i < Len(vs)
      BY <2>3, <2>4
    <3> QED
      BY <1>1, <3>1
  <2>6. n \in 1 .. n /\ \A i \in 1 .. n - 1 : i \in 1 .. n
    OBVIOUS
  <2>7. Len(s) = Base(d, n) + Len(f[n]) /\ Len(f[n]) <= d
    <3>1. Base(d, n + 1) = Base(d, n) + d /\ Base(d, n) \in Nat
      BY Bases
    <3>2. Len(s) = Base(d, n + 1) + Len(vs[n + 1]) /\ vs[n + 1] = <<>>
      BY <1>1, <1>3, <2>2
    <3> QED
      BY <2>5, <2>6, <3>1, <3>2
  <2>8. Filled(f, d, s)
    <3>1. f \in Seq(Seq(Value)) /\ s \in Seq(Value) /\ n \in Nat \ {0} /\ Len(f) = n
      BY <1>1, <2>3
    <3>2. \A i \in 1 .. n - 1 : Len(f[i]) = d
      BY <2>5, <2>6
    <3>3. \A i \in 1 .. n : \A j \in 1 .. Len(f[i]) : f[i][j] = s[Base(d, i) + j]
      BY <2>5
    <3> QED
      BY <2>7, <3>1, <3>2, <3>3, FillFacts, Zenon
  <2>9. f[Len(f)] # <<>>
    BY <2>3, <2>5, <2>6
  <2> QED
    BY <2>1, <2>8, <2>9 DEF Chunks
<1> QED
  BY <1>2, <1>3

(* Put together again, they are s.                                         *)
LEMMA FlattenFilled ==
  ASSUME NEW d \in Nat \ {0}, NEW vs, NEW s, Filled(vs, d, s)
  PROVE  FlattenSeq(vs) = s
<1> DEFINE n == Len(vs)
           upto(i) == Base(d, i) + Len(vs[i])
           t == [i \in 1 .. n |-> SubSeq(s, 1, upto(i))]
           R(f) == f = [i \in 1 .. n |-> IF i = 1 THEN vs[i] ELSE f[i - 1] \o vs[i]]
<1>1. /\ s \in Seq(Value) /\ Len(s) \in Nat /\ n \in Nat \ {0} /\ n \in 1 .. n /\ 1 \in 1 .. n
      /\ Len(s) = upto(n)
      /\ \A i \in 1 .. n :
           /\ vs[i] \in Seq(Value) /\ Len(vs[i]) \in Nat
           /\ i \in Nat \ {0} /\ Base(d, i) \in Nat
           /\ Len(vs[i]) <= d
           /\ i < n => Len(vs[i]) = d
           /\ \A j \in 1 .. Len(vs[i]) : vs[i][j] = s[Base(d, i) + j]
  BY FilledFacts
<1>2. ASSUME NEW i \in 1 .. n PROVE upto(i) \in Base(d, i) .. Len(s) /\ upto(i) \in Nat
  <2>1. CASE i < n
    <3>1. Base(d, i) + d <= Base(d, n) /\ Base(d, n) \in Nat
      BY <1>1, <2>1, Bases
    <3>2. Len(vs[i]) = d /\ Len(s) = Base(d, n) + Len(vs[n]) /\ Len(vs[n]) \in Nat /\ Base(d, i) \in Nat
      BY <1>1, <2>1
    <3> QED
      BY <3>1, <3>2
  <2>2. CASE i = n
    BY <1>1, <2>2
  <2> QED
    BY <1>1, <2>1, <2>2
<1>3. ASSUME NEW i \in 1 .. n PROVE t[i] = IF i = 1 THEN vs[i] ELSE t[i - 1] \o vs[i]
  <2>0. PICK b \in Nat : b = Base(d, i)
    BY <1>1
  <2>1. PICK q \in Seq(Value) : q = vs[i]
    BY <1>1
  <2>2. b + Len(q) \in b .. Len(s) /\ t[i] = SubSeq(s, 1, b + Len(q)) /\ Len(q) \in Nat
    BY <1>1, <1>2, <2>0, <2>1
  <2>3. \A j \in 1 .. Len(q) : q[j] = s[b + j]
    BY <1>1, <2>0, <2>1
  <2>4. b <= Len(s) /\ b + Len(q) <= Len(s)
    BY <2>2
  <2>5. SubSeq(s, 1, b + Len(q)) = SubSeq(s, 1, b) \o q
    <3> HIDE DEF n, upto, t
    <3>1. /\ SubSeq(s, 1, b) \in Seq(Value) /\ Len(SubSeq(s, 1, b)) = b
          /\ \A j \in 1 .. b : SubSeq(s, 1, b)[j] = s[j]
      BY <1>1, <2>4
    <3> DEFINE p == SubSeq(s, 1, b)
    <3> HIDE DEF p
    <3>2. p \o q = [j \in 1 .. Len(p) + Len(q) |-> IF j <= Len(p) THEN p[j] ELSE q[j - Len(p)]]
      BY <3>1, Joined DEF p
    <3>3. SubSeq(s, 1, b + Len(q)) = [j \in 1 .. b + Len(q) |-> s[j]]
      BY <1>1, <2>2, <2>4
    <3>4. ASSUME NEW j \in 1 .. b + Len(q) PROVE s[j] = IF j <= b THEN p[j] ELSE q[j - b]
      <4>1. CASE j <= b
        BY <3>1, <4>1 DEF p
      <4>2. CASE ~(j <= b)
        <5>1. j - b \in 1 .. Len(q) /\ b + (j - b) = j
          BY <2>2, <4>2
        <5> QED
          BY <2>3, <4>2, <5>1
      <4> QED
        BY <4>1, <4>2
    <3> QED
      BY <3>1, <3>2, <3>3, <3>4 DEF p
  <2>6. CASE i = 1
    <3>1. b = 0
      BY <2>0, <2>6, Bases
    <3>2. SubSeq(s, 1, 0) = <<>> /\ <<>> \o q = q
      BY <1>1
    <3> QED
      BY <2>1, <2>2, <2>5, <2>6, <3>1, <3>2
  <2>7. CASE i # 1
    <3>1. i - 1 \in 1 .. n /\ i - 1 < n /\ i > 1 /\ i - 1 \in Nat \ {0}
      BY <1>1, <2>7
    <3>2. b = Base(d, i - 1) + d
      BY <2>0, <3>1, Bases
    <3>3. upto(i - 1) = b
      BY <1>1, <3>1, <3>2
    <3>4. t[i - 1] = SubSeq(s, 1, b)
      BY <3>1, <3>3
    <3> QED
      BY <2>1, <2>2, <2>5, <2>7, <3>4
  <2> QED
    BY <2>6, <2>7
<1>4. R(t)
  <2>1. t = [i \in 1 .. n |-> t[i]]
    OBVIOUS
  <2> HIDE DEF t
  <2> QED
    BY <1>3, <2>1
<1> DEFINE u == CHOOSE f : R(f)
<1>5. FlattenSeq(vs) = u[n]
  <2>1. Len(vs) # 0
    BY <1>1
  <2> QED
    BY <2>1 DEF FlattenSeq
<1>6. R(u)
  <2> HIDE DEF R
  <2> QED
    BY <1>4
<1> HIDE DEF u
<1>7. \A i \in 1 .. n : u[i] = IF i = 1 THEN vs[i] ELSE u[i - 1] \o vs[i]
  BY <1>6
<1> DEFINE K == {i \in 0 .. n - 1 : u[i + 1] = t[i + 1]}
<1> HIDE DEF t, n
<1>8. 0 \in K
  <2>1. u[1] = t[1] /\ 0 \in 0 .. n - 1 /\ 0 + 1 = 1
    BY <1>1, <1>3, <1>7
  <2> QED
    BY <2>1
<1>9. ASSUME NEW i \in 0 .. (n - 1) - 1, i \in K PROVE i + 1 \in K
  <2>1. PICK k \in Nat : k = i + 1
    BY <1>1
  <2>2. k + 1 \in 1 .. n /\ k + 1 # 1 /\ (k + 1) - 1 = k /\ k \in 0 .. n - 1
    BY <1>1, <2>1
  <2>3. u[k] = t[k]
    BY <1>9, <2>1
  <2>4. u[k + 1] = t[k + 1]
    BY <1>3, <1>7, <2>2, <2>3
  <2> QED
    BY <2>1, <2>2, <2>4
<1>10. n - 1 \in K
  <2>1. n - 1 \in Nat
    BY <1>1
  <2> HIDE DEF K
  <2>2. 0 .. n - 1 \subseteq K
    BY <1>8, <1>9, <2>1, UpTo
  <2> QED
    BY <2>1, <2>2
<1>11. u[n] = t[n]
  <2>1. (n - 1) + 1 = n
    BY <1>1
  <2> QED
    BY <1>10, <2>1
<1>12. t[n] = s
  <2>1. SubSeq(s, 1, Len(s)) = s
    BY <1>1
  <2> QED
    BY <1>1, <2>1 DEF t
<1> QED
  BY <1>5, <1>11, <1>12

-----------------------------------------------------------------------------
(* Indices and iterators.                                                  *)
LEMMA Divided ==
  ASSUME NEW d \in Nat \ {0}, NEW r \in Nat
  PROVE  /\ r \div d \in Nat
         /\ (r \div d) * d <= r /\ r < (r \div d) * d + d
         /\ r % d \in 0 .. d - 1 /\ (r \div d) * d + (r % d) = r
         /\ \A q \in Nat : q <= r \div d => q * d <= r
<1>1. /\ r \div d \in Nat /\ r % d \in 0 .. d - 1
      /\ (r \div d) * d + (r % d) = r
  OBVIOUS
<1>2. ASSUME NEW q \in Nat, q <= r \div d PROVE q * d <= r
  BY <1>2
<1>3. (r \div d) * d <= r /\ r < (r \div d) * d + d
  OBVIOUS
<1> QED
  BY <1>1, <1>2, <1>3

LEMMA BaseSum ==
  ASSUME NEW d \in Nat \ {0}, NEW i \in Nat \ {0}, NEW j \in Nat
  PROVE  Base(d, i + j) = Base(d, i) + j * d /\ j * d \in Nat /\ Base(d, i) \in Nat
BY DEF Base

(* Offset j of deque i is where element k is, or the end if there are k.   *)
Spot(vs, d, i, j, k) ==
  /\ i \in 1 .. Len(vs) /\ j \in 0 .. Len(vs[i])
  /\ j = Len(vs[i]) => i = Len(vs)
  /\ Base(d, i) + j = k

(* In numbers: n deques, the last one of l elements behind e others, and   *)
(* the ith one of m elements behind b others.                              *)
Numbers(d, i, j, k, n, b, m, l, e) ==
  /\ n \in Nat /\ b \in Nat /\ m \in Nat /\ l \in Nat /\ e \in Nat /\ l <= d /\ m <= d
  /\ n > 1 => l > 0
  /\ i \in Nat /\ 0 < i /\ i <= n /\ j \in Nat /\ b + j = k /\ j <= m
  /\ j = m => i = n
  /\ i < n => m = d /\ b + d <= e
  /\ i = n => m = l /\ b = e

(* What the numbers are.                                                   *)
Lengths(vs, d, s, i, n, b, m, l, e) ==
  /\ n = Len(vs) /\ b = Base(d, i) /\ m = Len(vs[i]) /\ l = Len(vs[n]) /\ e = Base(d, n)
  /\ Len(s) = e + l
  /\ \A x \in 1 .. m : vs[i][x] = s[b + x]

LEMMA SpotFacts ==
  ASSUME NEW d \in Nat \ {0}, NEW vs, NEW s, Chunks(vs, d, s),
         NEW k \in Nat, NEW i, NEW j, Spot(vs, d, i, j, k)
  PROVE  \E n, b, m, l, e : Numbers(d, i, j, k, n, b, m, l, e) /\ Lengths(vs, d, s, i, n, b, m, l, e)
<1>1. PICK n \in Nat \ {0} : n = Len(vs)
  BY FilledFacts DEF Chunks
<1>2. i \in 1 .. n /\ j \in 0 .. Len(vs[i]) /\ (j = Len(vs[i]) => i = n) /\ Base(d, i) + j = k
  BY <1>1 DEF Spot
<1>3. i \in Nat \ {0} /\ i <= n
  BY <1>2
<1>4. Filled(vs, d, s) /\ (n > 1 => vs[n] # <<>>)
  BY <1>1 DEF Chunks
<1>5. /\ Len(vs[i]) \in Nat /\ Len(vs[i]) <= d /\ (i < n => Len(vs[i]) = d)
      /\ \A x \in 1 .. Len(vs[i]) : vs[i][x] = s[Base(d, i) + x]
  BY <1>1, <1>2, <1>4, FilledFacts, SMTT(30)
<1>6. vs[n] \in Seq(Value) /\ Len(vs[n]) \in Nat /\ Len(vs[n]) <= d /\ Len(s) = Base(d, n) + Len(vs[n])
  <2>1. n \in 1 .. n
    OBVIOUS
  <2> QED
    BY <1>1, <1>4, <2>1, FilledFacts
<1>7. n > 1 => Len(vs[n]) > 0
  BY <1>4, <1>6
<1>8. Base(d, i) \in Nat /\ Base(d, n) \in Nat /\ (i < n => Base(d, i) + d <= Base(d, n))
  BY <1>3, Bases
<1>9. i = n => Len(vs[i]) = Len(vs[n]) /\ Base(d, i) = Base(d, n)
  OBVIOUS
<1>10. j \in Nat /\ j <= Len(vs[i])
  BY <1>2, <1>5
<1>11. PICK b \in Nat, m \in Nat, l \in Nat, e \in Nat :
         b = Base(d, i) /\ m = Len(vs[i]) /\ l = Len(vs[n]) /\ e = Base(d, n)
  BY <1>5, <1>6, <1>8
<1>12. /\ Len(s) = e + l /\ l <= d /\ (n > 1 => l > 0)
       /\ i \in Nat /\ 0 < i /\ i <= n /\ j \in Nat /\ b + j = k /\ j <= m /\ m <= d
  BY <1>2, <1>3, <1>5, <1>6, <1>7, <1>10, <1>11
<1>13. /\ j = m => i = n
       /\ i < n => m = d /\ b + d <= e
       /\ i = n => m = l /\ b = e
  BY <1>2, <1>5, <1>8, <1>9, <1>11
<1>14. \A x \in 1 .. m : vs[i][x] = s[b + x]
  BY <1>5, <1>11
<1>15. Numbers(d, i, j, k, n, b, m, l, e)
  BY <1>12, <1>13 DEF Numbers
<1>16. Lengths(vs, d, s, i, n, b, m, l, e)
  BY <1>1, <1>11, <1>12, <1>14 DEF Lengths
<1> QED
  BY <1>15, <1>16

LEMMA SpotIn ==
  ASSUME NEW d \in Nat \ {0}, NEW vs, NEW s, Chunks(vs, d, s),
         NEW k \in Nat, NEW i, NEW j, Spot(vs, d, i, j, k)
  PROVE  /\ Len(s) \in Nat /\ k <= Len(s)
         /\ k = Len(s) => i = Len(vs) /\ j = Len(vs[i])
         /\ k < Len(s) => j < Len(vs[i]) /\ vs[i][j + 1] = s[k + 1]
<1>1. PICK n, b, m, l, e : Numbers(d, i, j, k, n, b, m, l, e) /\ Lengths(vs, d, s, i, n, b, m, l, e)
  BY SpotFacts
<1>2. e + l \in Nat /\ k <= e + l /\ (k = e + l => i = n /\ j = m) /\ (k < e + l => j < m)
  <2>1. CASE i < n
    BY <1>1, <2>1 DEF Numbers
  <2>2. CASE i = n
    BY <1>1, <2>2 DEF Numbers
  <2> QED
    BY <1>1, <2>1, <2>2 DEF Numbers
<1>3. ASSUME j < m PROVE vs[i][j + 1] = s[k + 1]
  <2>1. j + 1 \in 1 .. m /\ b + (j + 1) = k + 1
    BY <1>1, <1>3 DEF Numbers
  <2> QED
    BY <1>1, <2>1 DEF Lengths
<1> QED
  BY <1>1, <1>2, <1>3 DEF Lengths, Numbers

(* Two places are in the order of their indices; so only one is that of    *)
(* element k.                                                              *)
LEMMA SpotOrder ==
  ASSUME NEW d \in Nat \ {0}, NEW vs, NEW s, Chunks(vs, d, s),
         NEW k \in Nat, NEW i, NEW j, Spot(vs, d, i, j, k),
         NEW K \in Nat, NEW I, NEW J, Spot(vs, d, I, J, K)
  PROVE  /\ i < I => k < K
         /\ i = I => (k < K <=> j < J)
         /\ k = K => i = I /\ j = J
<1>1. PICK n, b, m, l, e : Numbers(d, i, j, k, n, b, m, l, e) /\ Lengths(vs, d, s, i, n, b, m, l, e)
  BY SpotFacts
<1>2. PICK N, B, M, L, E : Numbers(d, I, J, K, N, B, M, L, E) /\ Lengths(vs, d, s, I, N, B, M, L, E)
  BY SpotFacts
<1>3. (i < I => b + d <= B) /\ (I < i => B + d <= b) /\ (i = I => b = B)
  <2>1. i \in Nat \ {0} /\ I \in Nat \ {0}
    BY <1>1, <1>2 DEF Numbers
  <2>2. (i < I => Base(d, i) + d <= Base(d, I)) /\ (I < i => Base(d, I) + d <= Base(d, i))
    BY <2>1, Bases
  <2> QED
    BY <1>1, <1>2, <2>2 DEF Lengths
<1>4. n = N
  BY <1>1, <1>2 DEF Lengths
<1>5. i < n => j < d
  BY <1>1 DEF Numbers
<1>6. I < n => J < d
  BY <1>2, <1>4 DEF Numbers
<1>0. Numbers(d, i, j, k, n, b, m, l, e) /\ Numbers(d, I, J, K, N, B, M, L, E)
  BY <1>1, <1>2
<1>7. ASSUME i < I PROVE k < K
  <2>1. i < n
    BY <1>0, <1>4, <1>7 DEF Numbers
  <2> QED
    BY <1>0, <1>3, <1>5, <1>7, <2>1 DEF Numbers
<1>8. ASSUME I < i PROVE K < k
  <2>1. I < n
    BY <1>0, <1>4, <1>8 DEF Numbers
  <2> QED
    BY <1>0, <1>3, <1>6, <1>8, <2>1 DEF Numbers
<1>9. i = I => (k < K <=> j < J) /\ (k = K => j = J)
  BY <1>0, <1>3 DEF Numbers
<1>10. i < I \/ I < i \/ i = I
  BY <1>0 DEF Numbers
<1> QED
  BY <1>7, <1>8, <1>9, <1>10

LEMMA FullDeque ==
  ASSUME NEW d \in Nat \ {0}, NEW vs, NEW s, Chunks(vs, d, s), NEW i \in 1 .. Len(vs), i < Len(vs)
  PROVE  Len(vs[i]) = d
<1>1. Filled(vs, d, s)
  BY DEF Chunks
<1> QED
  BY <1>1, FilledFacts

LEMMA SpotIf ==
  ASSUME NEW d \in Nat \ {0}, NEW vs, NEW s, Chunks(vs, d, s),
         NEW i \in 1 .. Len(vs), NEW j \in Nat, NEW k \in Nat,
         Base(d, i) + j = k, k <= Len(s), i < Len(vs) => j < d
  PROVE  Spot(vs, d, i, j, k)
<1>1. /\ Filled(vs, d, s) /\ Len(vs) \in Nat \ {0}
      /\ Len(vs[i]) \in Nat /\ (i < Len(vs) => Len(vs[i]) = d)
      /\ Len(s) = Base(d, Len(vs)) + Len(vs[Len(vs)])
  BY FilledFacts DEF Chunks
<1>2. CASE i < Len(vs)
  BY <1>1, <1>2 DEF Spot
<1>3. CASE i = Len(vs)
  <2>1. PICK b \in Nat, l \in Nat : b = Base(d, i) /\ l = Len(vs[i])
    <3>1. Base(d, i) \in Nat
      BY <1>1, <1>3, Bases
    <3> QED
      BY <1>1, <3>1
  <2>2. b + j <= b + l
    BY <1>1, <1>3, <2>1
  <2>3. j \in 0 .. l
    BY <2>2
  <2> QED
    BY <1>3, <2>1, <2>3 DEF Spot
<1> QED
  BY <1>1, <1>2, <1>3

(* An iterator of the array refers to element k.                           *)
Refers(vs, d, it, k) ==
  \E i, j : it = [vec |-> i, deq |-> j] /\ Spot(vs, d, i, j, k)

(* The array, its elements and an iterator as constants.                   *)
Referring(vs, d, s, it, i, j, k) ==
  /\ d \in Nat \ {0}
  /\ Chunks(vs, d, s) /\ Spot(vs, d, i, j, k)
  /\ it = [vec |-> i, deq |-> j] /\ it.vec = i /\ it.deq = j

LEMMA Reference ==
  ASSUME NEW vs, NEW d \in Nat \ {0}, NEW s, Chunks(vs, d, s), NEW k, NEW it, Refers(vs, d, it, k)
  PROVE  \E i, j : Referring(vs, d, s, it, i, j, k)
<1>1. PICK i, j : it = [vec |-> i, deq |-> j] /\ Spot(vs, d, i, j, k)
  BY DEF Refers
<1>2. Referring(vs, d, s, it, i, j, k)
  BY <1>1 DEF Referring
<1> QED
  BY <1>2

LEMMA RefersIf ==
  ASSUME NEW vs, NEW d \in Nat \ {0}, NEW s, Chunks(vs, d, s),
         NEW i \in 1 .. Len(vs), NEW j \in Nat, NEW k \in Nat,
         Base(d, i) + j = k, k <= Len(s), i < Len(vs) => j < d
  PROVE  Refers(vs, d, [vec |-> i, deq |-> j], k)
<1>1. Spot(vs, d, i, j, k)
  BY SpotIf
<1> QED
  BY <1>1 DEF Refers

LEMMA RefersOnce ==
  ASSUME NEW vs, NEW d \in Nat \ {0}, NEW s, Chunks(vs, d, s), NEW k \in Nat,
         NEW a, Refers(vs, d, a, k), NEW b, Refers(vs, d, b, k)
  PROVE  a = b
<1>1. PICK i, j : Referring(vs, d, s, a, i, j, k)
  BY Reference
<1>2. PICK I, J : Referring(vs, d, s, b, I, J, k)
  BY Reference
<1>3. /\ d \in Nat \ {0} /\ Chunks(vs, d, s) /\ Spot(vs, d, i, j, k) /\ Spot(vs, d, I, J, k)
      /\ a = [vec |-> i, deq |-> j] /\ b = [vec |-> I, deq |-> J]
  BY <1>1, <1>2 DEF Referring
<1>4. i = I /\ j = J
  BY <1>3, SpotOrder
<1> QED
  BY <1>3, <1>4

LEMMA PlusRefers ==
  ASSUME NEW vs, NEW d \in Nat \ {0}, NEW s, Chunks(vs, d, s), NEW k \in Nat,
         NEW it, Refers(vs, d, it, k), NEW a \in Nat, k + a <= Len(s)
  PROVE  Refers(vs, d, Plus(vs, d, it, a), k + a)
<1>1. PICK i, j : Referring(vs, d, s, it, i, j, k)
  BY Reference
<1>2. /\ d \in Nat \ {0} /\ Chunks(vs, d, s)
      /\ it = [vec |-> i, deq |-> j] /\ it.vec = i /\ it.deq = j
      /\ Spot(vs, d, i, j, k)
  BY <1>1 DEF Referring
<1>3. PICK n, b, m, l, e : Numbers(d, i, j, k, n, b, m, l, e) /\ Lengths(vs, d, s, i, n, b, m, l, e)
  BY <1>2, SpotFacts
<1>4. /\ n = Len(vs) /\ b = Base(d, i) /\ m = Len(vs[i]) /\ Len(s) = e + l
  BY <1>3 DEF Lengths
<1>0. Numbers(d, i, j, k, n, b, m, l, e) /\ d \in Nat \ {0}
  BY <1>2, <1>3
<1>5. k + a \in Nat /\ i \in 1 .. n /\ i \in Nat \ {0} /\ j \in Nat
  BY <1>0 DEF Numbers
<1>6. CASE a = 0 \/ a < m - j \/ i = n
  <2>1. Plus(vs, d, it, a) = [vec |-> i, deq |-> j + a]
    BY <1>2, <1>4, <1>6 DEF Plus
  <2>2. j + a \in Nat /\ b + (j + a) = k + a /\ (i < n => j + a < d)
    BY <1>0, <1>6 DEF Numbers
  <2> QED
    BY <1>2, <1>4, <1>5, <2>1, <2>2, RefersIf
<1>7. CASE ~(a = 0 \/ a < m - j \/ i = n)
  <2>1. PICK r \in Nat : r = a - (m - j)
    <3>1. a - (m - j) \in Nat
      BY <1>0, <1>7 DEF Numbers
    <3> QED
      BY <3>1
  <2>2. PICK q \in Nat : q = r \div d /\ r < q * d + d /\ \A x \in Nat : x <= q => x * d <= r
    BY <1>2, Divided
  <2>3. PICK skip \in Nat : skip = Least(q, n - i - 1)
    <3>1. n - i - 1 \in Nat
      BY <1>0, <1>7 DEF Numbers
    <3> QED
      BY <3>1 DEF Least
  <2>4. skip <= q /\ skip <= n - i - 1 /\ (skip = q \/ skip = n - i - 1)
    BY <1>0, <2>3 DEF Least, Numbers
  <2>5. Plus(vs, d, it, a) = [vec |-> i + 1 + skip, deq |-> r - skip * d]
    BY <1>2, <1>4, <1>7, <2>1, <2>2, <2>3 DEF Plus
  <2>6. PICK p \in Nat : p = skip * d /\ p <= r /\ (skip = q => r < p + d)
    <3>1. skip * d \in Nat /\ skip * d <= r
      BY <1>2, <2>2, <2>4
    <3> QED
      BY <2>2, <3>1
  <2>7. Base(d, i + 1 + skip) = b + d + p
    <3>1. PICK x \in Nat \ {0} : x = i + 1
      BY <1>5
    <3>2. Base(d, x + skip) = Base(d, x) + skip * d
      BY <1>2, BaseSum
    <3>3. Base(d, x) = Base(d, i) + d
      BY <1>2, <1>5, <3>1, Bases
    <3> QED
      BY <1>4, <2>6, <3>1, <3>2, <3>3
  <2>8. PICK I \in Nat, J \in Nat : I = i + 1 + skip /\ J = r - p
    <3>1. i + 1 + skip \in Nat /\ r - p \in Nat
      BY <1>5, <2>6
    <3> QED
      BY <3>1
  <2>9. I \in 1 .. n /\ (I < n => skip = q)
    BY <1>0, <2>4, <2>8 DEF Numbers
  <2>10. I < n => J < d
    BY <1>2, <2>6, <2>8, <2>9
  <2>11. (b + d + p) + J = k + a
    <3>1. i < n /\ m = d
      BY <1>0, <1>7 DEF Numbers
    <3> QED
      BY <1>0, <2>1, <2>8, <3>1 DEF Numbers
  <2>12. Base(d, I) + J = k + a
    BY <2>7, <2>8, <2>11
  <2>13. Plus(vs, d, it, a) = [vec |-> I, deq |-> J]
    BY <2>5, <2>6, <2>8
  <2> QED
    BY <1>2, <1>4, <1>5, <2>9, <2>10, <2>12, <2>13, RefersIf
<1> QED
  BY <1>6, <1>7

LEMMA MinusRefers ==
  ASSUME NEW vs, NEW d \in Nat \ {0}, NEW s, Chunks(vs, d, s), NEW k \in Nat, k <= Len(s),
         NEW it, Refers(vs, d, it, k), NEW a \in Nat, a <= k
  PROVE  Refers(vs, d, Minus(vs, d, it, a), k - a)
<1>1. PICK i, j : Referring(vs, d, s, it, i, j, k)
  BY Reference
<1>2. /\ d \in Nat \ {0} /\ Chunks(vs, d, s)
      /\ it = [vec |-> i, deq |-> j] /\ it.vec = i /\ it.deq = j
      /\ Spot(vs, d, i, j, k)
  BY <1>1 DEF Referring
<1>3. PICK n, b, m, l, e : Numbers(d, i, j, k, n, b, m, l, e) /\ Lengths(vs, d, s, i, n, b, m, l, e)
  BY <1>2, SpotFacts
<1>4. n = Len(vs) /\ b = Base(d, i) /\ m = Len(vs[i])
  BY <1>3 DEF Lengths
<1>5. Numbers(d, i, j, k, n, b, m, l, e) /\ d \in Nat \ {0}
  BY <1>2, <1>3
<1>6. k - a \in Nat /\ i \in 1 .. n /\ i \in Nat \ {0} /\ j \in Nat /\ b \in Nat
  BY <1>5 DEF Numbers
<1>7. k - a <= Len(s)
  <2>1. Len(s) \in Nat
    BY <1>2, SpotIn
  <2> QED
    BY <2>1
<1>8. CASE a <= j
  <2>1. Minus(vs, d, it, a) = [vec |-> i, deq |-> j - a]
    BY <1>2, <1>8 DEF Minus
  <2>2. j - a \in Nat /\ b + (j - a) = k - a /\ (i < n => j - a < d)
    BY <1>5, <1>8 DEF Numbers
  <2> QED
    BY <1>2, <1>4, <1>6, <1>7, <2>1, <2>2, RefersIf
<1>9. CASE ~(a <= j)
  <2>1. PICK r \in Nat : r = a - j - 1
    <3>1. a - j - 1 \in Nat
      BY <1>6, <1>9
    <3> QED
      BY <3>1
  <2>2. i > 1
    <3>1. i = 1 => b = 0
      BY <1>2, <1>4, Bases
    <3> QED
      BY <1>5, <1>9, <3>1 DEF Numbers
  <2>3. PICK q \in Nat : q = r \div d /\ r < q * d + d /\ \A x \in Nat : x <= q => x * d <= r
    BY <1>2, Divided
  <2>4. PICK skip \in Nat : skip = Least(q, i - 2)
    <3>1. i - 2 \in Nat
      BY <1>6, <2>2
    <3> QED
      BY <3>1 DEF Least
  <2>5. skip <= q /\ skip <= i - 2 /\ (skip = q \/ skip = i - 2)
    BY <1>6, <2>4 DEF Least
  <2>6. PICK p \in Nat : p = skip * d /\ p <= r /\ (skip = q => r < p + d)
    <3>1. skip * d \in Nat /\ skip * d <= r
      BY <1>2, <2>3, <2>5
    <3> QED
      BY <2>3, <3>1
  <2>7. PICK I \in Nat \ {0} : I = i - 1 - skip
    <3>1. i - 1 - skip \in Nat \ {0}
      BY <1>6, <2>5
    <3> QED
      BY <3>1
  <2>8. I \in 1 .. n /\ I < n /\ (I = 1 \/ skip = q)
    BY <1>5, <2>5, <2>7 DEF Numbers
  <2>9. Len(vs[I]) = d
    BY <1>2, <1>4, <2>8, FullDeque
  <2>10. Minus(vs, d, it, a) = [vec |-> I, deq |-> d - 1 - (r - p)]
    BY <1>2, <1>9, <2>1, <2>3, <2>4, <2>6, <2>7, <2>9 DEF Minus
  <2>11. PICK B \in Nat : B = Base(d, I) /\ b = B + d + p /\ (I = 1 => B = 0)
    <3>1. PICK x \in Nat \ {0} : x = I + 1
      BY <2>7
    <3>2. Base(d, x + skip) = Base(d, x) + skip * d
      BY <1>2, BaseSum
    <3>3. Base(d, x) = Base(d, I) + d /\ Base(d, I) \in Nat /\ Base(d, 1) = 0
      BY <1>2, <3>1, Bases
    <3>4. x + skip = i
      BY <1>6, <2>7, <3>1
    <3> QED
      BY <1>4, <2>6, <3>2, <3>3, <3>4
  <2>12. b + j = k /\ j \in Nat
    BY <1>5 DEF Numbers
  <2>13. B + (d - 1 - (r - p)) = k - a
    <3>1. b = B + d + p /\ d \in Nat
      BY <1>2, <2>11
    <3> QED
      BY <2>1, <2>12, <3>1
  <2>14. d - 1 - (r - p) >= 0
    <3>1. CASE I = 1
      BY <1>2, <1>6, <2>6, <2>11, <2>13, <3>1
    <3>2. CASE skip = q
      BY <1>2, <2>6, <3>2
    <3> QED
      BY <2>8, <3>1, <3>2
  <2>15. PICK J \in Nat : J = d - 1 - (r - p) /\ J < d
    BY <1>2, <2>6, <2>14
  <2>16. Base(d, I) + J = k - a
    BY <2>11, <2>13, <2>15
  <2>17. Minus(vs, d, it, a) = [vec |-> I, deq |-> J]
    BY <2>10, <2>15
  <2> QED
    BY <1>2, <1>4, <1>6, <1>7, <2>8, <2>15, <2>16, <2>17, RefersIf
<1> QED
  BY <1>8, <1>9

LEMMA IncrementedRefers ==
  ASSUME NEW vs, NEW d \in Nat \ {0}, NEW s, Chunks(vs, d, s), NEW k \in Nat,
         NEW it, Refers(vs, d, it, k), k < Len(s)
  PROVE  Refers(vs, d, Incremented(vs, it), k + 1)
<1>1. PICK i, j : Referring(vs, d, s, it, i, j, k)
  BY Reference
<1>2. /\ d \in Nat \ {0} /\ Chunks(vs, d, s)
      /\ it = [vec |-> i, deq |-> j] /\ it.vec = i /\ it.deq = j
      /\ Spot(vs, d, i, j, k)
  BY <1>1 DEF Referring
<1>3. PICK n, b, m, l, e : Numbers(d, i, j, k, n, b, m, l, e) /\ Lengths(vs, d, s, i, n, b, m, l, e)
  BY <1>2, SpotFacts
<1>4. n = Len(vs) /\ b = Base(d, i) /\ m = Len(vs[i])
  BY <1>3 DEF Lengths
<1>5. Numbers(d, i, j, k, n, b, m, l, e) /\ d \in Nat \ {0} /\ j < m
  BY <1>2, <1>3, <1>4, SpotIn
<1>6. i \in 1 .. n /\ i \in Nat \ {0} /\ j + 1 \in Nat /\ k + 1 \in Nat
  BY <1>5 DEF Numbers
<1>7. k + 1 <= Len(s)
  <2>1. Len(s) \in Nat
    BY <1>2, SpotIn
  <2> QED
    BY <2>1
<1>8. CASE j + 1 = m /\ i < n
  <2>1. Incremented(vs, it) = [vec |-> i + 1, deq |-> 0]
    BY <1>2, <1>4, <1>8 DEF Incremented
  <2>2. i + 1 \in 1 .. n /\ b + d = k + 1
    BY <1>5, <1>8 DEF Numbers
  <2>3. PICK I \in 1 .. Len(vs) : I = i + 1
    BY <1>4, <2>2
  <2>4. Base(d, I) + 0 = k + 1
    <3>1. Base(d, I) = b + d
      BY <1>2, <1>4, <1>6, <2>3, Bases
    <3> QED
      BY <1>6, <2>2, <3>1
  <2>5. 0 \in Nat /\ 0 < d /\ Incremented(vs, it) = [vec |-> I, deq |-> 0]
    BY <1>2, <2>1, <2>3
  <2> QED
    BY <1>2, <1>6, <1>7, <2>4, <2>5, RefersIf
<1>9. CASE ~(j + 1 = m /\ i < n)
  <2>1. Incremented(vs, it) = [vec |-> i, deq |-> j + 1]
    BY <1>2, <1>4, <1>9 DEF Incremented
  <2>2. b + (j + 1) = k + 1 /\ (i < n => j + 1 < d)
    BY <1>5, <1>9 DEF Numbers
  <2> QED
    BY <1>2, <1>4, <1>6, <1>7, <2>1, <2>2, RefersIf
<1> QED
  BY <1>8, <1>9

LEMMA DecrementedRefers ==
  ASSUME NEW vs, NEW d \in Nat \ {0}, NEW s, Chunks(vs, d, s), NEW k \in Nat, k <= Len(s),
         NEW it, Refers(vs, d, it, k), k > 0
  PROVE  Refers(vs, d, Decremented(vs, it), k - 1)
<1>1. PICK i, j : Referring(vs, d, s, it, i, j, k)
  BY Reference
<1>2. /\ d \in Nat \ {0} /\ Chunks(vs, d, s)
      /\ it = [vec |-> i, deq |-> j] /\ it.vec = i /\ it.deq = j
      /\ Spot(vs, d, i, j, k)
  BY <1>1 DEF Referring
<1>3. PICK n, b, m, l, e : Numbers(d, i, j, k, n, b, m, l, e) /\ Lengths(vs, d, s, i, n, b, m, l, e)
  BY <1>2, SpotFacts
<1>4. n = Len(vs) /\ b = Base(d, i) /\ m = Len(vs[i])
  BY <1>3 DEF Lengths
<1>5. Numbers(d, i, j, k, n, b, m, l, e) /\ d \in Nat \ {0}
  BY <1>2, <1>3
<1>6. i \in 1 .. n /\ i \in Nat \ {0} /\ j \in Nat /\ k - 1 \in Nat
  BY <1>5 DEF Numbers
<1>7. k - 1 <= Len(s)
  <2>1. Len(s) \in Nat
    BY <1>2, SpotIn
  <2> QED
    BY <2>1
<1>8. CASE j = 0 /\ i # 1
  <2>1. PICK I \in Nat \ {0} : I = i - 1 /\ i = I + 1
    <3>1. i - 1 \in Nat \ {0} /\ i = (i - 1) + 1
      BY <1>6, <1>8
    <3> QED
      BY <3>1
  <2>2. I \in 1 .. n /\ I < n
    BY <1>5, <2>1 DEF Numbers
  <2>3. Len(vs[I]) = d
    BY <1>2, <1>4, <2>2, FullDeque
  <2>4. Decremented(vs, it) = [vec |-> I, deq |-> d - 1]
    BY <1>2, <1>8, <2>1, <2>3 DEF Decremented
  <2>5. b = k
    BY <1>5, <1>8 DEF Numbers
  <2>6. Base(d, I) + (d - 1) = k - 1
    <3>1. b = Base(d, I) + d /\ Base(d, I) \in Nat
      BY <1>2, <1>4, <2>1, Bases
    <3> QED
      BY <1>2, <2>5, <3>1
  <2>7. d - 1 \in Nat /\ d - 1 < d
    BY <1>2
  <2> QED
    BY <1>2, <1>4, <1>6, <1>7, <2>2, <2>4, <2>6, <2>7, RefersIf
<1>9. CASE ~(j = 0 /\ i # 1)
  <2>1. j > 0
    <3>1. i = 1 => b = 0
      BY <1>2, <1>4, Bases
    <3> QED
      BY <1>5, <1>9, <3>1 DEF Numbers
  <2>2. Decremented(vs, it) = [vec |-> i, deq |-> j - 1]
    BY <1>2, <1>9 DEF Decremented
  <2>3. j - 1 \in Nat /\ b + (j - 1) = k - 1 /\ (i < n => j - 1 < d)
    BY <1>5, <2>1 DEF Numbers
  <2> QED
    BY <1>2, <1>4, <1>6, <1>7, <2>2, <2>3, RefersIf
<1> QED
  BY <1>8, <1>9

LEMMA DistanceRefers ==
  ASSUME NEW vs, NEW d \in Nat \ {0}, NEW s, Chunks(vs, d, s),
         NEW k \in Nat, NEW it, Refers(vs, d, it, k), NEW K \in Nat, NEW to, Refers(vs, d, to, K), k <= K
  PROVE  Distance(vs, d, it, to) = K - k
<1>1. PICK i, j : Referring(vs, d, s, it, i, j, k)
  BY Reference
<1>2. PICK I, J : Referring(vs, d, s, to, I, J, K)
  BY Reference
<1>3. /\ d \in Nat \ {0} /\ Chunks(vs, d, s)
      /\ it.vec = i /\ it.deq = j /\ Spot(vs, d, i, j, k)
      /\ to.vec = I /\ to.deq = J /\ Spot(vs, d, I, J, K)
  BY <1>1, <1>2 DEF Referring
<1>4. PICK n, b, m, l, e : Numbers(d, i, j, k, n, b, m, l, e) /\ Lengths(vs, d, s, i, n, b, m, l, e)
  BY <1>3, SpotFacts
<1>5. PICK N, B, M, L, E : Numbers(d, I, J, K, N, B, M, L, E) /\ Lengths(vs, d, s, I, N, B, M, L, E)
  BY <1>3, SpotFacts
<1>6. n = N /\ b = Base(d, i) /\ B = Base(d, I) /\ m = Len(vs[i])
  BY <1>4, <1>5 DEF Lengths
<1>7. Numbers(d, i, j, k, n, b, m, l, e) /\ Numbers(d, I, J, K, n, B, M, L, E) /\ d \in Nat \ {0}
  BY <1>3, <1>4, <1>5, <1>6
<1>8. I < i => K < k
  BY <1>3, SpotOrder
<1>9. i <= I /\ i \in Nat \ {0} /\ I \in Nat
  BY <1>7, <1>8 DEF Numbers
<1>10. CASE I > i
  <2>1. PICK x \in Nat : x = I - i - 1 /\ I = (i + 1) + x
    <3>1. I - i - 1 \in Nat /\ I = (i + 1) + (I - i - 1)
      BY <1>9, <1>10
    <3> QED
      BY <3>1
  <2>2. PICK p \in Nat : p = x * d /\ B = b + d + p
    <3>1. PICK y \in Nat \ {0} : y = i + 1
      BY <1>9
    <3>2. Base(d, y + x) = Base(d, y) + x * d /\ x * d \in Nat
      BY <1>3, BaseSum
    <3>3. Base(d, y) = Base(d, i) + d
      BY <1>3, <1>9, <3>1, Bases
    <3> QED
      BY <1>6, <2>1, <3>1, <3>2, <3>3
  <2>3. m = d
    BY <1>7, <1>9, <1>10 DEF Numbers
  <2>4. Distance(vs, d, it, to) = p + J + d - j
    BY <1>3, <1>6, <1>10, <2>1, <2>2, <2>3 DEF Distance
  <2>5. B = b + d + p
    BY <2>2
  <2> QED
    BY <1>7, <2>4, <2>5 DEF Numbers
<1>11. CASE i = I
  <2>1. Distance(vs, d, it, to) = J - j
    BY <1>3, <1>9, <1>11 DEF Distance
  <2>2. b = B
    BY <1>6, <1>11
  <2> QED
    BY <1>7, <2>1, <2>2 DEF Numbers
<1> QED
  BY <1>9, <1>10, <1>11

LEMMA LowerRefers ==
  ASSUME NEW vs, NEW d \in Nat \ {0}, NEW s, Chunks(vs, d, s),
         NEW k \in Nat, NEW it, Refers(vs, d, it, k), NEW K \in Nat, NEW to, Refers(vs, d, to, K)
  PROVE  ItLower(it, to) <=> k < K
<1>1. PICK i, j : Referring(vs, d, s, it, i, j, k)
  BY Reference
<1>2. PICK I, J : Referring(vs, d, s, to, I, J, K)
  BY Reference
<1>3. /\ d \in Nat \ {0} /\ Chunks(vs, d, s)
      /\ it.vec = i /\ it.deq = j /\ Spot(vs, d, i, j, k)
      /\ to.vec = I /\ to.deq = J /\ Spot(vs, d, I, J, K)
  BY <1>1, <1>2 DEF Referring
<1>4. (i < I => k < K) /\ (i = I => (k < K <=> j < J))
  BY <1>3, SpotOrder
<1>5. I < i => K < k
  BY <1>3, SpotOrder
<1>6. i \in Nat /\ I \in Nat
  BY <1>3 DEF Spot
<1> QED
  BY <1>3, <1>4, <1>5, <1>6 DEF ItLower

LEMMA DerefRefers ==
  ASSUME NEW vs, NEW d \in Nat \ {0}, NEW s, Chunks(vs, d, s), NEW k \in Nat, NEW it, Refers(vs, d, it, k), k < Len(s)
  PROVE  Deref(vs, it) = s[k + 1]
<1>1. PICK i, j : Referring(vs, d, s, it, i, j, k)
  BY Reference
<1>2. /\ d \in Nat \ {0} /\ Chunks(vs, d, s)
      /\ it.vec = i /\ it.deq = j /\ Spot(vs, d, i, j, k)
  BY <1>1 DEF Referring
<1>3. vs[i][j + 1] = s[k + 1]
  BY <1>2, SpotIn
<1> QED
  BY <1>2, <1>3 DEF Deref

(* operator[] refers to the same element as an iterator, and at() throws   *)
(* for every greater index.                                                *)
LEMMA AtRefers ==
  ASSUME NEW vs, NEW d \in Nat \ {0}, NEW s, Chunks(vs, d, s), NEW k \in Nat
  PROVE  /\ k < Len(s) => Refers(vs, d, At(d, k), k)
         /\ AtThrows(vs, d, k) <=> k >= Len(s)
<1>2. d \in Nat \ {0} /\ Chunks(vs, d, s)
  OBVIOUS
<1>3. PICK q \in Nat, j \in 0 .. d - 1 : q = k \div d /\ j = k % d /\ q * d + j = k
  <2>1. k \div d \in Nat /\ k % d \in 0 .. d - 1 /\ (k \div d) * d + (k % d) = k
    BY <1>2, Divided
  <2> QED
    BY <2>1
<1>4. PICK i \in Nat \ {0} : i = q + 1
  OBVIOUS
<1>5. At(d, k) = [vec |-> i, deq |-> j] /\ At(d, k).vec = i /\ At(d, k).deq = j
  BY <1>3, <1>4 DEF At
<1>6. PICK b \in Nat : b = Base(d, i) /\ b + j = k
  <2>1. Base(d, i) = q * d /\ q * d \in Nat
    BY <1>2, <1>4 DEF Base
  <2> QED
    BY <1>3, <2>1
<1>7. PICK n \in Nat \ {0}, e \in Nat, l \in Nat :
        n = Len(vs) /\ e = Base(d, n) /\ l = Len(vs[n]) /\ Len(s) = e + l /\ l <= d
  <2>1. /\ Len(vs) \in Nat \ {0} /\ Len(vs) \in 1 .. Len(vs)
        /\ Len(s) = Base(d, Len(vs)) + Len(vs[Len(vs)])
        /\ Len(vs[Len(vs)]) \in Nat /\ Len(vs[Len(vs)]) <= d
    BY <1>2, FilledFacts DEF Chunks
  <2>2. Base(d, Len(vs)) \in Nat
    BY <1>2, <2>1, Bases
  <2> QED
    BY <2>1, <2>2
<1>8. /\ i < n => b + d <= e
      /\ n < i => e + d <= b
      /\ i = n => b = e
  <2>1. i < n => Base(d, i) + d <= Base(d, n)
    BY <1>2, <1>4, <1>7, Bases
  <2>2. n < i => Base(d, n) + d <= Base(d, i)
    BY <1>2, <1>4, <1>7, Bases
  <2> QED
    BY <1>6, <1>7, <2>1, <2>2
<1>9. j \in Nat /\ j < d /\ d \in Nat
  BY <1>2, <1>3
<1>10. ASSUME k < Len(s) PROVE i \in 1 .. n /\ Refers(vs, d, At(d, k), k)
  <2>1. b + j < e + l
    BY <1>6, <1>7, <1>10
  <2>2. i <= n
    BY <1>7, <1>8, <1>9, <2>1
  <2>3. i \in 1 .. Len(vs)
    BY <1>7, <2>2
  <2>4. k <= Len(s) /\ Base(d, i) + j = k
    BY <1>6, <1>7, <1>10
  <2> QED
    BY <1>2, <1>5, <1>7, <1>9, <2>3, <2>4, RefersIf
<1>11. ASSUME k < Len(s) PROVE ~AtThrows(vs, d, k)
  <2>1. i \in 1 .. n /\ Refers(vs, d, At(d, k), k)
    BY <1>10, <1>11
  <2>2. PICK I, J : Referring(vs, d, s, At(d, k), I, J, k)
    BY <1>2, <2>1, Reference
  <2>3. I = i /\ J = j /\ Chunks(vs, d, s) /\ Spot(vs, d, I, J, k)
    BY <1>5, <2>2 DEF Referring
  <2>4. J < Len(vs[I])
    BY <1>11, <2>3, SpotIn
  <2>5. j < Len(vs[i]) /\ Len(vs[i]) \in Nat /\ ~(i > Len(vs))
    <3>1. Len(vs[i]) \in Nat
      BY <1>2, <1>7, <2>1, FilledFacts DEF Chunks
    <3> QED
      BY <1>7, <2>1, <2>3, <2>4, <3>1
  <2> QED
    BY <1>5, <1>9, <2>5 DEF AtThrows
<1>12. ASSUME k >= Len(s) PROVE AtThrows(vs, d, k)
  <2>1. b + j >= e + l
    BY <1>6, <1>7, <1>12
  <2>2. i = n \/ n < i
    BY <1>7, <1>8, <1>9, <2>1
  <2>3. i = n => j >= l
    BY <1>8, <1>9, <2>1
  <2> QED
    BY <1>5, <1>7, <2>2, <2>3 DEF AtThrows
<1>13. Len(s) \in Nat
  BY <1>7
<1> QED
  BY <1>10, <1>11, <1>12, <1>13

(* The beginning, the end and the size.                                    *)
LEMMA EndsRefer ==
  ASSUME NEW vs, NEW d \in Nat \ {0}, NEW s, Chunks(vs, d, s)
  PROVE  Refers(vs, d, Begin, 0) /\ Refers(vs, d, End(vs), Len(s)) /\ SizeOf(vs, d) = Len(s)
<1>2. d \in Nat \ {0} /\ Chunks(vs, d, s)
  OBVIOUS
<1>3. PICK n \in 1 .. Len(vs), l \in Nat :
        /\ n = Len(vs) /\ l = Len(vs[n]) /\ Len(s) = Base(d, n) + l /\ Last(vs) = vs[n]
        /\ Len(s) \in Nat /\ 1 \in 1 .. Len(vs)
  <2>1. /\ Len(vs) \in Nat \ {0} /\ Len(vs) \in 1 .. Len(vs) /\ Last(vs) = vs[Len(vs)]
        /\ Len(s) = Base(d, Len(vs)) + Len(vs[Len(vs)])
        /\ Len(vs[Len(vs)]) \in Nat /\ Len(s) \in Nat
    BY <1>2, FilledFacts DEF Chunks
  <2>2. 1 \in 1 .. Len(vs)
    BY <2>1
  <2> QED
    BY <2>1, <2>2
<1>4. Refers(vs, d, Begin, 0)
  <2>1. Base(d, 1) + 0 = 0 /\ 0 \in Nat /\ 0 <= Len(s) /\ 0 < d
    <3>1. Base(d, 1) = 0
      BY <1>2 DEF Base
    <3> QED
      BY <1>2, <1>3, <3>1
  <2> QED
    BY <1>2, <1>3, <2>1, RefersIf DEF Begin
<1>5. Refers(vs, d, End(vs), Len(s))
  <2>1. End(vs) = [vec |-> n, deq |-> l]
    BY <1>3 DEF End
  <2>2. ~(n < Len(vs)) /\ Len(s) <= Len(s)
    BY <1>3
  <2> QED
    BY <1>2, <1>3, <2>1, <2>2, RefersIf
<1>6. SizeOf(vs, d) = Len(s)
  <2>1. vs # <<>>
    BY <1>3
  <2> QED
    BY <1>3, <2>1 DEF SizeOf, Base
<1> QED
  BY <1>4, <1>5, <1>6

(* All that IteratorsAgree says follows from where an iterator refers.     *)
LEMMA IteratorsHold ==
  ASSUME deqSize \in Nat \ {0}, Chunks(v, deqSize, Contents)
  PROVE  IteratorsAgree
<1>1. PICK vs, d, s : /\ vs = v /\ d = deqSize /\ s = Contents
                      /\ d \in Nat \ {0} /\ Chunks(vs, d, s)
  OBVIOUS
<1>2. PICK n \in Nat : n = Len(s)
  BY <1>1, FilledFacts DEF Chunks
<1>3. SizeOf(vs, d) = n /\ Refers(vs, d, Begin, 0) /\ Refers(vs, d, End(vs), n)
  BY <1>1, <1>2, EndsRefer
<1>4. ASSUME NEW k \in 0 .. n PROVE Refers(vs, d, Plus(vs, d, Begin, k), k)
  <2>1. k \in Nat /\ 0 + k <= Len(s) /\ 0 + k = k /\ 0 \in Nat
    BY <1>2
  <2> QED
    BY <1>1, <1>3, <2>1, PlusRefers
<1>5. Plus(vs, d, Begin, n) = End(vs)
  <2>1. n \in 0 .. n
    OBVIOUS
  <2> QED
    BY <1>1, <1>3, <1>4, <2>1, RefersOnce
<1>6. ASSUME NEW k \in 0 .. n + d PROVE AtThrows(vs, d, k) <=> k >= n
  <2>1. k \in Nat
    OBVIOUS
  <2> QED
    BY <1>1, <1>2, <2>1, AtRefers
<1>7. ASSUME NEW k \in 0 .. n - 1
      PROVE  /\ Deref(vs, At(d, k)) = s[k + 1] /\ Deref(vs, Plus(vs, d, Begin, k)) = s[k + 1]
             /\ Incremented(vs, Plus(vs, d, Begin, k)) = Plus(vs, d, Begin, k + 1)
             /\ Decremented(vs, Plus(vs, d, Begin, k + 1)) = Plus(vs, d, Begin, k)
  <2>1. k \in Nat /\ k < Len(s) /\ k \in 0 .. n /\ k + 1 \in 0 .. n /\ k + 1 \in Nat
    BY <1>2
  <2>2. Refers(vs, d, At(d, k), k) /\ Refers(vs, d, Plus(vs, d, Begin, k), k) /\ Refers(vs, d, Plus(vs, d, Begin, k + 1), k + 1)
    BY <1>1, <1>4, <2>1, AtRefers
  <2>3. Deref(vs, At(d, k)) = s[k + 1] /\ Deref(vs, Plus(vs, d, Begin, k)) = s[k + 1]
    BY <1>1, <2>1, <2>2, DerefRefers
  <2>4. Refers(vs, d, Incremented(vs, Plus(vs, d, Begin, k)), k + 1)
    BY <1>1, <2>1, <2>2, IncrementedRefers
  <2>5. Refers(vs, d, Decremented(vs, Plus(vs, d, Begin, k + 1)), k)
    <3>1. PICK K \in Nat : K = k + 1 /\ K - 1 = k /\ K <= Len(s) /\ K > 0
      BY <1>2, <2>1
    <3>2. Refers(vs, d, Plus(vs, d, Begin, K), K)
      BY <2>2, <3>1
    <3>3. Refers(vs, d, Decremented(vs, Plus(vs, d, Begin, K)), K - 1)
      BY <1>1, <3>1, <3>2, DecrementedRefers
    <3> QED
      BY <3>1, <3>3
  <2> QED
    BY <1>1, <2>1, <2>2, <2>3, <2>4, <2>5, RefersOnce
<1>8. ASSUME NEW j \in 0 .. n, NEW k \in 0 .. n
      PROVE  /\ ItLower(Plus(vs, d, Begin, j), Plus(vs, d, Begin, k)) <=> j < k
             /\ j <= k => /\ Distance(vs, d, Plus(vs, d, Begin, j), Plus(vs, d, Begin, k)) = k - j
                          /\ Plus(vs, d, Plus(vs, d, Begin, j), k - j) = Plus(vs, d, Begin, k)
                          /\ Minus(vs, d, Plus(vs, d, Begin, k), k - j) = Plus(vs, d, Begin, j)
  <2>1. j \in Nat /\ k \in Nat /\ j <= Len(s) /\ k <= Len(s)
    BY <1>2
  <2>2. Refers(vs, d, Plus(vs, d, Begin, j), j) /\ Refers(vs, d, Plus(vs, d, Begin, k), k)
    BY <1>4
  <2>3. ItLower(Plus(vs, d, Begin, j), Plus(vs, d, Begin, k)) <=> j < k
    BY <1>1, <2>1, <2>2, LowerRefers
  <2>4. ASSUME j <= k
        PROVE  /\ Distance(vs, d, Plus(vs, d, Begin, j), Plus(vs, d, Begin, k)) = k - j
               /\ Plus(vs, d, Plus(vs, d, Begin, j), k - j) = Plus(vs, d, Begin, k)
               /\ Minus(vs, d, Plus(vs, d, Begin, k), k - j) = Plus(vs, d, Begin, j)
    <3>1. Distance(vs, d, Plus(vs, d, Begin, j), Plus(vs, d, Begin, k)) = k - j
      BY <1>1, <2>1, <2>2, <2>4, DistanceRefers
    <3>2. PICK a \in Nat : a = k - j /\ a <= k /\ j + a = k /\ k - a = j
      <4>1. k - j \in Nat /\ k - j <= k /\ j + (k - j) = k /\ k - (k - j) = j
        BY <2>1, <2>4
      <4> QED
        BY <4>1
    <3>3. Refers(vs, d, Plus(vs, d, Plus(vs, d, Begin, j), a), j + a)
      BY <1>1, <2>1, <2>2, <3>2, PlusRefers
    <3>4. Refers(vs, d, Minus(vs, d, Plus(vs, d, Begin, k), a), k - a)
      BY <1>1, <2>1, <2>2, <3>2, MinusRefers
    <3>5. Plus(vs, d, Plus(vs, d, Begin, j), a) = Plus(vs, d, Begin, k)
      BY <1>1, <2>1, <2>2, <3>2, <3>3, RefersOnce
    <3>6. Minus(vs, d, Plus(vs, d, Begin, k), a) = Plus(vs, d, Begin, j)
      BY <1>1, <2>1, <2>2, <3>2, <3>4, RefersOnce
    <3> QED
      BY <3>1, <3>2, <3>5, <3>6
  <2> QED
    BY <2>3, <2>4
<1> QED
  BY <1>1, <1>2, <1>3, <1>5, <1>6, <1>7, <1>8 DEF IteratorsAgree, Size, It

-----------------------------------------------------------------------------
(* The sizes that _reserve chooses.                                        *)
LEMMA Ceiling ==
  ASSUME NEW n \in Nat, NEW d \in Nat \ {0}
  PROVE  /\ Ceil(n, d) \in Nat
         /\ n <= Ceil(n, d) * d /\ Ceil(n, d) * d < n + d
<1>1. PICK r \in Nat : r = n + d - 1
  <2>1. n + d - 1 \in Nat
    OBVIOUS
  <2> QED
    BY <2>1
<1>2. r \div d \in Nat /\ (r \div d) * d <= r /\ r < (r \div d) * d + d
  BY Divided
<1>3. PICK p \in Nat : p = (r \div d) * d /\ p <= r /\ r < p + d
  <2>1. (r \div d) * d \in Nat
    BY <1>2
  <2> QED
    BY <1>2, <2>1
<1>4. n <= p /\ p < n + d
  BY <1>1, <1>3
<1> QED
  BY <1>1, <1>2, <1>3, <1>4 DEF Ceil

LEMMA SizesChosen ==
  ASSUME NEW n \in Nat
  PROVE  DeqSizeFor(n) \in Nat \ {0} /\ CapacityFor(n) \in Nat \ {0}
<1> DEFINE S == {r \in Nat : (r + 1) * (r + 1) > n}
           Root(r) == r * r <= n /\ (r + 1) * (r + 1) > n
           root == CHOOSE r \in 0 .. n : Root(r)
<1>1. \E r \in 0 .. n : Root(r)
  <2>1. n \in S
    OBVIOUS
  <2>2. PICK r \in S : \A y \in S : r <= y
    <3>1. S \in SUBSET Nat /\ S # {}
      BY <2>1
    <3> HIDE DEF S
    <3> QED
      BY <3>1, NatLeast
  <2>3. r <= n /\ r \in Nat /\ (r + 1) * (r + 1) > n
    BY <2>1, <2>2
  <2>4. r * r <= n
    <3>1. CASE r = 0
      BY <3>1
    <3>2. CASE r # 0
      <4>1. r - 1 \in Nat /\ ~(r <= r - 1) /\ (r - 1) + 1 = r
        BY <2>3, <3>2
      <4>2. r - 1 \notin S
        BY <2>2, <4>1
      <4>3. ~(((r - 1) + 1) * ((r - 1) + 1) > n)
        BY <4>1, <4>2
      <4>4. ~(r * r > n)
        BY <4>1, <4>3
      <4>5. r * r \in Nat
        BY <2>3
      <4> QED
        BY <4>4, <4>5
    <3> QED
      BY <3>1, <3>2
  <2> QED
    BY <2>3, <2>4
<1>2. root \in 0 .. n
  <2> HIDE DEF Root
  <2> QED
    BY <1>1
<1>3. DeqSizeFor(n) = AtLeast1(root)
  BY DEF DeqSizeFor
<1> HIDE DEF root
<1>4. DeqSizeFor(n) \in Nat \ {0}
  BY <1>2, <1>3 DEF AtLeast1
<1>5. PICK d \in Nat \ {0} : d = DeqSizeFor(n)
  BY <1>4
<1>6. PICK c \in Nat \ {0} : CapacityFor(n) = c * d
  <2>1. CapacityFor(n) = AtLeast1(Ceil(n, d)) * d
    BY <1>5 DEF CapacityFor
  <2>2. Ceil(n, d) \in Nat
    BY Ceiling
  <2>3. AtLeast1(Ceil(n, d)) \in Nat \ {0}
    BY <2>2 DEF AtLeast1
  <2> QED
    BY <2>1, <2>3
<1>7. c * d \in Nat \ {0}
  OBVIOUS
<1> QED
  BY <1>4, <1>6, <1>7

-----------------------------------------------------------------------------
(* Each operation makes the deques those of the right sequence.            *)
LEMMA NoneFilled ==
  ASSUME NEW d \in Nat \ {0}
  PROVE  Chunks(<<<<>>>>, d, <<>>)
<1>1. PICK none \in Seq(Value) : none = <<>>
  <2>1. <<>> \in Seq(Value)
    OBVIOUS
  <2> QED
    BY <2>1
<1>2. PICK vs \in Seq(Seq(Value)) : vs = <<none>>
  <2>1. <<none>> \in Seq(Seq(Value))
    OBVIOUS
  <2> QED
    BY <2>1
<1>3. Len(none) = 0 /\ Len(vs) = 1 /\ vs[1] = none
  BY <1>1, <1>2
<1>4. Base(d, 1) = 0
  BY DEF Base
<1>5. Filled(vs, d, none)
  BY <1>3, <1>4 DEF Filled
<1> QED
  BY <1>1, <1>2, <1>3, <1>5 DEF Chunks

(* reserve, copy and the constructors: a new array, filled.                *)
LEMMA BuiltChunks ==
  ASSUME NEW n \in Nat, NEW xs \in Seq(Value)
  PROVE  /\ Chunks(Built(n, xs).v, Built(n, xs).deqSize, xs)
         /\ Built(n, xs).deqSize \in Nat \ {0} /\ Built(n, xs).capacity \in Nat \ {0}
<1>1. PICK d \in Nat \ {0} : d = DeqSizeFor(n)
  BY SizesChosen
<1>2. Chunks(PushedAll(<<<<>>>>, d, xs), d, <<>> \o xs)
  BY NoneFilled, PushedAllChunks
<1>3. <<>> \o xs = xs
  OBVIOUS
<1>4. Chunks(PushedAll(<<<<>>>>, d, xs), d, xs)
  BY <1>2, <1>3
<1>5. CapacityFor(n) \in Nat \ {0}
  BY SizesChosen
<1> QED
  BY <1>1, <1>4, <1>5 DEF Built

(* pop_back, which drops a deque that it empties.                          *)
LEMMA PoppedChunks ==
  ASSUME NEW vs, NEW d \in Nat \ {0}, NEW s, Chunks(vs, d, s), Len(s) > 0
  PROVE  Chunks(Popped(vs, d), d, Front(s))
<1>2. d \in Nat \ {0} /\ Chunks(vs, d, s)
  OBVIOUS
<1>3. /\ vs \in Seq(Seq(Value)) /\ s \in Seq(Value) /\ Len(vs) \in Nat \ {0} /\ Len(vs) \in 1 .. Len(vs)
      /\ Len(s) = Base(d, Len(vs)) + Len(vs[Len(vs)]) /\ Last(vs) = vs[Len(vs)]
      /\ \A i \in 1 .. Len(vs) :
           /\ vs[i] \in Seq(Value) /\ Len(vs[i]) \in Nat
           /\ Len(vs[i]) <= d
           /\ i < Len(vs) => Len(vs[i]) = d
           /\ \A j \in 1 .. Len(vs[i]) : vs[i][j] = s[Base(d, i) + j] /\ Base(d, i) + j \in 1 .. Len(s)
  BY <1>2, FilledFacts, SMTT(30) DEF Chunks
<1>4. PICK n \in Nat \ {0}, l \in Seq(Value), b \in Nat, m \in Nat :
        n = Len(vs) /\ l = vs[n] /\ b = Base(d, n) /\ m = Len(l) /\ Last(vs) = l
  <2>1. Base(d, Len(vs)) \in Nat
    BY <1>2, <1>3, Bases
  <2> QED
    BY <1>3, <2>1
<1>5. m > 0 /\ m <= d /\ Len(s) = b + m
  <2>1. n = 1 => b = 0
    BY <1>2, <1>4 DEF Base
  <2>2. n > 1 => m > 0
    BY <1>2, <1>4 DEF Chunks
  <2>3. Len(s) = b + m /\ m <= d
    BY <1>3, <1>4
  <2> QED
    BY <2>1, <2>2, <2>3
<1>6. /\ Front(l) \in Seq(Value) /\ Len(Front(l)) = m - 1
      /\ \A j \in 1 .. m - 1 : Front(l)[j] = l[j]
  BY <1>4, <1>5, Fronts
<1>7. Do(d, l, <<<<"pop_back">>>>) = Front(l)
  <2>1. l # <<>>
    BY <1>4, <1>5
  <2>2. Throws(d, l, <<"pop_back">>) = FALSE /\ Result(l, <<"pop_back">>) = Front(l)
    BY <2>1 DEF Throws, Result
  <2>3. Run(d, l, <<<<"pop_back">>>>, Front(l))
    BY <1>6, <2>2, RunOne
  <2>4. Len(<<<<"pop_back">>>>) \in Nat
    OBVIOUS
  <2> QED
    BY <2>3, <2>4, RunDoes
<1>8. PICK q \in Seq(Value) : q = Front(l)
  BY <1>6
<1>9. PICK w : w = WithLast(vs, q) /\ Popped(vs, d) = Trimmed(w)
  BY <1>4, <1>7, <1>8 DEF Popped
<1>10. w \in Seq(Seq(Value)) /\ Len(w) = n /\ w[n] = q /\ \A i \in 1 .. n - 1 : w[i] = vs[i]
  <2>1. Len(vs) > 0
    BY <1>3
  <2>2. /\ WithLast(vs, q) \in Seq(Seq(Value)) /\ Len(WithLast(vs, q)) = Len(vs)
        /\ WithLast(vs, q)[Len(vs)] = q
        /\ \A i \in 1 .. Len(vs) - 1 : WithLast(vs, q)[i] = vs[i]
    BY <1>3, <2>1, DequeReplaced
  <2> QED
    BY <1>4, <1>9, <2>2
<1>11. PICK t \in Seq(Value) :
         t = Front(s) /\ Len(t) = Len(s) - 1 /\ \A j \in 1 .. Len(s) - 1 : t[j] = s[j]
  <2>1. /\ Front(s) \in Seq(Value) /\ Len(Front(s)) = Len(s) - 1
        /\ \A j \in 1 .. Len(s) - 1 : Front(s)[j] = s[j]
    BY <1>3, Fronts
  <2> QED
    BY <2>1
<1>12. Len(t) = Base(d, n) + Len(w[n]) /\ Len(w[n]) <= d
  <2>1. Len(t) = (b + m) - 1 /\ Len(w[n]) = m - 1
    BY <1>5, <1>6, <1>8, <1>10, <1>11
  <2>2. m - 1 <= d /\ (b + m) - 1 = b + (m - 1)
    BY <1>2, <1>5
  <2> QED
    BY <1>4, <2>1, <2>2
<1>13. ASSUME NEW i \in 1 .. n - 1 PROVE w[i] = vs[i] /\ Len(w[i]) = d /\ i \in 1 .. Len(vs) /\ i < Len(vs)
  <2>1. i \in 1 .. Len(vs) /\ i < Len(vs)
    BY <1>4
  <2>2. Len(vs[i]) = d
    BY <1>2, <2>1, FullDeque
  <2> QED
    BY <1>10, <2>1, <2>2
<1>14. ASSUME NEW i \in 1 .. n, NEW j \in 1 .. Len(w[i]) PROVE w[i][j] = t[Base(d, i) + j]
  <2>1. CASE i \in 1 .. n - 1
    <3>1. w[i] = vs[i] /\ i \in 1 .. Len(vs) /\ i < n /\ Len(vs[i]) = d
      BY <1>4, <1>13, <2>1
    <3>2. PICK p \in Nat : p = Base(d, i) /\ p + d <= b
      <4>1. i \in Nat \ {0} /\ i < n
        BY <3>1
      <4>2. Base(d, i) \in Nat /\ Base(d, i) + d <= Base(d, n)
        BY <1>2, <4>1, Bases
      <4> QED
        BY <1>4, <4>2
    <3>3. vs[i][j] = s[p + j]
      BY <1>3, <3>1, <3>2
    <3>4. p + j \in 1 .. Len(s) - 1
      <4>1. j \in 1 .. d
        BY <3>1
      <4> QED
        BY <1>2, <1>5, <3>2, <4>1, SMTT(30)
    <3> QED
      BY <1>11, <3>1, <3>2, <3>3, <3>4
  <2>2. CASE i = n
    <3>1. j \in 1 .. m - 1 /\ w[i][j] = l[j]
      BY <1>6, <1>8, <1>10, <2>2
    <3>2. j \in 1 .. m /\ b + j \in 1 .. Len(s) - 1
      BY <1>5, <3>1
    <3>3. l[j] = s[b + j]
      BY <1>3, <1>4, <3>2
    <3> QED
      BY <1>4, <1>11, <2>2, <3>1, <3>2, <3>3
  <2> QED
    BY <1>4, <2>1, <2>2
<1>15. Filled(w, d, t)
  BY <1>2, <1>10, <1>12, <1>13, <1>14, FillFacts
<1>16. Chunks(Trimmed(w), d, t)
  BY <1>2, <1>15, TrimmedChunks
<1> QED
  BY <1>9, <1>11, <1>16

(* Deques do not overlap.                                                  *)
LEMMA Apart ==
  ASSUME NEW d \in Nat \ {0}, NEW i \in Nat \ {0}, NEW j \in 1 .. d, NEW I \in Nat \ {0}, NEW J \in 1 .. d
  PROVE  /\ Base(d, i) \in Nat /\ Base(d, I) \in Nat
         /\ i < I => Base(d, i) + j < Base(d, I) + J
         /\ Base(d, i) + j = Base(d, I) + J => i = I /\ j = J
<1>1. PICK b \in Nat, B \in Nat : b = Base(d, i) /\ B = Base(d, I)
  <2>1. Base(d, i) \in Nat /\ Base(d, I) \in Nat
    BY Bases
  <2> QED
    BY <2>1
<1>2. i < I => b + d <= B
  BY <1>1, Bases
<1>3. I < i => B + d <= b
  BY <1>1, Bases
<1>4. i = I => b = B
  BY <1>1
<1>5. i < I => b + j < B + J
  BY <1>2
<1>6. b + j = B + J => i = I /\ j = J
  BY <1>2, <1>3, <1>4
<1> QED
  BY <1>1, <1>5, <1>6

(* What operator[] refers to, assigned to.                                 *)
LEMMA WrittenChunks ==
  ASSUME NEW vs, NEW d \in Nat \ {0}, NEW s, Chunks(vs, d, s), NEW k \in Nat, k < Len(s), NEW x \in Value
  PROVE  Chunks(Written(vs, d, k, x), d, [s EXCEPT ![k + 1] = x])
<1>1. Refers(vs, d, At(d, k), k)
  BY AtRefers
<1>2. PICK i, j : Referring(vs, d, s, At(d, k), i, j, k)
  BY <1>1, Reference
<1>3. /\ d \in Nat \ {0} /\ Chunks(vs, d, s) /\ Spot(vs, d, i, j, k)
      /\ At(d, k).vec = i /\ At(d, k).deq = j
  BY <1>2 DEF Referring
<1>4. j < Len(vs[i]) /\ i \in 1 .. Len(vs) /\ j \in 0 .. Len(vs[i]) /\ Base(d, i) + j = k
  BY <1>3, SpotIn DEF Spot
<1>5. /\ vs \in Seq(Seq(Value)) /\ s \in Seq(Value) /\ Len(s) \in Nat /\ Len(vs) \in Nat \ {0}
      /\ Len(s) = Base(d, Len(vs)) + Len(vs[Len(vs)]) /\ Len(vs) \in 1 .. Len(vs)
      /\ \A I \in 1 .. Len(vs) :
           /\ vs[I] \in Seq(Value) /\ Len(vs[I]) \in Nat /\ I \in Nat \ {0}
           /\ Len(vs[I]) <= d
           /\ I < Len(vs) => Len(vs[I]) = d
           /\ \A J \in 1 .. Len(vs[I]) : vs[I][J] = s[Base(d, I) + J] /\ Base(d, I) + J \in 1 .. Len(s)
  BY <1>3, FilledFacts DEF Chunks
<1>6. PICK l \in Seq(Value) : l = vs[i] /\ Len(l) \in Nat /\ j < Len(l) /\ j \in Nat /\ Len(l) <= d
  BY <1>4, <1>5
<1>7. PICK q \in Seq(Value) :
        /\ q = [l EXCEPT ![j + 1] = x] /\ Len(q) = Len(l) /\ q[j + 1] = x
        /\ \A J \in 1 .. Len(l) : J # j + 1 => q[J] = l[J]
  <2>1. j + 1 \in 1 .. Len(l)
    BY <1>6
  <2>2. /\ [l EXCEPT ![j + 1] = x] \in Seq(Value) /\ Len([l EXCEPT ![j + 1] = x]) = Len(l)
        /\ [l EXCEPT ![j + 1] = x][j + 1] = x
        /\ \A J \in 1 .. Len(l) : J # j + 1 => [l EXCEPT ![j + 1] = x][J] = l[J]
    BY <2>1, OneSet
  <2> QED
    BY <2>2
<1>8. Do(d, l, <<<<"set", j, x>>>>) = q
  <2>1. Throws(d, l, <<"set", j, x>>) = FALSE /\ Result(l, <<"set", j, x>>) = q
    <3>1. ~(j >= Len(l))
      BY <1>6
    <3> QED
      BY <1>7, <3>1 DEF Throws, Result
  <2>2. Run(d, l, <<<<"set", j, x>>>>, q)
    BY <2>1, RunOne
  <2>3. Len(<<<<"set", j, x>>>>) \in Nat
    OBVIOUS
  <2> QED
    BY <2>2, <2>3, RunDoes
<1>9. PICK w : w = [vs EXCEPT ![i] = q] /\ w = Written(vs, d, k, x)
  BY <1>3, <1>6, <1>8 DEF Written
<1>10. /\ w \in Seq(Seq(Value)) /\ Len(w) = Len(vs) /\ w[i] = q
       /\ \A I \in 1 .. Len(vs) : I # i => w[I] = vs[I]
  BY <1>4, <1>5, <1>9
<1>11. \A I \in 1 .. Len(vs) : Len(w[I]) = Len(vs[I])
  <2> TAKE I \in 1 .. Len(vs)
  <2>1. I = i => Len(w[I]) = Len(vs[I])
    BY <1>6, <1>7, <1>10
  <2>2. I # i => w[I] = vs[I]
    BY <1>10
  <2> QED
    BY <2>1, <2>2
<1>12. PICK t \in Seq(Value) :
         /\ t = [s EXCEPT ![k + 1] = x] /\ Len(t) = Len(s) /\ t[k + 1] = x
         /\ \A p \in 1 .. Len(s) : p # k + 1 => t[p] = s[p]
  <2>1. k + 1 \in 1 .. Len(s)
    BY <1>5
  <2>2. /\ [s EXCEPT ![k + 1] = x] \in Seq(Value) /\ Len([s EXCEPT ![k + 1] = x]) = Len(s)
        /\ [s EXCEPT ![k + 1] = x][k + 1] = x
        /\ \A p \in 1 .. Len(s) : p # k + 1 => [s EXCEPT ![k + 1] = x][p] = s[p]
    BY <1>5, <2>1, OneSet
  <2> QED
    BY <2>2
<1>13. ASSUME NEW I \in 1 .. Len(vs), NEW J \in 1 .. Len(w[I]) PROVE w[I][J] = t[Base(d, I) + J]
  <2>1. /\ J \in 1 .. Len(vs[I]) /\ Len(vs[I]) \in Nat /\ Len(vs[I]) <= d /\ I \in Nat \ {0}
        /\ vs[I][J] = s[Base(d, I) + J] /\ Base(d, I) + J \in 1 .. Len(s)
    BY <1>5, <1>11
  <2>2. CASE I = i /\ J = j + 1
    <3>1. Base(d, I) + J = k + 1
      <4>1. i \in Nat \ {0} /\ d \in Nat \ {0}
        BY <1>3, <1>4
      <4>2. PICK b \in Nat : b = Base(d, i) /\ b + j = k
        BY <1>4, <4>1, Bases
      <4>3. Base(d, I) + J = b + (j + 1)
        BY <2>2, <4>2
      <4>4. j \in Nat /\ b + j = k
        BY <1>6, <4>2
      <4>5. b + (j + 1) = k + 1
        BY <4>4
      <4> QED
        BY <4>3, <4>5
    <3> QED
      BY <1>7, <1>10, <1>12, <2>2, <3>1
  <2>3. CASE ~(I = i /\ J = j + 1)
    <3>1. w[I][J] = vs[I][J]
      BY <1>6, <1>7, <1>10, <2>1, <2>3
    <3>2. Base(d, I) + J # k + 1
      <4>1. i \in Nat \ {0} /\ j + 1 \in 1 .. d /\ J \in 1 .. d /\ d \in Nat \ {0}
        BY <1>3, <1>4, <1>6, <2>1, SMTT(30)
      <4>2. Base(d, I) + J = Base(d, i) + (j + 1) => I = i /\ J = j + 1
        BY <2>1, <4>1, Apart
      <4>3. PICK b \in Nat : b = Base(d, i) /\ b + j = k
        BY <1>4, <4>1, Bases
      <4>4. j \in Nat /\ b + j = k
        BY <1>6, <4>3
      <4>5. b + (j + 1) = k + 1
        BY <4>4
      <4> QED
        BY <2>3, <4>2, <4>3, <4>5
    <3> QED
      BY <1>12, <2>1, <3>1, <3>2
  <2> QED
    BY <2>2, <2>3
<1>14. PICK n \in Nat \ {0} : n = Len(vs) /\ n \in 1 .. n
  BY <1>5
<1>15. ASSUME NEW I \in 1 .. n - 1 PROVE Len(w[I]) = d
  <2>1. I \in 1 .. Len(vs) /\ I < Len(vs)
    BY <1>14
  <2> QED
    BY <1>5, <1>11, <2>1
<1>16. Len(t) = Base(d, n) + Len(w[n]) /\ Len(w[n]) <= d
  BY <1>5, <1>11, <1>12, <1>14
<1>17. Filled(w, d, t)
  BY <1>3, <1>10, <1>13, <1>14, <1>15, <1>16, FillFacts
<1>18. Len(w) > 1 => w[Len(w)] # <<>>
  <2>1. n > 1 => vs[n] # <<>>
    BY <1>3, <1>14 DEF Chunks
  <2>2. vs[n] # <<>> => Len(vs[n]) # 0
    BY <1>5, <1>14
  <2>3. w[n] = <<>> => Len(w[n]) = 0
    OBVIOUS
  <2> QED
    BY <1>10, <1>11, <1>14, <2>1, <2>2, <2>3
<1> QED
  BY <1>3, <1>9, <1>12, <1>17, <1>18 DEF Chunks

(* A resize to fewer elements keeps the first deques, the last of them     *)
(* resized.                                                                *)
LEMMA DecreasedChunks ==
  ASSUME NEW vs, NEW d \in Nat \ {0}, NEW s, Chunks(vs, d, s), NEW n \in Nat, n < Len(s)
  PROVE  Chunks(Decreased(vs, d, n), d, SubSeq(s, 1, n))
<1>2. d \in Nat \ {0} /\ Chunks(vs, d, s)
  OBVIOUS
<1>3. /\ vs \in Seq(Seq(Value)) /\ s \in Seq(Value) /\ Len(vs) \in Nat \ {0} /\ Len(vs) \in 1 .. Len(vs)
      /\ Len(s) \in Nat
      /\ Len(s) = Base(d, Len(vs)) + Len(vs[Len(vs)])
      /\ \A i \in 1 .. Len(vs) :
           /\ vs[i] \in Seq(Value) /\ Len(vs[i]) \in Nat
           /\ Len(vs[i]) <= d
           /\ i < Len(vs) => Len(vs[i]) = d
           /\ \A j \in 1 .. Len(vs[i]) : vs[i][j] = s[Base(d, i) + j] /\ Base(d, i) + j \in 1 .. Len(s)
  BY <1>2, FilledFacts, SMTT(30) DEF Chunks
<1>4. PICK N \in Nat \ {0}, m \in Nat \ {0} : N = Len(vs) /\ m = AtLeast1(Ceil(n, d))
  <2>1. Ceil(n, d) \in Nat
    BY <1>2, Ceiling
  <2> QED
    BY <1>3, <2>1 DEF AtLeast1
<1>5. PICK b \in Nat : b = Base(d, m) /\ b <= n /\ n <= b + d /\ (m > 1 => b < n)
  <2>1. PICK c \in Nat : c = Ceil(n, d)
    BY <1>2, Ceiling
  <2>2. n <= c * d /\ c * d < n + d
    BY <1>2, <2>1, Ceiling
  <2>3. CASE c = 0
    <3>1. m = 1 /\ n = 0 /\ Base(d, 1) = 0
      <4>1. c * d = 0
        BY <1>2, <2>3
      <4> QED
        BY <1>4, <2>1, <2>2, <2>3, <4>1 DEF AtLeast1, Base
    <3> QED
      BY <1>2, <3>1
  <2>4. CASE c # 0
    <3>1. m = c
      BY <1>4, <2>1, <2>4 DEF AtLeast1
    <3>2. Base(d, m) \in Nat /\ c * d = Base(d, m) + d
      <4>1. (c - 1) * d \in Nat /\ c * d = (c - 1) * d + d
        BY <1>2, <2>4
      <4> QED
        BY <3>1, <4>1 DEF Base
    <3>3. PICK b \in Nat : b = Base(d, m) /\ c * d = b + d
      BY <3>2
    <3>4. n <= b + d /\ b + d < n + d
      BY <2>2, <3>3
    <3>5. b < n
      BY <1>2, <3>4
    <3> QED
      BY <3>3, <3>4, <3>5
  <2> QED
    BY <2>3, <2>4
<1>6. PICK l \in Nat, e \in Nat : l = Len(vs[N]) /\ e = Base(d, N) /\ Len(s) = e + l /\ l <= d
  <2>1. Base(d, N) \in Nat
    BY <1>2, Bases
  <2> QED
    BY <1>3, <1>4, <2>1
<1>7. m <= N
  <2>1. N < m => e + d <= b
    BY <1>2, <1>5, <1>6, Bases
  <2> QED
    BY <1>2, <1>5, <1>6, <2>1, SMTT(30)
<1>8. m \in 1 .. Len(vs)
  BY <1>4, <1>7
<1>9. PICK q \in Seq(Value), r \in Nat, a \in Nat : q = vs[m] /\ r = n - b /\ a = Len(q) /\ r <= a /\ a <= d /\ r <= d
  <2>1. PICK q \in Seq(Value) : q = vs[m] /\ Len(q) <= d /\ Len(q) \in Nat
    BY <1>3, <1>8
  <2>2. n - b \in Nat /\ n - b <= d
    BY <1>2, <1>5
  <2>3. n - b <= Len(q)
    <3>1. CASE m < N
      <4>1. Len(q) = d
        BY <1>3, <1>4, <1>8, <2>1, <3>1
      <4> QED
        BY <2>2, <4>1
    <3>2. CASE m = N
      <4>1. Len(q) = l /\ e = b
        BY <1>5, <1>6, <2>1, <3>2
      <4> QED
        BY <1>5, <1>6, <4>1
    <3> QED
      BY <1>7, <3>1, <3>2
  <2> QED
    BY <2>1, <2>2, <2>3
<1>10. PICK p \in Seq(Value) : p = SubSeq(q, 1, r) /\ Len(p) = r /\ \A j \in 1 .. r : p[j] = q[j]
  <2>1. r \in 0 .. Len(q)
    BY <1>9
  <2>2. /\ SubSeq(q, 1, r) \in Seq(Value) /\ Len(SubSeq(q, 1, r)) = r
        /\ \A i \in 1 .. r : SubSeq(q, 1, r)[i] = q[i]
    BY <2>1, Shortened
  <2> QED
    BY <2>2
<1>11. Do(d, q, <<<<"resize", r, Default>>>>) = p
  <2>1. Throws(d, q, <<"resize", r, Default>>) = FALSE
    <3>1. ~(r > d)
      BY <1>2, <1>9
    <3> QED
      BY <3>1 DEF Throws
  <2>2. Result(q, <<"resize", r, Default>>) = p
    BY <1>9, <1>10 DEF Result, Resized
  <2>3. Run(d, q, <<<<"resize", r, Default>>>>, p)
    BY <2>1, <2>2, RunOne
  <2>4. Len(<<<<"resize", r, Default>>>>) \in Nat
    OBVIOUS
  <2> QED
    BY <2>3, <2>4, RunDoes
<1>12. PICK f \in Seq(Seq(Value)) : f = SubSeq(vs, 1, m) /\ Len(f) = m /\ \A i \in 1 .. m : f[i] = vs[i]
  <2>1. m \in 0 .. Len(vs) /\ vs \in Seq(Seq(Value))
    BY <1>3, <1>8
  <2>2. /\ SubSeq(vs, 1, m) \in Seq(Seq(Value)) /\ Len(SubSeq(vs, 1, m)) = m
        /\ \A i \in 1 .. m : SubSeq(vs, 1, m)[i] = vs[i]
    BY <2>1, Shortened
  <2> QED
    BY <2>2
<1>13. PICK w \in Seq(Seq(Value)) :
         /\ w = WithLast(f, p) /\ Len(w) = m /\ w[m] = p
         /\ \A i \in 1 .. m - 1 : w[i] = vs[i]
  <2>1. Len(f) > 0 /\ \A i \in 1 .. m - 1 : i \in 1 .. m
    BY <1>12
  <2>2. /\ WithLast(f, p) \in Seq(Seq(Value)) /\ Len(WithLast(f, p)) = Len(f)
        /\ WithLast(f, p)[Len(f)] = p
        /\ \A i \in 1 .. Len(f) - 1 : WithLast(f, p)[i] = f[i]
    BY <2>1, DequeReplaced
  <2> QED
    BY <1>12, <2>1, <2>2
<1>14. Decreased(vs, d, n) = w
  <2>1. n - (m - 1) * d = r
    BY <1>5, <1>9 DEF Base
  <2> QED
    BY <1>4, <1>9, <1>11, <1>12, <1>13, <2>1 DEF Decreased
<1>15. PICK t \in Seq(Value) : t = SubSeq(s, 1, n) /\ Len(t) = n /\ \A j \in 1 .. n : t[j] = s[j]
  <2>1. n \in 0 .. Len(s) /\ s \in Seq(Value)
    BY <1>3
  <2>2. /\ SubSeq(s, 1, n) \in Seq(Value) /\ Len(SubSeq(s, 1, n)) = n
        /\ \A i \in 1 .. n : SubSeq(s, 1, n)[i] = s[i]
    BY <2>1, Shortened
  <2> QED
    BY <2>2
<1>16. ASSUME NEW i \in 1 .. m - 1
       PROVE  /\ w[i] = vs[i] /\ Len(w[i]) = d /\ i \in 1 .. Len(vs)
              /\ Base(d, i) \in Nat /\ Base(d, i) + d <= b
  <2>1. i \in 1 .. Len(vs) /\ i < Len(vs) /\ i < m /\ i \in Nat \ {0}
    BY <1>8
  <2>2. Len(vs[i]) = d
    BY <1>3, <2>1
  <2>3. Base(d, i) \in Nat /\ Base(d, i) + d <= b
    BY <1>2, <1>5, <2>1, Bases
  <2> QED
    BY <1>13, <2>1, <2>2, <2>3
<1>17. ASSUME NEW i \in 1 .. m, NEW j \in 1 .. Len(w[i]) PROVE w[i][j] = t[Base(d, i) + j]
  <2>1. CASE i \in 1 .. m - 1
    <3>1. PICK c \in Nat : c = Base(d, i) /\ c + d <= b
      BY <1>16, <2>1
    <3>2. j \in 1 .. d /\ j \in 1 .. Len(vs[i]) /\ i \in 1 .. Len(vs)
      BY <1>16, <2>1
    <3>3. vs[i][j] = s[c + j]
      BY <1>3, <3>1, <3>2
    <3>4. c + j \in 1 .. n
      <4>1. j \in 1 .. d /\ d \in Nat /\ c + d <= b /\ b <= n
        BY <1>2, <1>5, <3>1, <3>2
      <4> QED
        BY <4>1
    <3> QED
      BY <1>15, <1>16, <2>1, <3>1, <3>3, <3>4
  <2>2. CASE i = m
    <3>1. j \in 1 .. r /\ w[i][j] = q[j]
      BY <1>10, <1>13, <2>2
    <3>2. j \in 1 .. a /\ b + j \in 1 .. n
      BY <1>9, <3>1
    <3>3. q[j] = s[b + j]
      BY <1>3, <1>5, <1>8, <1>9, <3>2
    <3> QED
      BY <1>5, <1>15, <2>2, <3>1, <3>2, <3>3
  <2> QED
    BY <2>1, <2>2
<1>18. Len(t) = Base(d, m) + Len(w[m]) /\ Len(w[m]) <= d
  <2>1. n = b + r
    BY <1>5, <1>9
  <2> QED
    BY <1>5, <1>9, <1>10, <1>13, <1>15, <2>1
<1>19. Filled(w, d, t)
  BY <1>2, <1>13, <1>15, <1>16, <1>17, <1>18, FillFacts, ZenonT(40)
<1>20. Len(w) > 1 => w[Len(w)] # <<>>
  <2>1. m > 1 => r > 0
    BY <1>5, <1>9
  <2>2. p = <<>> => Len(p) = 0
    OBVIOUS
  <2> QED
    BY <1>10, <1>13, <2>1, <2>2
<1> QED
  BY <1>14, <1>15, <1>19, <1>20 DEF Chunks

-----------------------------------------------------------------------------
(* insert.                                                                 *)
LEMMA TwoCalls ==
  ASSUME NEW size, NEW deq \in Seq(Value), NEW a, NEW b, NEW f \in Seq(Value), NEW q \in Seq(Value),
         Throws(size, deq, a) = FALSE, Result(deq, a) = f,
         Throws(size, f, b) = FALSE, Result(f, b) = q
  PROVE  Do(size, deq, <<a, b>>) = q
<1>1. Run(size, deq, <<a>>, f)
  BY RunOne
<1>2. PICK C : a \in C /\ b \in C
  <2>1. a \in {a, b} /\ b \in {a, b}
    OBVIOUS
  <2> QED
    BY <2>1
<1>3. <<a>> \in Seq(C) /\ Append(<<a>>, b) = <<a, b>>
  <2>1. PICK s \in Seq(C), t \in Seq(C) : s = <<a>> /\ t = <<a, b>>
    <3>1. <<a>> \in Seq(C) /\ <<a, b>> \in Seq(C)
      BY <1>2
    <3> QED
      BY <3>1
  <2>2. Len(s) = 1 /\ s[1] = a /\ Len(t) = 2 /\ t[1] = a /\ t[2] = b
    BY <2>1
  <2>3. Append(s, b) \in Seq(C) /\ Len(Append(s, b)) = 2 /\ Append(s, b)[2] = b /\ Append(s, b)[1] = a
    <3>1. /\ Append(s, b) \in Seq(C) /\ Len(Append(s, b)) = Len(s) + 1
          /\ Append(s, b)[Len(s) + 1] = b
          /\ \A i \in 1 .. Len(s) : Append(s, b)[i] = s[i]
      BY <1>2, OneMore
    <3>2. 1 \in 1 .. Len(s) /\ Len(s) + 1 = 2
      BY <2>2
    <3> QED
      BY <2>2, <3>1, <3>2
  <2>4. Append(s, b) = t
    BY <2>2, <2>3
  <2> QED
    BY <2>1, <2>4
<1>4. Run(size, deq, Append(<<a>>, b), q)
  BY <1>1, <1>2, <1>3, RunMore
<1>5. Run(size, deq, <<a, b>>, q) /\ Len(<<a, b>>) \in Nat
  BY <1>3, <1>4
<1> QED
  BY <1>5, RunDoes

(* l with x put behind its first c elements and its last element gone.     *)
Shifted(l, c, x) ==
  [J \in 1 .. Len(l) |-> IF J <= c THEN l[J] ELSE IF J = c + 1 THEN x ELSE l[J - 1]]

LEMMA ShiftedFacts ==
  ASSUME NEW l \in Seq(Value), NEW c \in Nat, c < Len(l), NEW x \in Value
  PROVE  /\ Shifted(l, c, x) \in Seq(Value) /\ Len(Shifted(l, c, x)) = Len(l)
         /\ \A J \in 1 .. Len(l) :
              Shifted(l, c, x)[J] = IF J <= c THEN l[J] ELSE IF J = c + 1 THEN x ELSE l[J - 1]
<1>1. PICK n \in Nat : n = Len(l) /\ c < n
  OBVIOUS
<1>2. ASSUME NEW J \in 1 .. n
      PROVE  (IF J <= c THEN l[J] ELSE IF J = c + 1 THEN x ELSE l[J - 1]) \in Value
  <2>1. ~(J <= c) /\ J # c + 1 => J - 1 \in 1 .. n
    BY <1>1
  <2>2. \A p \in 1 .. n : l[p] \in Value
    BY <1>1
  <2> QED
    BY <2>1, <2>2
<1>3. Shifted(l, c, x) \in [1 .. n -> Value]
  BY <1>1, <1>2 DEF Shifted
<1>4. Shifted(l, c, x) \in Seq(Value) /\ Len(Shifted(l, c, x)) = n
  BY <1>3
<1> QED
  BY <1>1, <1>4 DEF Shifted

LEMMA FrontShifted ==
  ASSUME NEW l \in Seq(Value), NEW c \in Nat, c < Len(l), NEW x \in Value
  PROVE  With(Front(l), c, x) = Shifted(l, c, x)
<1>1. PICK n \in Nat : n = Len(l) /\ c < n /\ n > 0
  OBVIOUS
<1>2. Front(l) \in Seq(Value) /\ Len(Front(l)) = n - 1 /\ \A i \in 1 .. n - 1 : Front(l)[i] = l[i]
  <2>1. Len(l) > 0
    BY <1>1
  <2> QED
    BY <1>1, <2>1, Fronts
<1>3. PICK f \in Seq(Value) : f = Front(l) /\ Len(f) = n - 1 /\ \A i \in 1 .. n - 1 : f[i] = l[i]
  BY <1>2
<1>4. c \in 0 .. Len(f) /\ Len(f) + 1 = n
  BY <1>1, <1>3
<1>5. With(f, c, x) = [i \in 1 .. n |-> IF i <= c THEN f[i] ELSE IF i = c + 1 THEN x ELSE f[i - 1]]
  BY <1>4, Spliced
<1>6. ASSUME NEW i \in 1 .. n
      PROVE  (IF i <= c THEN f[i] ELSE IF i = c + 1 THEN x ELSE f[i - 1])
             = IF i <= c THEN l[i] ELSE IF i = c + 1 THEN x ELSE l[i - 1]
  <2>1. i <= c => i \in 1 .. n - 1
    BY <1>1
  <2>2. ~(i <= c) /\ i # c + 1 => i - 1 \in 1 .. n - 1
    BY <1>1
  <2> QED
    BY <1>3, <2>1, <2>2
<1> QED
  BY <1>1, <1>3, <1>5, <1>6 DEF Shifted

(* What insert does to the deque it puts x in, and to the later ones.      *)
LEMMA InsertedShifted ==
  ASSUME NEW d \in Nat \ {0}, NEW l \in Seq(Value), Len(l) <= d, NEW c \in Nat, c < Len(l), NEW x \in Value
  PROVE  /\ Do(d, l, <<<<"pop_back">>, <<"insert", c, x>>>>) = Shifted(l, c, x)
         /\ Len(l) - c = 1 => Do(d, l, <<<<"pop_back">>, <<"push_back", x>>>>) = Shifted(l, c, x)
         /\ c = 0 => Do(d, l, <<<<"pop_back">>, <<"push_front", x>>>>) = Shifted(l, c, x)
<1>1. PICK n \in Nat : n = Len(l) /\ c < n /\ n > 0 /\ n <= d
  OBVIOUS
<1>2. Front(l) \in Seq(Value) /\ Len(Front(l)) = n - 1
  <2>1. Len(l) > 0
    BY <1>1
  <2> QED
    BY <1>1, <2>1, Fronts
<1>3. PICK f \in Seq(Value), q \in Seq(Value) : f = Front(l) /\ Len(f) = n - 1 /\ q = Shifted(l, c, x)
  <2>1. Shifted(l, c, x) \in Seq(Value)
    BY ShiftedFacts
  <2> QED
    BY <1>2, <2>1
<1>4. Throws(d, l, <<"pop_back">>) = FALSE /\ Result(l, <<"pop_back">>) = f
  <2>1. l # <<>>
    BY <1>1
  <2> QED
    BY <1>3, <2>1 DEF Throws, Result
<1>5. Len(f) # d
  BY <1>1, <1>3
<1>6. With(f, c, x) = q
  BY <1>3, FrontShifted
<1>7. Do(d, l, <<<<"pop_back">>, <<"insert", c, x>>>>) = q
  <2>1. Throws(d, f, <<"insert", c, x>>) = FALSE
    BY <1>5 DEF Throws
  <2>2. Result(f, <<"insert", c, x>>) = InsertAt(f, c + 1, x)
    BY DEF Result
  <2>3. (c + 1) - 1 = c
    OBVIOUS
  <2>4. InsertAt(f, c + 1, x) = q
    BY <1>6, <2>3 DEF InsertAt, With
  <2> QED
    BY <1>4, <2>1, <2>2, <2>4, TwoCalls
<1>8. ASSUME n - c = 1 PROVE Do(d, l, <<<<"pop_back">>, <<"push_back", x>>>>) = q
  <2>1. Throws(d, f, <<"push_back", x>>) = FALSE
    BY <1>5 DEF Throws
  <2>2. Result(f, <<"push_back", x>>) = Append(f, x)
    BY DEF Result
  <2>3. c = Len(f)
    BY <1>1, <1>3, <1>8
  <2>4. With(f, Len(f), x) = Append(f, x)
    <3>1. SubSeq(f, 1, Len(f)) = f /\ SubSeq(f, Len(f) + 1, Len(f)) = <<>>
      OBVIOUS
    <3>2. f \o <<x>> = Append(f, x) /\ Append(f, x) \o <<>> = Append(f, x)
      BY AppendIsConcat
    <3> QED
      BY <3>1, <3>2 DEF With
  <2> QED
    BY <1>4, <1>6, <2>1, <2>2, <2>3, <2>4, TwoCalls
<1>9. ASSUME c = 0 PROVE Do(d, l, <<<<"pop_back">>, <<"push_front", x>>>>) = q
  <2>1. Throws(d, f, <<"push_front", x>>) = FALSE
    BY <1>5 DEF Throws
  <2>2. Result(f, <<"push_front", x>>) = <<x>> \o f
    BY DEF Result
  <2>4. With(f, 0, x) = <<x>> \o f
    <3>1. SubSeq(f, 1, 0) = <<>> /\ SubSeq(f, 0 + 1, Len(f)) = f
      OBVIOUS
    <3>2. <<>> \o <<x>> = <<x>>
      OBVIOUS
    <3> QED
      BY <3>1, <3>2 DEF With
  <2> QED
    BY <1>4, <1>6, <1>9, <2>1, <2>2, <2>4, TwoCalls, ZenonT(40)
<1> QED
  BY <1>1, <1>3, <1>7, <1>8, <1>9

(* The deques once x is put at offset j of deque i, before the element     *)
(* that the last one gave up is put at the end.                            *)
Inserting(vs, i, j, x) ==
  [I \in 1 .. Len(vs) |-> IF I < i THEN vs[I]
                          ELSE IF I = i THEN Shifted(vs[I], j, x)
                          ELSE Shifted(vs[I], 0, Last(vs[I - 1]))]

LEMMA InsertingFilled ==
  ASSUME NEW d \in Nat \ {0}, NEW vs, NEW s, Chunks(vs, d, s),
         NEW k \in Nat, k < Len(s), NEW i, NEW j, Spot(vs, d, i, j, k), NEW x \in Value
  PROVE  Filled(Inserting(vs, i, j, x), d, Front(With(s, k, x)))
<1>1. /\ vs \in Seq(Seq(Value)) /\ s \in Seq(Value) /\ Len(vs) \in Nat \ {0} /\ Len(vs) \in 1 .. Len(vs)
      /\ Len(s) \in Nat
      /\ Len(s) = Base(d, Len(vs)) + Len(vs[Len(vs)])
      /\ \A I \in 1 .. Len(vs) :
           /\ vs[I] \in Seq(Value) /\ Len(vs[I]) \in Nat /\ I \in Nat \ {0} /\ Base(d, I) \in Nat
           /\ Len(vs[I]) <= d
           /\ I < Len(vs) => Len(vs[I]) = d
           /\ \A J \in 1 .. Len(vs[I]) : vs[I][J] = s[Base(d, I) + J] /\ Base(d, I) + J \in 1 .. Len(s)
  <2>1. Filled(vs, d, s)
    BY DEF Chunks
  <2> QED
    BY <2>1, FilledFacts, SMTT(30)
<1>2. PICK N \in Nat \ {0}, L \in Nat : N = Len(vs) /\ L = Len(s) /\ N \in 1 .. N
  BY <1>1
<1>3. i \in 1 .. N /\ j \in Nat /\ j < Len(vs[i]) /\ Base(d, i) + j = k
  <2>1. j < Len(vs[i])
    BY SpotIn
  <2>2. i \in 1 .. Len(vs) /\ j \in 0 .. Len(vs[i]) /\ Base(d, i) + j = k
    BY DEF Spot
  <2> QED
    BY <1>1, <1>2, <2>1, <2>2
<1>4. PICK bi \in Nat : bi = Base(d, i) /\ bi + j = k /\ j < d
  <2>1. Len(vs[i]) <= d /\ Len(vs[i]) \in Nat /\ Base(d, i) \in Nat
    BY <1>1, <1>2, <1>3
  <2> QED
    BY <1>3, <2>1
<1>5. ASSUME NEW I \in 1 .. N, I > i
      PROVE  /\ 0 < Len(vs[I]) /\ Last(vs[I - 1]) = s[Base(d, I)] /\ Last(vs[I - 1]) \in Value
             /\ Base(d, I) > k /\ Base(d, I) \in 1 .. L
  <2>1. I - 1 \in 1 .. N /\ I - 1 < N /\ I > 1 /\ I \in Nat \ {0} /\ i \in Nat \ {0}
    BY <1>2, <1>3, <1>5
  <2>2. PICK p \in Seq(Value) : p = vs[I - 1] /\ Len(p) = d
    BY <1>1, <1>2, <2>1
  <2>3. PICK b \in Nat, e \in Nat : b = Base(d, I) /\ e = Base(d, I - 1) /\ b = e + d /\ bi + d <= b
    <3>1. Base(d, I) = Base(d, I - 1) + d /\ Base(d, I) \in Nat
      BY <2>1, Bases
    <3>2. Base(d, I - 1) \in Nat
      BY <1>1, <1>2, <2>1
    <3>3. Base(d, i) + d <= Base(d, I)
      BY <1>5, <2>1, Bases
    <3> QED
      BY <1>4, <3>1, <3>2, <3>3
  <2>4. Last(p) = p[d] /\ Last(p) \in Value /\ d \in 1 .. d
    BY <2>2 DEF Last
  <2>5. p[d] = s[e + d] /\ e + d \in 1 .. L
    BY <1>1, <1>2, <2>1, <2>2, <2>3, <2>4
  <2>6. b > k
    <3>1. bi + j = k /\ j \in Nat /\ d \in Nat /\ j < d /\ bi + d <= b
      BY <1>3, <1>4, <2>3
    <3> QED
      BY <3>1
  <2>7. 0 < Len(vs[I])
    <3>1. I < N => Len(vs[I]) = d
      BY <1>1, <1>2
    <3>2. I = N => vs[I] # <<>>
      BY <1>2, <2>1 DEF Chunks
    <3>3. vs[I] \in Seq(Value) /\ (vs[I] # <<>> => Len(vs[I]) # 0) /\ Len(vs[I]) \in Nat
      BY <1>1, <1>2
    <3> QED
      BY <1>2, <3>1, <3>2, <3>3
  <2> QED
    BY <2>2, <2>3, <2>4, <2>5, <2>6, <2>7
<1>6. PICK w : w = Inserting(vs, i, j, x)
  OBVIOUS
<1>7. Len(w) = N /\ DOMAIN w = 1 .. N /\ w = [I \in 1 .. N |-> w[I]]
  BY <1>2, <1>6 DEF Inserting
<1>8. ASSUME NEW I \in 1 .. N, I < i PROVE w[I] = vs[I]
  BY <1>2, <1>6, <1>8 DEF Inserting
<1>9. w[i] = Shifted(vs[i], j, x)
  <2>1. i \in Nat /\ ~(i < i)
    BY <1>2, <1>3
  <2> QED
    BY <1>2, <1>3, <1>6, <2>1 DEF Inserting
<1>10. ASSUME NEW I \in 1 .. N, I > i PROVE w[I] = Shifted(vs[I], 0, s[Base(d, I)])
  <2>1. ~(I < i) /\ I # i
    BY <1>2, <1>3, <1>10
  <2>2. Last(vs[I - 1]) = s[Base(d, I)]
    BY <1>5, <1>10
  <2> QED
    BY <1>2, <1>6, <2>1, <2>2 DEF Inserting
<1>11. PICK t \in Seq(Value) :
         /\ t = Front(With(s, k, x)) /\ Len(t) = L
         /\ \A p \in 1 .. L : t[p] = IF p <= k THEN s[p] ELSE IF p = k + 1 THEN x ELSE s[p - 1]
  <2>1. k \in 0 .. Len(s) /\ s \in Seq(Value)
    BY <1>1
  <2>2. With(s, k, x) =
         [p \in 1 .. L + 1 |-> IF p <= k THEN s[p] ELSE IF p = k + 1 THEN x ELSE s[p - 1]]
    BY <1>2, <2>1, Spliced
  <2>3. PICK u : u = With(s, k, x)
    OBVIOUS
  <2>4. ASSUME NEW p \in 1 .. L + 1
        PROVE  (IF p <= k THEN s[p] ELSE IF p = k + 1 THEN x ELSE s[p - 1]) \in Value
    <3>1. (p <= k => p \in 1 .. L) /\ (~(p <= k) /\ p # k + 1 => p - 1 \in 1 .. L)
      BY <1>2
    <3>2. \A q \in 1 .. L : s[q] \in Value
      BY <1>1, <1>2
    <3> QED
      BY <3>1, <3>2
  <2>5. u \in [1 .. L + 1 -> Value]
    BY <2>2, <2>3, <2>4
  <2>6. u \in Seq(Value) /\ Len(u) = L + 1 /\ Len(u) > 0
    BY <1>2, <2>5
  <2>7. Front(u) \in Seq(Value) /\ Len(Front(u)) = Len(u) - 1 /\ \A p \in 1 .. Len(u) - 1 : Front(u)[p] = u[p]
    BY <2>6, Fronts
  <2>8. Len(u) - 1 = L /\ \A p \in 1 .. L : p \in 1 .. L + 1
    BY <1>2, <2>6
  <2>9. PICK t : t = Front(u)
    OBVIOUS
  <2>10. t \in Seq(Value) /\ Len(t) = L /\ \A p \in 1 .. L : t[p] = u[p]
    BY <2>7, <2>8, <2>9
  <2>11. \A p \in 1 .. L : t[p] = IF p <= k THEN s[p] ELSE IF p = k + 1 THEN x ELSE s[p - 1]
    BY <2>2, <2>3, <2>8, <2>10
  <2> QED
    BY <2>3, <2>9, <2>10, <2>11
<1>12. ASSUME NEW I \in 1 .. N
       PROVE  w[I] \in Seq(Value) /\ Len(w[I]) = Len(vs[I])
  <2>1. CASE I < i
    BY <1>1, <1>2, <1>8, <2>1
  <2>2. CASE I = i
    <3>1. PICK l \in Seq(Value) : l = vs[i]
      BY <1>1, <1>2, <1>3
    <3>2. j \in Nat /\ j < Len(l)
      BY <1>3, <3>1
    <3>3. Shifted(l, j, x) \in Seq(Value) /\ Len(Shifted(l, j, x)) = Len(l)
      BY <3>2, ShiftedFacts
    <3> QED
      BY <1>9, <2>2, <3>1, <3>3
  <2>3. CASE I > i
    <3>1. PICK l \in Seq(Value), y \in Value : l = vs[I] /\ y = s[Base(d, I)]
      BY <1>1, <1>2, <1>5, <2>3
    <3>2. 0 \in Nat /\ 0 < Len(l)
      BY <1>5, <2>3, <3>1
    <3>3. Shifted(l, 0, y) \in Seq(Value) /\ Len(Shifted(l, 0, y)) = Len(l)
      BY <3>2, ShiftedFacts
    <3> QED
      BY <1>10, <2>3, <3>1, <3>3
  <2>4. I < i \/ I = i \/ I > i
    BY <1>2, <1>3
  <2> QED
    BY <2>1, <2>2, <2>3, <2>4
<1>13. w \in Seq(Seq(Value))
  <2>1. w \in [1 .. N -> Seq(Value)]
    BY <1>7, <1>12
  <2> QED
    BY <1>2, <2>1
<1>14. ASSUME NEW I \in 1 .. N, NEW J \in 1 .. Len(w[I]) PROVE w[I][J] = t[Base(d, I) + J]
  <2>1. /\ J \in 1 .. Len(vs[I]) /\ vs[I] \in Seq(Value) /\ Len(vs[I]) \in Nat /\ Len(vs[I]) <= d
        /\ I \in Nat \ {0}
        /\ vs[I][J] = s[Base(d, I) + J]
    BY <1>1, <1>2, <1>12
  <2>2. PICK b \in Nat : b = Base(d, I) /\ b + J \in 1 .. L
    BY <1>1, <1>2, <2>1
  <2>3. t[b + J] = IF b + J <= k THEN s[b + J] ELSE IF b + J = k + 1 THEN x ELSE s[(b + J) - 1]
    BY <1>11, <2>2
  <2>4. J \in Nat /\ J >= 1 /\ J <= d
    BY <2>1
  <2>5. J > 1 => vs[I][J - 1] = s[(b + J) - 1]
    <3>1. J > 1 => J - 1 \in 1 .. Len(vs[I]) /\ b + (J - 1) = (b + J) - 1
      <4>1. PICK m \in Nat : m = Len(vs[I]) /\ J \in 1 .. m
        BY <2>1
      <4>2. J > 1 => J - 1 \in 1 .. m /\ b + (J - 1) = (b + J) - 1
        BY <4>1
      <4> QED
        BY <4>1, <4>2
    <3> QED
      BY <1>1, <1>2, <2>2, <3>1
  <2>6. CASE I < i
    <3>1. b + d <= bi
      BY <1>3, <1>4, <2>1, <2>2, <2>6, Bases, SMTT(30)
    <3>2. b + J <= k
      <4>1. bi + j = k /\ j \in Nat /\ d \in Nat /\ b + d <= bi /\ J \in Nat /\ J <= d
        BY <1>3, <1>4, <2>4, <3>1
      <4> QED
        BY <4>1
    <3> QED
      BY <1>8, <2>1, <2>2, <2>3, <2>6, <3>2
  <2>7. CASE I = i
    <3>1. w[I][J] = IF J <= j THEN vs[I][J] ELSE IF J = j + 1 THEN x ELSE vs[I][J - 1]
      <4>1. PICK l \in Seq(Value) : l = vs[I]
        BY <2>1
      <4>2. j \in Nat /\ j < Len(l)
        BY <1>3, <2>7, <4>1
      <4>3. \A q \in 1 .. Len(l) :
              Shifted(l, j, x)[q] = IF q <= j THEN l[q] ELSE IF q = j + 1 THEN x ELSE l[q - 1]
        BY <4>2, ShiftedFacts
      <4>4. w[I] = Shifted(l, j, x) /\ J \in 1 .. Len(l)
        BY <1>9, <2>1, <2>7, <4>1
      <4> QED
        BY <4>1, <4>3, <4>4
    <3>2. b = bi
      BY <1>4, <2>2, <2>7
    <3>3. /\ J <= j <=> b + J <= k
          /\ J = j + 1 <=> b + J = k + 1
          /\ ~(J <= j) /\ J # j + 1 => J > 1
      BY <1>3, <1>4, <2>4, <3>2, SMTT(30)
    <3> QED
      BY <2>1, <2>2, <2>3, <2>5, <3>1, <3>3
  <2>8. CASE I > i
    <3>1. b > k /\ 0 < Len(vs[I]) /\ s[b] \in Value /\ w[I] = Shifted(vs[I], 0, s[b])
      BY <1>1, <1>2, <1>5, <1>10, <2>2, <2>8
    <3>2. w[I][J] = IF J <= 0 THEN vs[I][J] ELSE IF J = 0 + 1 THEN s[b] ELSE vs[I][J - 1]
      <4>1. PICK l \in Seq(Value), y \in Value : l = vs[I] /\ y = s[b]
        BY <2>1, <3>1
      <4>2. 0 \in Nat /\ 0 < Len(l)
        BY <3>1, <4>1
      <4>3. \A q \in 1 .. Len(l) :
              Shifted(l, 0, y)[q] = IF q <= 0 THEN l[q] ELSE IF q = 0 + 1 THEN y ELSE l[q - 1]
        BY <4>2, ShiftedFacts
      <4>4. w[I] = Shifted(l, 0, y) /\ J \in 1 .. Len(l)
        BY <2>1, <3>1, <4>1
      <4> QED
        BY <4>1, <4>3, <4>4
    <3>3. ~(J <= 0) /\ ~(b + J <= k) /\ b + J # k + 1 /\ (J # 0 + 1 => J > 1) /\ (J = 0 + 1 => (b + J) - 1 = b)
      BY <2>4, <3>1
    <3> QED
      BY <2>2, <2>3, <2>5, <3>2, <3>3
  <2>9. I < i \/ I = i \/ I > i
    BY <1>2, <1>3
  <2> QED
    BY <2>6, <2>7, <2>8, <2>9
<1>15. ASSUME NEW I \in 1 .. N - 1 PROVE Len(w[I]) = d
  <2>1. I \in 1 .. N /\ I < N
    BY <1>2
  <2> QED
    BY <1>1, <1>2, <1>12, <2>1
<1>16. Len(t) = Base(d, N) + Len(w[N]) /\ Len(w[N]) <= d
  BY <1>1, <1>2, <1>11, <1>12
<1>17. Filled(w, d, t)
  BY <1>7, <1>11, <1>13, <1>14, <1>15, <1>16, FillFacts
<1> QED
  BY <1>6, <1>11, <1>17

(* insert, in front of the element that it refers to, or at the end.       *)
LEMMA InsertedChunks ==
  ASSUME NEW vs, NEW d \in Nat \ {0}, NEW s, Chunks(vs, d, s), NEW k \in Nat, k <= Len(s),
         NEW it, Refers(vs, d, it, k), NEW x \in Value
  PROVE  Chunks(Inserted(vs, d, it, x), d, With(s, k, x))
<1>1. PICK i, j : Referring(vs, d, s, it, i, j, k)
  BY Reference
<1>2. /\ d \in Nat \ {0} /\ Chunks(vs, d, s) /\ Filled(vs, d, s)
      /\ Spot(vs, d, i, j, k) /\ it.vec = i /\ it.deq = j
  BY <1>1 DEF Referring, Chunks
<1>3. /\ vs \in Seq(Seq(Value)) /\ s \in Seq(Value) /\ Len(vs) \in Nat \ {0} /\ Len(vs) \in 1 .. Len(vs)
      /\ Len(s) \in Nat
      /\ \A I \in 1 .. Len(vs) :
           /\ vs[I] \in Seq(Value) /\ Len(vs[I]) \in Nat /\ I \in Nat \ {0}
           /\ Len(vs[I]) <= d
  BY <1>2, FilledFacts
<1>4. PICK N \in Nat \ {0} : N = Len(vs) /\ N \in 1 .. N
  BY <1>3
<1>5. PICK l \in Seq(Value), m \in Nat : l = vs[i] /\ m = Len(l) /\ i \in 1 .. N /\ j \in 0 .. m /\ m <= d
  BY <1>2, <1>3, <1>4 DEF Spot
<1> DEFINE toEnd    == Len(vs[it.vec]) - it.deq
           put      == IF toEnd = 1 THEN <<"push_back", x>> ELSE <<"insert", it.deq, x>>
           carry(I) == IF I = it.vec /\ toEnd = 0 THEN x ELSE Last(vs[I])
           deq(I)   == CASE I < it.vec               -> vs[I]
                         [] I = it.vec /\ toEnd = 0  -> vs[I]
                         [] I = it.vec /\ toEnd # 0  -> Do(d, vs[I], <<<<"pop_back">>, put>>)
                         [] I > it.vec               -> PassedOn(d, vs[I], carry(I - 1))
           deqs     == [I \in 1 .. Len(vs) |-> deq(I)]
<1>6. Inserted(vs, d, it, x) = Pushed(deqs, d, carry(N))
  BY <1>2, <1>4 DEF Inserted
<1>e. ASSUME NEW I \in 1 .. N
      PROVE  /\ I < i => deq(I) = vs[I]
             /\ I = i /\ toEnd = 0 => deq(I) = vs[I]
             /\ I = i /\ toEnd # 0 => deq(I) = Do(d, vs[I], <<<<"pop_back">>, put>>)
             /\ I > i => deq(I) = PassedOn(d, vs[I], carry(I - 1))
  <2> HIDE DEF toEnd, put, carry
  <2>0. I \in Nat /\ i \in Nat
    BY <1>4, <1>5
  <2>1. CASE I < i
    <3>1. I < it.vec /\ I # it.vec /\ ~(I > it.vec)
      BY <1>2, <2>0, <2>1
    <3> QED
      BY <1>2, <2>0, <2>1, <3>1
  <2>2. CASE I = i
    <3>1. ~(I < it.vec) /\ I = it.vec /\ ~(I > it.vec)
      BY <1>2, <2>0, <2>2
    <3>2. toEnd = 0 => deq(I) = vs[I]
      BY <3>1
    <3>3. toEnd # 0 => deq(I) = Do(d, vs[I], <<<<"pop_back">>, put>>)
      BY <3>1
    <3> HIDE DEF deq
    <3> QED
      BY <1>2, <2>0, <2>2, <3>2, <3>3
  <2>3. CASE I > i
    <3>1. ~(I < it.vec) /\ I # it.vec /\ I > it.vec
      BY <1>2, <2>0, <2>3
    <3> QED
      BY <1>2, <2>0, <2>3, <3>1
  <2> QED
    BY <2>0, <2>1, <2>2, <2>3
<1>f. \A I \in 1 .. N : deqs[I] = deq(I)
  <2> HIDE DEF deq
  <2> QED
    BY <1>2, <1>4
<1>g. deqs = [I \in 1 .. N |-> deqs[I]]
  <2> HIDE DEF deq
  <2> QED
    BY <1>2, <1>4
<1> HIDE DEF deq, deqs
<1>7. CASE j = m
  <2>1. toEnd = 0
    BY <1>2, <1>5, <1>7
  <2>2. i = N /\ k = Len(s)
    <3>1. i = N
      BY <1>2, <1>4, <1>5, <1>7 DEF Spot
    <3>2. Len(s) = Base(d, N) + Len(vs[N])
      BY <1>2, <1>4 DEF Filled
    <3>3. Base(d, i) + j = k
      BY <1>2 DEF Spot
    <3> QED
      BY <1>5, <1>7, <3>1, <3>2, <3>3
  <2>3. carry(N) = x
    BY <1>2, <2>1, <2>2
  <2>4. deqs = vs
    <3>1. \A I \in 1 .. N : deqs[I] = vs[I]
      <4> SUFFICES ASSUME NEW I \in 1 .. N PROVE deqs[I] = vs[I]
        OBVIOUS
      <4> HIDE DEF toEnd, put, carry
      <4>1. I < i \/ (I = i /\ toEnd = 0)
        BY <1>4, <2>1, <2>2
      <4> QED
        BY <1>e, <1>f, <4>1
    <3>3. vs = [I \in 1 .. N |-> vs[I]]
      BY <1>3, <1>4
    <3> QED
      BY <1>g, <3>1, <3>3
  <2>5. Chunks(Pushed(vs, d, x), d, Append(s, x))
    BY <1>2, PushedFilled
  <2>6. With(s, k, x) = Append(s, x)
    <3>1. SubSeq(s, 1, Len(s)) = s /\ SubSeq(s, Len(s) + 1, Len(s)) = <<>>
      BY <1>3
    <3>2. s \o <<x>> = Append(s, x) /\ Append(s, x) \o <<>> = Append(s, x)
      BY <1>3, AppendIsConcat
    <3> QED
      BY <2>2, <3>1, <3>2 DEF With
  <2> HIDE DEF carry
  <2> QED
    BY <1>2, <1>6, <2>3, <2>4, <2>5, <2>6
<1>8. CASE j # m
  <2>0. j \in Nat /\ j < m /\ m - j # 0 /\ toEnd = m - j
    BY <1>2, <1>5, <1>8
  <2>1. PICK w : w = Inserting(vs, i, j, x)
    OBVIOUS
  <2>k. k < Len(s)
    <3>1. k = Len(s) => j = Len(vs[i])
      BY <1>2, SpotIn
    <3> QED
      BY <1>3, <1>5, <1>8, <3>1
  <2>2. Filled(w, d, Front(With(s, k, x)))
    BY <1>2, <2>1, <2>k, InsertingFilled
  <2>3. \A I \in 1 .. N : deqs[I] = w[I]
    <3> SUFFICES ASSUME NEW I \in 1 .. N PROVE deqs[I] = w[I]
      OBVIOUS
    <3>1. vs[I] \in Seq(Value) /\ Len(vs[I]) <= d /\ I \in Nat /\ i \in Nat
      BY <1>3, <1>4, <1>5
    <3>2. toEnd # 0
      BY <2>0
    <3>3. CASE I < i
      <4>1. w[I] = vs[I]
        BY <1>4, <2>1, <3>3 DEF Inserting
      <4>2. deqs[I] = vs[I]
        <5> HIDE DEF toEnd, put, carry
        <5> QED
          BY <1>e, <1>f, <3>3
      <4> QED
        BY <4>1, <4>2
    <3>4. CASE I = i
      <4>1. w[I] = Shifted(l, j, x)
        <5>1. ~(i < i)
          BY <3>1
        <5> QED
          BY <1>4, <1>5, <2>1, <3>4, <5>1 DEF Inserting
      <4>2. deqs[I] = Do(d, l, <<<<"pop_back">>, put>>)
        <5> HIDE DEF toEnd, put, carry
        <5> QED
          BY <1>e, <1>f, <1>5, <3>2, <3>4
      <4>3. put = IF m - j = 1 THEN <<"push_back", x>> ELSE <<"insert", j, x>>
        BY <1>2, <2>0
      <4>4. j \in Nat /\ j < Len(l) /\ Len(l) <= d
        BY <1>5, <2>0
      <4>5. /\ Do(d, l, <<<<"pop_back">>, <<"insert", j, x>>>>) = Shifted(l, j, x)
            /\ Len(l) - j = 1 => Do(d, l, <<<<"pop_back">>, <<"push_back", x>>>>) = Shifted(l, j, x)
        BY <1>2, <4>4, InsertedShifted, ZenonT(40)
      <4> QED
        BY <1>5, <4>1, <4>2, <4>3, <4>5
    <3>5. CASE I > i
      <4>0. ~(I < i) /\ I # i /\ I - 1 \in 1 .. N /\ I - 1 < N
        BY <1>5, <3>1, <3>5
      <4>1. w[I] = Shifted(vs[I], 0, Last(vs[I - 1]))
        BY <1>4, <2>1, <4>0 DEF Inserting
      <4>2. deqs[I] = PassedOn(d, vs[I], Last(vs[I - 1]))
        <5>1. carry(I - 1) = Last(vs[I - 1])
          BY <3>2
        <5> HIDE DEF toEnd, put, carry
        <5> QED
          BY <1>2, <1>e, <1>f, <3>5, <5>1
      <4>3. Len(vs[I - 1]) = d /\ vs[I - 1] \in Seq(Value)
        BY <1>2, <1>3, <1>4, <4>0, FullDeque
      <4>4. PICK y \in Value : y = Last(vs[I - 1])
        <5>1. Len(vs[I - 1]) \in 1 .. Len(vs[I - 1])
          BY <1>2, <4>3
        <5>2. Last(vs[I - 1]) \in Value
          BY <4>3, <5>1 DEF Last
        <5> QED
          BY <5>2
      <4>5. PICK q \in Seq(Value) : q = vs[I] /\ Len(q) <= d
        BY <3>1
      <4>6. 0 < Len(q)
        <5>1. I < N => Len(q) = d
          BY <1>2, <1>4, <4>5 DEF Filled
        <5>2. I = N => q # <<>>
          BY <1>2, <1>4, <1>5, <3>5, <4>5 DEF Chunks
        <5>3. (q # <<>> => Len(q) # 0) /\ Len(q) \in Nat
          OBVIOUS
        <5> QED
          BY <1>2, <1>4, <5>1, <5>2, <5>3
      <4>7. Do(d, q, <<<<"pop_back">>, <<"push_front", y>>>>) = Shifted(q, 0, y)
        <5>1. PICK c \in Nat : c = 0
          OBVIOUS
        <5>2. c < Len(q) /\ Len(q) <= d /\ d \in Nat \ {0}
          BY <1>2, <4>5, <4>6, <5>1
        <5>3. c = 0 => Do(d, q, <<<<"pop_back">>, <<"push_front", y>>>>) = Shifted(q, c, y)
          BY <5>2, InsertedShifted, ZenonT(40)
        <5> QED
          BY <5>1, <5>3
      <4> QED
        BY <1>2, <4>1, <4>2, <4>4, <4>5, <4>7 DEF PassedOn
    <3>6. I < i \/ I = i \/ I > i
      BY <3>1
    <3> QED
      BY <3>3, <3>4, <3>5, <3>6
  <2>4. deqs = w
    <3>2. w = [I \in 1 .. N |-> w[I]]
      BY <1>4, <2>1 DEF Inserting
    <3> QED
      BY <1>g, <2>3, <3>2
  <2>5. PICK L \in Nat : L = Len(s) /\ k < L
    BY <1>3, <2>k
  <2>6. carry(N) = s[L] /\ s[L] \in Value
    <3>1. carry(N) = Last(vs[N])
      BY <1>2, <2>0
    <3>2. PICK q \in Seq(Value), b \in Nat : q = vs[N] /\ b = Base(d, N) /\ L = b + Len(q)
      <4>1. Base(d, N) \in Nat
        BY <1>2, Bases
      <4>2. vs[N] \in Seq(Value)
        BY <1>3, <1>4
      <4> QED
        BY <1>2, <1>4, <2>5, <4>1, <4>2 DEF Filled
    <3>3. Len(q) \in 1 .. Len(q)
      <4>1. N > 1 => q # <<>>
        BY <1>2, <1>4, <3>2 DEF Chunks
      <4>2. N = 1 => b = 0
        BY <1>2, <3>2 DEF Base
      <4>3. (q # <<>> => Len(q) # 0) /\ Len(q) \in Nat
        OBVIOUS
      <4> QED
        BY <1>4, <2>5, <3>2, <4>1, <4>2, <4>3
    <3>4. q[Len(q)] = s[b + Len(q)]
      BY <1>2, <1>4, <3>2, <3>3 DEF Filled
    <3>5. Last(q) = q[Len(q)] /\ q[Len(q)] \in Value
      BY <3>3 DEF Last
    <3> QED
      BY <3>1, <3>2, <3>4, <3>5
  <2>7. Chunks(Pushed(w, d, s[L]), d, Append(Front(With(s, k, x)), s[L]))
    BY <1>2, <2>2, <2>6, PushedFilled
  <2>8. Append(Front(With(s, k, x)), s[L]) = With(s, k, x)
    <3>1. k \in 0 .. Len(s) /\ s \in Seq(Value)
      BY <1>3, <2>5
    <3>2. With(s, k, x) =
            [p \in 1 .. L + 1 |-> IF p <= k THEN s[p] ELSE IF p = k + 1 THEN x ELSE s[p - 1]]
      BY <2>5, <3>1, Spliced
    <3>3. PICK u : u = With(s, k, x)
      OBVIOUS
    <3>4. ASSUME NEW p \in 1 .. L + 1
          PROVE  (IF p <= k THEN s[p] ELSE IF p = k + 1 THEN x ELSE s[p - 1]) \in Value
      <4>1. (p <= k => p \in 1 .. L) /\ (~(p <= k) /\ p # k + 1 => p - 1 \in 1 .. L)
        BY <2>5
      <4>2. \A q \in 1 .. L : s[q] \in Value
        BY <1>3, <2>5
      <4> QED
        BY <4>1, <4>2
    <3>5. u \in [1 .. L + 1 -> Value]
      BY <3>2, <3>3, <3>4
    <3>6. u \in Seq(Value) /\ Len(u) = L + 1 /\ u # <<>>
      BY <2>5, <3>5
    <3>7. Last(u) = s[L]
      <4>1. L + 1 \in 1 .. L + 1 /\ ~(L + 1 <= k) /\ L + 1 # k + 1 /\ (L + 1) - 1 = L
        BY <2>5
      <4>2. u[L + 1] = s[L]
        BY <3>2, <3>3, <4>1
      <4> QED
        BY <3>6, <4>2 DEF Last
    <3>8. Append(Front(u), Last(u)) = u
      <4>1. Len(u) > 0
        BY <2>5, <3>6
      <4> QED
        BY <3>6, <4>1, FrontAndLast
    <3> QED
      BY <3>3, <3>7, <3>8
  <2> HIDE DEF carry
  <2> QED
    BY <1>2, <1>6, <2>4, <2>6, <2>7, <2>8
<1> QED
  BY <1>7, <1>8

-----------------------------------------------------------------------------
(* erase of one element.                                                   *)
LEMMA ThenPuts ==
  ASSUME NEW size \in Nat, NEW deq \in Seq(Value), NEW A, NEW calls \in Seq(A), NEW f \in Seq(Value),
         Run(size, deq, calls, f), NEW xs \in Seq(Value), Len(f) + Len(xs) <= size
  PROVE  Do(size, deq, calls \o Puts(xs)) = f \o xs
<1>1. PICK C : C = A \union {<<"push_back", x>> : x \in Value}
  OBVIOUS
<1>2. calls \in Seq(C)
  <2>1. PICK n \in Nat : n = Len(calls) /\ calls \in [1 .. n -> A]
    OBVIOUS
  <2>2. A \subseteq C
    BY <1>1
  <2>3. calls \in [1 .. n -> C]
    BY <2>1, <2>2
  <2> QED
    BY <2>1, <2>3
<1>3. Puts(xs) \in Seq(C)
  <2>1. \A i \in 1 .. Len(xs) : <<"push_back", xs[i]>> \in C
    BY <1>1
  <2> QED
    BY <2>1 DEF Puts
<1>4. Run(size, f, Puts(xs), f \o xs)
  BY PutsRun
<1>5. Run(size, deq, calls \o Puts(xs), f \o xs)
  BY <1>2, <1>3, <1>4, RunBoth
<1>6. Len(calls \o Puts(xs)) \in Nat
  BY <1>2, <1>3
<1> QED
  BY <1>5, <1>6, RunDoes

(* l without the element behind its first c.                               *)
Lost(l, c) == [J \in 1 .. Len(l) - 1 |-> IF J <= c THEN l[J] ELSE l[J + 1]]

LEMMA LostRun ==
  ASSUME NEW d \in Nat \ {0}, NEW l \in Seq(Value), NEW c \in Nat, c < Len(l)
  PROVE  /\ Lost(l, c) \in Seq(Value) /\ Len(Lost(l, c)) = Len(l) - 1
         /\ \A J \in 1 .. Len(l) - 1 : Lost(l, c)[J] = IF J <= c THEN l[J] ELSE l[J + 1]
         /\ Without(l, c, c + 1) = Lost(l, c)
         /\ Run(d, l, <<<<"erase", c>>>>, Lost(l, c))
         /\ c = 0 => Run(d, l, <<<<"pop_front">>>>, Lost(l, c))
<1>1. PICK n \in Nat : n = Len(l) /\ c < n
  OBVIOUS
<1>2. \A J \in 1 .. n - 1 : (IF J <= c THEN l[J] ELSE l[J + 1]) \in Value
  <2> TAKE J \in 1 .. n - 1
  <2>1. J \in 1 .. n /\ J + 1 \in 1 .. n
    BY <1>1
  <2>2. \A p \in 1 .. n : l[p] \in Value
    BY <1>1
  <2> QED
    BY <2>1, <2>2
<1>3. Lost(l, c) \in [1 .. n - 1 -> Value]
  BY <1>1, <1>2 DEF Lost
<1>4. n - 1 \in Nat
  BY <1>1
<1>5. Lost(l, c) \in Seq(Value) /\ Len(Lost(l, c)) = n - 1
  BY <1>3, <1>4
<1>6. \A J \in 1 .. n - 1 : Lost(l, c)[J] = IF J <= c THEN l[J] ELSE l[J + 1]
  BY <1>1 DEF Lost
<1>7. SubSeq(l, 1, c) \o SubSeq(l, (c + 1) + 1, Len(l)) = Lost(l, c)
  <2>1. PICK k \in Nat : k = c + 1 /\ c \in 0 .. Len(l) /\ k \in c .. Len(l) /\ k - c = 1
    BY <1>1
  <2>2. SubSeq(l, 1, c) \o SubSeq(l, k + 1, Len(l)) =
          [i \in 1 .. Len(l) - (k - c) |-> IF i <= c THEN l[i] ELSE l[i + (k - c)]]
    <3>1. c \in 0 .. Len(l) /\ k \in c .. Len(l)
      BY <2>1
    <3> QED
      BY <3>1, CutOut, ZenonT(40)
  <2> QED
    BY <2>1, <2>2 DEF Lost
<1>8. Without(l, c, c + 1) = Lost(l, c)
  <2>1. c < c + 1
    OBVIOUS
  <2> QED
    BY <1>7, <2>1 DEF Without
<1>9. l # <<>>
  BY <1>1
<1>10. Run(d, l, <<<<"erase", c>>>>, Lost(l, c))
  <2>1. Throws(d, l, <<"erase", c>>) = FALSE
    BY <1>9 DEF Throws
  <2>2. Result(l, <<"erase", c>>) = Lost(l, c)
    BY <1>8 DEF Result
  <2> QED
    BY <1>5, <2>1, <2>2, RunOne
<1>11. ASSUME c = 0 PROVE Run(d, l, <<<<"pop_front">>>>, Lost(l, c))
  <2>1. Throws(d, l, <<"pop_front">>) = FALSE
    BY <1>9 DEF Throws
  <2>2. Result(l, <<"pop_front">>) = Tail(l)
    BY DEF Result
  <2>3. Tail(l) = Lost(l, c)
    <3>1. Tail(l) = [i \in 1 .. n - 1 |-> l[i + 1]]
      <4>1. Tail(l) \in Seq(Value) /\ Len(Tail(l)) = n - 1 /\ \A i \in 1 .. n - 1 : Tail(l)[i] = l[i + 1]
        BY <1>1, <1>9, HeadTailProperties
      <4>2. \A s \in Seq(Value) : s = [i \in 1 .. Len(s) |-> s[i]]
        OBVIOUS
      <4>3. PICK q \in Seq(Value) : q = Tail(l)
        BY <4>1
      <4> QED
        BY <4>1, <4>2, <4>3
    <3>2. Lost(l, c) = [i \in 1 .. n - 1 |-> l[i + 1]]
      <4>1. \A i \in 1 .. n - 1 : ~(i <= c)
        BY <1>11
      <4> QED
        BY <1>1, <4>1 DEF Lost
    <3> QED
      BY <3>1, <3>2
  <2> QED
    BY <1>5, <2>1, <2>2, <2>3, RunOne
<1> QED
  BY <1>1, <1>5, <1>6, <1>8, <1>10, <1>11

(* What comes from the front of the deque behind I to the end of I.        *)
Handed(vs, I) == IF I < Len(vs) THEN <<Head(vs[I + 1])>> ELSE <<>>

(* The deques once the element at offset j of deque i is gone and the      *)
(* others have moved up.                                                   *)
Erasing(vs, i, j) ==
  [I \in 1 .. Len(vs) |-> IF I < i THEN vs[I]
                          ELSE Lost(vs[I], IF I = i THEN j ELSE 0) \o Handed(vs, I)]

LEMMA HandedFacts ==
  ASSUME NEW d \in Nat \ {0}, NEW vs, NEW s, Chunks(vs, d, s), NEW I \in 1 .. Len(vs)
  PROVE  /\ Handed(vs, I) \in Seq(Value) /\ Len(vs[I]) + Len(Handed(vs, I)) <= d + 1
         /\ Handed(vs, I) = IF I < Len(vs) THEN <<Head(vs[I + 1])>> ELSE <<>>
         /\ I < Len(vs) => /\ Len(Handed(vs, I)) = 1
                           /\ Handed(vs, I)[1] = s[(Base(d, I) + d) + 1]
         /\ I = Len(vs) => Handed(vs, I) = <<>> /\ Len(Handed(vs, I)) = 0
<1>1. PICK N \in Nat \ {0} : N = Len(vs) /\ I \in 1 .. N /\ Filled(vs, d, s)
  BY DEF Chunks, Filled
<1>2. Len(vs[I]) \in Nat /\ Len(vs[I]) <= d
  BY <1>1, FilledFacts
<1>3. CASE I < N
  <2>1. I + 1 \in 1 .. N /\ I + 1 \in Nat \ {0} /\ I \in Nat \ {0}
    BY <1>1, <1>3
  <2>2. PICK q \in Seq(Value) : q = vs[I + 1]
    BY <1>1, <2>1, FilledFacts
  <2>3. Len(q) \in Nat \ {0}
    <3>1. I + 1 < N => Len(q) = d
      BY <1>1, <2>1, <2>2 DEF Filled
    <3>2. I + 1 = N => q # <<>>
      BY <1>1, <1>3, <2>2 DEF Chunks
    <3>3. (q # <<>> => Len(q) # 0) /\ Len(q) \in Nat
      OBVIOUS
    <3> QED
      BY <1>1, <2>1, <3>1, <3>2, <3>3
  <2>4. Head(q) = q[1] /\ q[1] \in Value /\ 1 \in 1 .. Len(q)
    BY <2>3
  <2>5. q[1] = s[Base(d, I + 1) + 1]
    BY <1>1, <2>1, <2>2, <2>4 DEF Filled
  <2>6. Base(d, I + 1) = Base(d, I) + d
    BY <2>1, Bases
  <2>7. PICK y \in Value : y = Head(vs[I + 1]) /\ y = s[(Base(d, I) + d) + 1]
    BY <2>2, <2>4, <2>5, <2>6
  <2>8. Handed(vs, I) = <<y>> /\ Handed(vs, I) = <<Head(vs[I + 1])>>
    BY <1>1, <1>3, <2>7 DEF Handed
  <2>9. <<y>> \in Seq(Value) /\ Len(<<y>>) = 1 /\ <<y>>[1] = y
    OBVIOUS
  <2> QED
    BY <1>1, <1>2, <1>3, <2>7, <2>8, <2>9
<1>4. CASE I = N
  <2>1. Handed(vs, I) = <<>>
    BY <1>1, <1>4 DEF Handed
  <2>2. <<>> \in Seq(Value) /\ Len(<<>>) = 0 /\ ~(N < N)
    BY <1>1
  <2> QED
    BY <1>1, <1>2, <1>4, <2>1, <2>2
<1> QED
  BY <1>1, <1>3, <1>4

(* In numbers: deque I has m elements behind b others, loses the one       *)
(* behind the first c of them and is given h.                              *)
Losing(d, vs, s, k, i, j, w, I, c, b, m, h) ==
  /\ c \in Nat /\ b \in Nat /\ m \in Nat \ {0} /\ h \in Nat
  /\ c = (IF I = i THEN j ELSE 0) /\ b = Base(d, I) /\ m = Len(vs[I]) /\ c < m /\ m <= d
  /\ h = Len(Handed(vs, I)) /\ (I < Len(vs) => m = d /\ h = 1) /\ (I = Len(vs) => h = 0)
  /\ (I = i => b + c = k) /\ (I # i => b + c > k) /\ b + c >= k
  /\ w[I] \in Seq(Value) /\ Len(w[I]) = (m - 1) + h
  /\ \A J \in 1 .. m - 1 : w[I][J] = IF J <= c THEN vs[I][J] ELSE vs[I][J + 1]
  /\ I < Len(vs) => w[I][d] = s[(b + d) + 1]

LEMMA LosingNumbers ==
  ASSUME NEW d \in Nat \ {0}, NEW vs, NEW s, Chunks(vs, d, s),
         NEW k \in Nat, k < Len(s), NEW i, NEW j, Spot(vs, d, i, j, k),
         NEW w, w = Erasing(vs, i, j), NEW I \in 1 .. Len(vs), ~(I < i)
  PROVE  \E c, b, m, h : Losing(d, vs, s, k, i, j, w, I, c, b, m, h)
<1>1. /\ vs \in Seq(Seq(Value)) /\ s \in Seq(Value) /\ Len(vs) \in Nat \ {0} /\ Len(vs) \in 1 .. Len(vs)
      /\ Len(s) \in Nat
      /\ Len(s) = Base(d, Len(vs)) + Len(vs[Len(vs)])
      /\ \A H \in 1 .. Len(vs) :
           /\ vs[H] \in Seq(Value) /\ Len(vs[H]) \in Nat /\ H \in Nat \ {0} /\ Base(d, H) \in Nat
           /\ Len(vs[H]) <= d
           /\ H < Len(vs) => Len(vs[H]) = d
           /\ \A J \in 1 .. Len(vs[H]) : vs[H][J] = s[Base(d, H) + J] /\ Base(d, H) + J \in 1 .. Len(s)
  <2>1. Filled(vs, d, s)
    BY DEF Chunks
  <2> QED
    BY <2>1, FilledFacts, SMTT(30)
<1>2. PICK N \in Nat \ {0}, L \in Nat : N = Len(vs) /\ L = Len(s) /\ N \in 1 .. N
  BY <1>1
<1>3. i \in 1 .. N /\ j \in Nat /\ j < Len(vs[i]) /\ Base(d, i) + j = k
  <2>1. j < Len(vs[i])
    BY SpotIn
  <2>2. i \in 1 .. Len(vs) /\ j \in 0 .. Len(vs[i]) /\ Base(d, i) + j = k
    BY DEF Spot
  <2> QED
    BY <1>1, <1>2, <2>1, <2>2
<1>4. PICK bi \in Nat : bi = Base(d, i) /\ bi + j = k /\ j < d
  <2>1. Len(vs[i]) <= d /\ Len(vs[i]) \in Nat /\ Base(d, i) \in Nat
    BY <1>1, <1>2, <1>3
  <2> QED
    BY <1>3, <2>1
<1>5. w = Erasing(vs, i, j)
  OBVIOUS
<1>6. I \in 1 .. N /\ ~(I < i)
  BY <1>2
<1>7. \E c, b, m, h : Losing(d, vs, s, k, i, j, w, I, c, b, m, h)
  <2>1. PICK c \in Nat : c = IF I = i THEN j ELSE 0
    BY <1>3
  <2>2. PICK b \in Nat, l \in Seq(Value), m \in Nat : b = Base(d, I) /\ l = vs[I] /\ m = Len(l) /\ m <= d
    BY <1>1, <1>2
  <2>3. c < m
    <3>1. I < N => m = d
      BY <1>1, <1>2, <2>2
    <3>2. I = N /\ I # i => l # <<>>
      <4>1. I = N /\ I # i => N > 1
        BY <1>2, <1>3, <1>6
      <4> QED
        BY <1>2, <2>2, <4>1 DEF Chunks
    <3>3. l # <<>> => m # 0
      BY <2>2
    <3>4. I = i => c < m
      BY <1>3, <2>1, <2>2
    <3>5. I # i => c = 0
      BY <2>1
    <3>6. I < N \/ I = N
      BY <1>2
    <3>7. I # i => m > 0
      BY <3>1, <3>2, <3>3, <3>6
    <3> QED
      BY <3>4, <3>5, <3>7
  <2>4. PICK h \in Seq(Value) :
          /\ h = Handed(vs, I) /\ (I < N => Len(h) = 1 /\ h[1] = s[(b + d) + 1]) /\ (I = N => Len(h) = 0)
          /\ Len(h) \in Nat
    <3>1. /\ Handed(vs, I) \in Seq(Value)
          /\ I < Len(vs) => /\ Len(Handed(vs, I)) = 1 /\ Handed(vs, I)[1] = s[(Base(d, I) + d) + 1]
          /\ I = Len(vs) => Len(Handed(vs, I)) = 0
      BY <1>2, HandedFacts
    <3> QED
      BY <1>2, <2>2, <3>1
  <2>5. PICK q \in Seq(Value) :
          /\ q = Lost(l, c) /\ Len(q) = m - 1
          /\ \A J \in 1 .. m - 1 : q[J] = IF J <= c THEN l[J] ELSE l[J + 1]
    <3>1. c < Len(l)
      BY <2>2, <2>3
    <3>2. /\ Lost(l, c) \in Seq(Value) /\ Len(Lost(l, c)) = Len(l) - 1
          /\ \A J \in 1 .. Len(l) - 1 : Lost(l, c)[J] = IF J <= c THEN l[J] ELSE l[J + 1]
      BY <3>1, LostRun
    <3> QED
      BY <2>2, <3>2
  <2>6. w[I] = q \o h
    BY <1>2, <1>5, <1>6, <2>1, <2>2, <2>4, <2>5 DEF Erasing
  <2>7. /\ q \o h \in Seq(Value) /\ Len(q \o h) = (m - 1) + Len(h)
        /\ q \o h = [p \in 1 .. (m - 1) + Len(h) |-> IF p <= m - 1 THEN q[p] ELSE h[p - (m - 1)]]
    <3>1. /\ q \o h \in Seq(Value) /\ Len(q \o h) = Len(q) + Len(h)
          /\ q \o h = [p \in 1 .. Len(q) + Len(h) |-> IF p <= Len(q) THEN q[p] ELSE h[p - Len(q)]]
      BY Joined
    <3> QED
      BY <2>5, <3>1
  <2>8. \A J \in 1 .. m - 1 : w[I][J] = IF J <= c THEN vs[I][J] ELSE vs[I][J + 1]
    <3> TAKE J \in 1 .. m - 1
    <3>1. J \in 1 .. (m - 1) + Len(h) /\ J <= m - 1
      BY <2>3, <2>4
    <3>2. w[I][J] = q[J]
      BY <2>6, <2>7, <3>1
    <3> QED
      BY <2>2, <2>5, <3>2
  <2>9. I < N => m = d
    BY <1>1, <1>2, <2>2
  <2>10. ASSUME I < N PROVE w[I][d] = s[(b + d) + 1]
    <3>1. m = d /\ Len(h) = 1 /\ h[1] = s[(b + d) + 1]
      BY <2>4, <2>9, <2>10
    <3>2. d \in 1 .. (d - 1) + 1 /\ ~(d <= d - 1) /\ d - (d - 1) = 1
      OBVIOUS
    <3> QED
      BY <2>6, <2>7, <3>1, <3>2
  <2>11. /\ I = i => b + c = k
         /\ I # i => b + c > k
         /\ b + c >= k
    <3>1. CASE I = i
      BY <1>4, <2>1, <2>2, <3>1
    <3>2. CASE I # i
      <4>1. i < I /\ i \in Nat \ {0} /\ I \in Nat \ {0}
        BY <1>2, <1>3, <1>6, <3>2
      <4>2. bi + d <= b
        BY <1>4, <2>2, <4>1, Bases
      <4>3. bi + j = k /\ j \in Nat /\ d \in Nat /\ j < d
        BY <1>3, <1>4
      <4>4. b > k
        BY <4>2, <4>3
      <4> QED
        BY <3>2, <4>4
    <3> QED
      BY <3>1, <3>2
  <2>12. m \in Nat \ {0} /\ m = Len(vs[I])
    BY <2>2, <2>3
  <2>13. PICK g \in Nat : g = Len(h) /\ g = Len(Handed(vs, I))
    BY <2>4
  <2>14. w[I] \in Seq(Value) /\ Len(w[I]) = (m - 1) + g
    BY <2>6, <2>7, <2>13
  <2>15. (I < N => m = d /\ g = 1) /\ (I = N => g = 0)
    BY <2>4, <2>9, <2>13
  <2>16. Losing(d, vs, s, k, i, j, w, I, c, b, m, g)
    BY <1>2, <2>1, <2>2, <2>3, <2>8, <2>10, <2>11, <2>12, <2>13, <2>14, <2>15 DEF Losing
  <2> QED
    BY <2>16
<1> QED
  BY <1>7

LEMMA ErasingFilled ==
  ASSUME NEW d \in Nat \ {0}, NEW vs, NEW s, Chunks(vs, d, s),
         NEW k \in Nat, k < Len(s), NEW i, NEW j, Spot(vs, d, i, j, k)
  PROVE  Filled(Erasing(vs, i, j), d, Without(s, k, k + 1))
<1>1. /\ vs \in Seq(Seq(Value)) /\ s \in Seq(Value) /\ Len(vs) \in Nat \ {0} /\ Len(vs) \in 1 .. Len(vs)
      /\ Len(s) \in Nat
      /\ Len(s) = Base(d, Len(vs)) + Len(vs[Len(vs)])
      /\ \A I \in 1 .. Len(vs) :
           /\ vs[I] \in Seq(Value) /\ Len(vs[I]) \in Nat /\ I \in Nat \ {0} /\ Base(d, I) \in Nat
           /\ Len(vs[I]) <= d
           /\ I < Len(vs) => Len(vs[I]) = d
           /\ \A J \in 1 .. Len(vs[I]) : vs[I][J] = s[Base(d, I) + J] /\ Base(d, I) + J \in 1 .. Len(s)
  <2>1. Filled(vs, d, s)
    BY DEF Chunks
  <2> QED
    BY <2>1, FilledFacts, SMTT(30)
<1>2. PICK N \in Nat \ {0}, L \in Nat : N = Len(vs) /\ L = Len(s) /\ N \in 1 .. N
  BY <1>1
<1>3. i \in 1 .. N /\ j \in Nat /\ j < Len(vs[i]) /\ Base(d, i) + j = k
  <2>1. j < Len(vs[i])
    BY SpotIn
  <2>2. i \in 1 .. Len(vs) /\ j \in 0 .. Len(vs[i]) /\ Base(d, i) + j = k
    BY DEF Spot
  <2> QED
    BY <1>1, <1>2, <2>1, <2>2
<1>4. PICK bi \in Nat : bi = Base(d, i) /\ bi + j = k /\ j < d
  <2>1. Len(vs[i]) <= d /\ Len(vs[i]) \in Nat /\ Base(d, i) \in Nat
    BY <1>1, <1>2, <1>3
  <2> QED
    BY <1>3, <2>1
<1>5. PICK w : w = Erasing(vs, i, j)
  OBVIOUS
<1>6. w = [I \in 1 .. N |-> w[I]] /\ Len(w) = N
  BY <1>2, <1>5 DEF Erasing
<1>7. ASSUME NEW I \in 1 .. N, I < i PROVE w[I] = vs[I]
  BY <1>2, <1>5, <1>7 DEF Erasing
<1>8. ASSUME NEW I \in 1 .. N, ~(I < i)
      PROVE  \E c, b, m, h : Losing(d, vs, s, k, i, j, w, I, c, b, m, h)
  BY <1>2, <1>5, <1>8, LosingNumbers
<1>9. ASSUME NEW I \in 1 .. N
      PROVE  w[I] \in Seq(Value) /\ Len(w[I]) = (IF I = N THEN Len(vs[N]) - 1 ELSE d)
  <2>1. CASE I < i
    <3>1. I < N /\ I # N
      BY <1>2, <1>3, <2>1
    <3> QED
      BY <1>1, <1>2, <1>7, <2>1, <3>1
  <2>2. CASE ~(I < i)
    <3>0. PICK c, b, m, h : Losing(d, vs, s, k, i, j, w, I, c, b, m, h)
      BY <1>8, <2>2
    <3>1. /\ m \in Nat \ {0} /\ h \in Nat /\ m = Len(vs[I])
          /\ (I < N => m = d /\ h = 1) /\ (I = N => h = 0)
          /\ w[I] \in Seq(Value) /\ Len(w[I]) = (m - 1) + h
      BY <1>2, <3>0 DEF Losing
    <3>2. CASE I = N
      BY <3>1, <3>2
    <3>3. CASE I # N
      <4>1. I < N
        BY <1>2, <3>3
      <4> QED
        BY <3>1, <3>3, <4>1
    <3> QED
      BY <3>2, <3>3
  <2> QED
    BY <2>1, <2>2
<1>10. w \in Seq(Seq(Value))
  <2>1. w \in [1 .. N -> Seq(Value)]
    BY <1>6, <1>9
  <2> QED
    BY <1>2, <2>1
<1>11. PICK t \in Seq(Value) :
         /\ t = Without(s, k, k + 1) /\ Len(t) = L - 1
         /\ \A p \in 1 .. L - 1 : t[p] = IF p <= k THEN s[p] ELSE s[p + 1]
  <2>1. /\ Lost(s, k) \in Seq(Value) /\ Len(Lost(s, k)) = Len(s) - 1
        /\ \A J \in 1 .. Len(s) - 1 : Lost(s, k)[J] = IF J <= k THEN s[J] ELSE s[J + 1]
        /\ Without(s, k, k + 1) = Lost(s, k)
    BY <1>1, LostRun, ZenonT(40)
  <2>2. PICK t : t = Lost(s, k)
    OBVIOUS
  <2> QED
    BY <1>2, <2>1, <2>2
<1>12. ASSUME NEW I \in 1 .. N, NEW J \in 1 .. Len(w[I]) PROVE w[I][J] = t[Base(d, I) + J]
  <2>1. PICK b \in Nat, l \in Seq(Value), m \in Nat :
          b = Base(d, I) /\ l = vs[I] /\ m = Len(l) /\ m <= d /\ (I < N => m = d)
    BY <1>1, <1>2
  <2>2. \A p \in 1 .. m : l[p] = s[b + p] /\ b + p \in 1 .. L
    BY <1>1, <1>2, <2>1
  <2>3. J \in Nat /\ J >= 1 /\ J <= d
    <3>1. I = N => Len(w[I]) = m - 1
      BY <1>9, <2>1
    <3>2. I # N => Len(w[I]) = d
      BY <1>9
    <3>3. I \in 1 .. N /\ d \in Nat
      OBVIOUS
    <3>4. CASE I = N
      BY <2>1, <3>1, <3>4
    <3>5. CASE I # N
      BY <3>2, <3>5
    <3> QED
      BY <3>4, <3>5
  <2>4. b + J \in 1 .. L - 1
    <3>1. CASE I = N
      <4>1. Len(w[I]) = m - 1 /\ L = b + m
        BY <1>1, <1>2, <1>9, <2>1, <3>1
      <4>2. J \in 1 .. m - 1 /\ L = b + m
        BY <4>1
      <4> QED
        BY <4>2
    <3>2. CASE I # N
      <4>1. I < N /\ I \in Nat \ {0}
        BY <1>2, <3>2
      <4>2. PICK e \in Nat, f \in Nat : e = Base(d, N) /\ f = Len(vs[N]) /\ L = e + f /\ b + d <= e /\ f > 0
        <5>1. Base(d, N) \in Nat /\ Len(vs[N]) \in Nat /\ L = Base(d, N) + Len(vs[N]) /\ vs[N] \in Seq(Value)
          BY <1>1, <1>2
        <5>2. b + d <= Base(d, N)
          BY <2>1, <4>1, Bases
        <5>3. vs[N] # <<>>
          BY <1>2, <4>1 DEF Chunks
        <5>4. vs[N] # <<>> => Len(vs[N]) # 0
          BY <5>1
        <5>5. Len(vs[N]) > 0
          BY <5>1, <5>3, <5>4
        <5> QED
          BY <5>1, <5>2, <5>5
      <4>3. d \in Nat /\ L = e + f /\ b + d <= e /\ f > 0
        BY <4>2
      <4> QED
        BY <2>3, <4>3
    <3> QED
      BY <3>1, <3>2
  <2>5. t[b + J] = IF b + J <= k THEN s[b + J] ELSE s[(b + J) + 1]
    BY <1>11, <2>4
  <2>6. CASE I < i
    <3>1. w[I] = l /\ J \in 1 .. m
      BY <1>7, <2>1, <2>6
    <3>2. I \in Nat \ {0} /\ i \in Nat \ {0}
      BY <1>2, <1>3
    <3>3. b + d <= bi
      BY <1>4, <2>1, <2>6, <3>2, Bases
    <3>4. bi + j = k /\ j \in Nat /\ d \in Nat
      BY <1>3, <1>4
    <3>5. b + J <= k
      BY <2>3, <3>3, <3>4
    <3> QED
      BY <2>1, <2>2, <2>5, <3>1, <3>5
  <2>7. CASE ~(I < i)
    <3>0. PICK c, B, M, h : Losing(d, vs, s, k, i, j, w, I, c, B, M, h)
      BY <1>8, <2>7
    <3>1. /\ c \in Nat /\ c < m /\ (I = i => b + c = k) /\ (I # i => b + c > k /\ c = 0) /\ b + c >= k
          /\ \A p \in 1 .. m - 1 : w[I][p] = IF p <= c THEN l[p] ELSE l[p + 1]
          /\ I < N => w[I][d] = s[(b + d) + 1]
      BY <1>2, <2>1, <3>0 DEF Losing
    <3>2. (J <= c => b + J <= k) /\ (~(J <= c) => ~(b + J <= k))
      <4>1. CASE I = i
        <5>1. b + c = k /\ c \in Nat /\ J \in Nat
          BY <2>3, <3>1, <4>1
        <5> QED
          BY <5>1
      <4>2. CASE I # i
        <5>1. c = 0 /\ b > k /\ J \in Nat /\ J >= 1
          BY <2>3, <3>1, <4>2
        <5> QED
          BY <5>1
      <4> QED
        BY <4>1, <4>2
    <3>3. CASE J \in 1 .. m - 1
      <4>1. J \in 1 .. m /\ J + 1 \in 1 .. m /\ b + (J + 1) = (b + J) + 1
        BY <2>1, <3>3, SMTT(30)
      <4>2. l[J] = s[b + J] /\ l[J + 1] = s[(b + J) + 1]
        <5>1. l[J] = s[b + J] /\ l[J + 1] = s[b + (J + 1)]
          BY <2>2, <4>1
        <5> QED
          BY <4>1, <5>1
      <4> QED
        BY <2>1, <2>5, <3>1, <3>2, <3>3, <4>2
    <3>4. CASE ~(J \in 1 .. m - 1)
      <4>1. I # N
        <5>1. I = N => Len(w[I]) = m - 1
          BY <1>9, <2>1
        <5> QED
          BY <3>4, <5>1
      <4>2. I < N
        BY <1>2, <4>1
      <4>3. m = d /\ w[I][d] = s[(b + d) + 1]
        BY <2>1, <3>1, <4>2
      <4>4. J = d
        BY <2>3, <3>4, <4>3
      <4>5. ~(J <= c)
        BY <3>1, <4>3, <4>4
      <4> QED
        BY <2>1, <2>5, <3>2, <4>3, <4>4, <4>5
    <3> QED
      BY <3>3, <3>4
  <2> QED
    BY <2>1, <2>6, <2>7
<1>13. ASSUME NEW I \in 1 .. N - 1 PROVE Len(w[I]) = d
  <2>1. I \in 1 .. N /\ I # N
    BY <1>2
  <2> QED
    BY <1>9, <2>1
<1>14. Len(t) = Base(d, N) + Len(w[N]) /\ Len(w[N]) <= d
  <2>1. PICK e \in Nat, f \in Nat : e = Base(d, N) /\ f = Len(vs[N]) /\ L = e + f /\ f <= d
    BY <1>1, <1>2
  <2>2. Len(w[N]) = f - 1 /\ Len(t) = L - 1
    BY <1>2, <1>9, <1>11, <2>1
  <2>3. L - 1 = e + (f - 1) /\ f - 1 <= d
    BY <2>1
  <2> QED
    BY <2>1, <2>2, <2>3
<1>15. Filled(w, d, t)
  BY <1>6, <1>10, <1>11, <1>12, <1>13, <1>14, FillFacts
<1> QED
  BY <1>5, <1>11, <1>15

(* erase of the element that it refers to.                                 *)
LEMMA ErasedChunks ==
  ASSUME NEW vs, NEW d \in Nat \ {0}, NEW s, Chunks(vs, d, s), NEW k \in Nat, k < Len(s),
         NEW it, Refers(vs, d, it, k)
  PROVE  Chunks(Erased(vs, d, it), d, Without(s, k, k + 1))
<1>1. PICK i, j : Referring(vs, d, s, it, i, j, k)
  BY Reference
<1>2. /\ d \in Nat \ {0} /\ Chunks(vs, d, s) /\ Filled(vs, d, s)
      /\ Spot(vs, d, i, j, k) /\ it.vec = i /\ it.deq = j
  BY <1>1 DEF Referring, Chunks
<1>3. PICK N \in Nat \ {0} : N = Len(vs) /\ \A I \in 1 .. N : vs[I] \in Seq(Value) /\ Len(vs[I]) \in Nat
  BY <1>2, FilledFacts
<1>4. i \in 1 .. N /\ j \in Nat /\ j < Len(vs[i])
  <2>1. j < Len(vs[i]) /\ i \in 1 .. Len(vs) /\ j \in 0 .. Len(vs[i])
    BY <1>2, SpotIn DEF Spot
  <2> QED
    BY <1>3, <2>1
<1>5. PICK w : w = Erasing(vs, i, j)
  OBVIOUS
<1>6. Chunks(Trimmed(w), d, Without(s, k, k + 1))
  <2>1. Filled(w, d, Without(s, k, k + 1))
    BY <1>2, <1>5, ErasingFilled
  <2> QED
    BY <1>2, <2>1, TrimmedChunks
<1> DEFINE take(I)  == IF I = it.vec THEN <<"erase", it.deq>> ELSE <<"pop_front">>
           carry(I) == IF I < Len(vs) THEN Puts(<<Head(vs[I + 1])>>) ELSE <<>>
           deq(I)   == IF I < it.vec THEN vs[I] ELSE Do(d, vs[I], <<take(I)>> \o carry(I))
           deqs     == [I \in 1 .. Len(vs) |-> deq(I)]
<1>7. Erased(vs, d, it) = Trimmed(deqs)
  BY DEF Erased
<1>8. ASSUME NEW I \in 1 .. N PROVE deq(I) = w[I]
  <2>0. I \in Nat /\ i \in Nat
    BY <1>3, <1>4
  <2>1. CASE I < i
    <3>1. deq(I) = vs[I]
      BY <1>2, <2>1
    <3>2. w[I] = vs[I]
      BY <1>3, <1>5, <2>1 DEF Erasing
    <3> QED
      BY <3>1, <3>2
  <2>2. CASE ~(I < i)
    <3>1. PICK c, b, m, h : Losing(d, vs, s, k, i, j, w, I, c, b, m, h)
      BY <1>2, <1>3, <1>4, <1>5, <2>2, LosingNumbers
    <3>2. /\ c \in Nat /\ c = (IF I = i THEN j ELSE 0) /\ m = Len(vs[I]) /\ c < m /\ m <= d
          /\ m \in Nat /\ h \in Nat
          /\ h = Len(Handed(vs, I)) /\ (I < N => h = 1) /\ (I = N => h = 0)
      BY <1>3, <3>1 DEF Losing
    <3>3. PICK l \in Seq(Value), g \in Seq(Value), f \in Seq(Value) :
            l = vs[I] /\ g = Handed(vs, I) /\ f = Lost(l, c)
      <4>1. PICK l \in Seq(Value) : l = vs[I]
        BY <1>3
      <4>2. c < Len(l) /\ c \in Nat
        BY <3>2, <4>1
      <4>3. Lost(l, c) \in Seq(Value)
        BY <4>2, LostRun
      <4>4. Handed(vs, I) \in Seq(Value)
        BY <1>2, <1>3, HandedFacts
      <4> QED
        BY <4>1, <4>3, <4>4
    <3>4. Len(f) = m - 1 /\ Run(d, l, <<take(I)>>, f)
      <4>1. c < Len(l) /\ m = Len(l)
        BY <3>2, <3>3
      <4>2. /\ Len(Lost(l, c)) = Len(l) - 1
            /\ Run(d, l, <<<<"erase", c>>>>, Lost(l, c))
            /\ c = 0 => Run(d, l, <<<<"pop_front">>>>, Lost(l, c))
        <5>1. d \in Nat \ {0} /\ c \in Nat /\ c < Len(l)
          BY <1>2, <3>2, <4>1
        <5> QED
          BY <5>1, LostRun
      <4>3. CASE I = i
        <5>1. take(I) = <<"erase", c>>
          BY <1>2, <3>2, <4>3
        <5> QED
          BY <3>3, <4>1, <4>2, <5>1
      <4>4. CASE I # i
        <5>1. take(I) = <<"pop_front">> /\ c = 0
          BY <1>2, <3>2, <4>4
        <5> HIDE DEF take
        <5> QED
          BY <3>3, <4>1, <4>2, <5>1
      <4> QED
        BY <4>3, <4>4
    <3>5. carry(I) = Puts(g)
      <4>1. CASE I < N
        BY <1>2, <1>3, <3>3, <4>1 DEF Handed
      <4>2. CASE ~(I < N)
        <5>1. carry(I) = <<>> /\ g = <<>>
          BY <1>2, <1>3, <3>3, <4>2 DEF Handed
        <5>2. Puts(<<>>) = <<>>
          BY DEF Puts
        <5> HIDE DEF carry
        <5> QED
          BY <5>1, <5>2
      <4> QED
        BY <4>1, <4>2
    <3>6. Len(f) + Len(g) <= d
      <4>1. Len(g) = h /\ h <= 1
        <5>1. Len(g) = h
          BY <3>2, <3>3
        <5>2. (I < N => h = 1) /\ (I = N => h = 0) /\ (I < N \/ I = N)
          BY <1>3, <3>2
        <5> QED
          BY <5>1, <5>2
      <4> QED
        BY <1>2, <3>2, <3>4, <4>1
    <3>7. Do(d, l, <<take(I)>> \o Puts(g)) = f \o g
      <4>1. <<take(I)>> \in Seq({take(I)})
        OBVIOUS
      <4> HIDE DEF take
      <4>2. PICK A, calls : calls = <<take(I)>> /\ calls \in Seq(A)
        BY <4>1
      <4>3. d \in Nat /\ Run(d, l, calls, f)
        BY <1>2, <3>4, <4>2
      <4>4. Do(d, l, calls \o Puts(g)) = f \o g
        <5>1. d \in Nat
          BY <4>3
        <5>2. calls \in Seq(A)
          BY <4>2
        <5>3. Run(d, l, calls, f)
          BY <4>3
        <5> QED
          BY <3>6, <5>1, <5>2, <5>3, ThenPuts
      <4> QED
        BY <4>2, <4>4
    <3>8. deq(I) = Do(d, l, <<take(I)>> \o Puts(g))
      <4> HIDE DEF take, carry
      <4> QED
        BY <1>2, <2>2, <3>3, <3>5
    <3>9. w[I] = f \o g
      BY <1>3, <1>5, <2>2, <3>2, <3>3 DEF Erasing
    <3> HIDE DEF deq, take
    <3> QED
      BY <3>7, <3>8, <3>9
  <2> QED
    BY <2>1, <2>2
<1>9. deqs = w
  <2>1. w = [I \in 1 .. N |-> w[I]]
    BY <1>3, <1>5 DEF Erasing
  <2> HIDE DEF deq
  <2>2. deqs = [I \in 1 .. N |-> deq(I)]
    BY <1>2, <1>3
  <2> QED
    BY <1>8, <2>1, <2>2
<1> QED
  BY <1>2, <1>6, <1>7, <1>9

-----------------------------------------------------------------------------
(* The elements of s behind its first x, up to its first y.                *)
Span(s, x, y) == SubSeq(s, x + 1, y)

LEMMA SpanFacts ==
  ASSUME NEW S, NEW s \in Seq(S), NEW y \in 0 .. Len(s), NEW x \in 0 .. y
  PROVE  /\ Span(s, x, y) \in Seq(S) /\ Len(Span(s, x, y)) = y - x
         /\ \A i \in 1 .. y - x : Span(s, x, y)[i] = s[x + i] /\ x + i \in 1 .. Len(s)
<1>1. PICK n \in Nat : n = Len(s) /\ x \in Nat /\ y \in Nat /\ x <= y /\ y <= n /\ y - x \in Nat
  OBVIOUS
<1>2. \A i \in 1 .. y - x : x + i \in 1 .. n
  BY <1>1
<1>3. \A i \in 1 .. n : s[i] \in S
  BY <1>1
<1>4. SubSeq(s, x + 1, y) = [i \in 1 .. y - x |-> s[x + i]]
  BY <1>1
<1>5. PICK q : q = Span(s, x, y) /\ q = [i \in 1 .. y - x |-> s[x + i]]
  BY <1>4 DEF Span
<1>6. q \in [1 .. y - x -> S]
  BY <1>2, <1>3, <1>5
<1>7. q \in Seq(S) /\ Len(q) = y - x
  BY <1>1, <1>6
<1>8. \A i \in 1 .. y - x : q[i] = s[x + i]
  BY <1>5
<1> QED
  BY <1>1, <1>2, <1>5, <1>7, <1>8

LEMMA SpanIs ==
  ASSUME NEW S, NEW s \in Seq(S), NEW y \in 0 .. Len(s), NEW x \in 0 .. y, NEW q \in Seq(S),
         Len(q) = y - x, \A i \in 1 .. y - x : q[i] = s[x + i]
  PROVE  q = Span(s, x, y)
<1>1. PICK r \in Seq(S) : r = Span(s, x, y) /\ Len(r) = y - x /\ \A i \in 1 .. y - x : r[i] = s[x + i]
  <2>1. /\ Span(s, x, y) \in Seq(S) /\ Len(Span(s, x, y)) = y - x
        /\ \A i \in 1 .. y - x : Span(s, x, y)[i] = s[x + i]
    BY SpanFacts
  <2> QED
    BY <2>1
<1>2. PICK n : n = y - x
  OBVIOUS
<1>3. q = [i \in 1 .. n |-> q[i]] /\ r = [i \in 1 .. n |-> r[i]]
  BY <1>1, <1>2
<1>4. \A i \in 1 .. n : q[i] = r[i]
  BY <1>1, <1>2
<1> QED
  BY <1>1, <1>3, <1>4

LEMMA SpanJoin ==
  ASSUME NEW S, NEW s \in Seq(S), NEW z \in 0 .. Len(s), NEW y \in 0 .. z, NEW x \in 0 .. y
  PROVE  Span(s, x, y) \o Span(s, y, z) = Span(s, x, z)
<1>1. y \in 0 .. Len(s) /\ x \in 0 .. z /\ x \in Nat /\ y \in Nat /\ z \in Nat /\ x <= y /\ y <= z
  OBVIOUS
<1>2. PICK p \in Seq(S) : p = Span(s, x, y) /\ Len(p) = y - x /\ \A i \in 1 .. y - x : p[i] = s[x + i]
  <2>1. /\ Span(s, x, y) \in Seq(S) /\ Len(Span(s, x, y)) = y - x
        /\ \A i \in 1 .. y - x : Span(s, x, y)[i] = s[x + i]
    BY <1>1, SpanFacts
  <2> QED
    BY <2>1
<1>3. PICK q \in Seq(S) : q = Span(s, y, z) /\ Len(q) = z - y /\ \A i \in 1 .. z - y : q[i] = s[y + i]
  <2>1. /\ Span(s, y, z) \in Seq(S) /\ Len(Span(s, y, z)) = z - y
        /\ \A i \in 1 .. z - y : Span(s, y, z)[i] = s[y + i]
    BY <1>1, SpanFacts
  <2> QED
    BY <2>1
<1>4. /\ p \o q \in Seq(S) /\ Len(p \o q) = Len(p) + Len(q)
      /\ p \o q = [i \in 1 .. Len(p) + Len(q) |-> IF i <= Len(p) THEN p[i] ELSE q[i - Len(p)]]
  BY Joined
<1>5. PICK r \in Seq(S) : r = p \o q
  BY <1>4
<1>6. Len(p) + Len(q) = z - x
  BY <1>1, <1>2, <1>3
<1>7. Len(r) = z - x /\ \A i \in 1 .. z - x : r[i] = IF i <= y - x THEN p[i] ELSE q[i - (y - x)]
  BY <1>2, <1>4, <1>5, <1>6
<1>8. \A i \in 1 .. z - x : r[i] = s[x + i]
  <2> TAKE i \in 1 .. z - x
  <2>1. CASE i <= y - x
    <3>1. i \in 1 .. y - x
      BY <1>1, <2>1
    <3> QED
      BY <1>2, <1>7, <2>1, <3>1
  <2>2. CASE ~(i <= y - x)
    <3>1. i - (y - x) \in 1 .. z - y /\ y + (i - (y - x)) = x + i
      BY <1>1, <2>2
    <3> QED
      BY <1>3, <1>7, <2>2, <3>1
  <2> QED
    BY <2>1, <2>2
<1>9. r = Span(s, x, z)
  BY <1>1, <1>7, <1>8, SpanIs
<1> QED
  BY <1>2, <1>3, <1>5, <1>9

LEMMA SpanNone ==
  ASSUME NEW S, NEW s \in Seq(S), NEW x \in 0 .. Len(s)
  PROVE  Span(s, x, x) = <<>>
<1>1. x \in 0 .. x
  OBVIOUS
<1>2. Len(Span(s, x, x)) = x - x /\ Span(s, x, x) \in Seq(S)
  BY <1>1, SpanFacts
<1>3. x - x = 0
  OBVIOUS
<1> QED
  BY <1>2, <1>3

(* A part of a deque is a part of all elements.                            *)
LEMMA SpanOfDeque ==
  ASSUME NEW d \in Nat \ {0}, NEW vs, NEW s, Filled(vs, d, s), NEW I \in 1 .. Len(vs),
         NEW y \in 0 .. Len(vs[I]), NEW x \in 0 .. y
  PROVE  /\ Span(vs[I], x, y) = Span(s, Base(d, I) + x, Base(d, I) + y)
         /\ Base(d, I) \in Nat /\ Base(d, I) + y <= Len(s)
<1>1. PICK l \in Seq(Value), b \in Nat, L \in Nat :
        /\ l = vs[I] /\ b = Base(d, I) /\ L = Len(s) /\ s \in Seq(Value)
        /\ \A j \in 1 .. Len(l) : l[j] = s[b + j] /\ b + j \in 1 .. L
  <2>1. /\ vs[I] \in Seq(Value) /\ Base(d, I) \in Nat /\ s \in Seq(Value) /\ Len(s) \in Nat
        /\ \A j \in 1 .. Len(vs[I]) : vs[I][j] = s[Base(d, I) + j] /\ Base(d, I) + j \in 1 .. Len(s)
    BY FilledFacts
  <2> QED
    BY <2>1
<1>2. PICK m \in Nat : m = Len(l) /\ y \in 0 .. m /\ x \in Nat /\ y \in Nat /\ x <= y
  BY <1>1
<1>3. b + m <= L
  <2>1. CASE m = 0
    <3>1. b <= L
      <4>1. PICK n \in Nat \ {0} : n = Len(vs) /\ I \in 1 .. n /\ L = Base(d, n) + Len(vs[n]) /\ Len(vs[n]) \in Nat
        BY <1>1, FilledFacts
      <4>2. PICK e \in Nat : e = Base(d, n)
        BY <4>1, Bases
      <4>3. I < n => b + d <= e
        <5>1. I \in Nat \ {0} /\ n \in Nat \ {0}
          BY <4>1
        <5>2. I < n => Base(d, I) + d <= Base(d, n)
          BY <5>1, Bases
        <5> QED
          BY <1>1, <4>2, <5>2
      <4>4. I = n => b = e
        BY <1>1, <4>2
      <4>5. L >= e
        BY <4>1, <4>2
      <4>6. d \in Nat /\ (I < n \/ I = n)
        BY <4>1
      <4> QED
        BY <4>3, <4>4, <4>5, <4>6
    <3> QED
      BY <2>1, <3>1
  <2>2. CASE m # 0
    <3>1. m \in 1 .. m
      BY <2>2
    <3> QED
      BY <1>1, <1>2, <3>1
  <2> QED
    BY <2>1, <2>2
<1>4. PICK q \in Seq(Value) : q = Span(l, x, y) /\ Len(q) = y - x /\ \A i \in 1 .. y - x : q[i] = l[x + i]
  <2>1. y \in 0 .. Len(l) /\ x \in 0 .. y
    BY <1>2
  <2>2. /\ Span(l, x, y) \in Seq(Value) /\ Len(Span(l, x, y)) = y - x
        /\ \A i \in 1 .. y - x : Span(l, x, y)[i] = l[x + i]
    BY <2>1, SpanFacts, ZenonT(40)
  <2> QED
    BY <2>2
<1>5. PICK X \in Nat, Y \in Nat : X = b + x /\ Y = b + y /\ Y <= L /\ X <= Y /\ Y - X = y - x
  BY <1>2, <1>3
<1>6. \A i \in 1 .. Y - X : q[i] = s[X + i]
  <2> TAKE i \in 1 .. Y - X
  <2>1. i \in 1 .. y - x /\ x + i \in 1 .. m /\ b + (x + i) = X + i
    BY <1>2, <1>5
  <2>2. q[i] = l[x + i]
    BY <1>4, <2>1
  <2>3. l[x + i] = s[b + (x + i)]
    BY <1>1, <1>2, <2>1
  <2> QED
    BY <2>1, <2>2, <2>3
<1>7. Y \in 0 .. Len(s) /\ X \in 0 .. Y /\ Len(q) = Y - X
  BY <1>1, <1>4, <1>5
<1>8. q = Span(s, X, Y)
  <2>1. s \in Seq(Value)
    BY <1>1
  <2> QED
    BY <1>6, <1>7, <2>1, SpanIs
<1> QED
  BY <1>1, <1>4, <1>5, <1>8

(* Filled deques, the last of them too, or none.                           *)
Packed(vs, d, s) ==
  \/ vs = <<>> /\ s = <<>>
  \/ Filled(vs, d, s) /\ vs[Len(vs)] # <<>>

(* Parts of s of d elements each, the last one at most, are packed.        *)
LEMMA PackedSpans ==
  ASSUME NEW d \in Nat \ {0}, NEW s \in Seq(Value), NEW off \in 0 .. Len(s), NEW M \in Nat,
         NEW w, w = [i \in 1 .. M |-> w[i]],
         M = 0 => off = Len(s),
         M > 0 => off + Base(d, M) < Len(s) /\ Len(s) <= (off + Base(d, M)) + d,
         \A i \in 1 .. M : w[i] = Span(s, off + Base(d, i), IF i < M THEN (off + Base(d, i)) + d ELSE Len(s))
  PROVE  Packed(w, d, Span(s, off, Len(s)))
<1>1. PICK L \in Nat : L = Len(s) /\ off \in Nat /\ off <= L
  OBVIOUS
<1>2. CASE M = 0
  <2>1. w = <<>>
    <3>1. w = [i \in 1 .. 0 |-> w[i]]
      BY <1>2
    <3>2. [i \in 1 .. 0 |-> w[i]] = <<>>
      OBVIOUS
    <3> QED
      BY <3>1, <3>2
  <2>2. Span(s, off, Len(s)) = <<>>
    BY <1>2, SpanNone
  <2> QED
    BY <2>1, <2>2 DEF Packed
<1>3. CASE M # 0
  <2>1. M \in Nat \ {0}
    BY <1>3
  <2>2. PICK e \in Nat : e = Base(d, M) /\ off + e < L /\ L <= (off + e) + d
    <3>1. Base(d, M) \in Nat /\ M > 0
      BY <2>1, Bases
    <3> QED
      BY <1>1, <3>1
  <2>3. ASSUME NEW i \in 1 .. M
        PROVE  \E b \in Nat, y \in Nat :
                 /\ b = Base(d, i) /\ y = (IF i < M THEN (off + b) + d ELSE L)
                 /\ y <= L /\ off + b < y /\ y <= (off + b) + d
                 /\ w[i] \in Seq(Value) /\ Len(w[i]) = y - (off + b)
                 /\ \A j \in 1 .. y - (off + b) : w[i][j] = s[(off + b) + j]
    <3>1. PICK b \in Nat : b = Base(d, i)
      <4>1. i \in Nat \ {0}
        BY <2>1
      <4> QED
        BY <4>1, Bases
    <3>2. i < M => b + d <= e
      <4>1. i \in Nat \ {0}
        BY <2>1
      <4>2. i < M => Base(d, i) + d <= Base(d, M)
        BY <2>1, <4>1, Bases
      <4> QED
        BY <2>2, <3>1, <4>2
    <3>3. PICK y \in Nat : y = (IF i < M THEN (off + b) + d ELSE L)
      BY <1>1
    <3>4. y <= L /\ off + b < y /\ y <= (off + b) + d
      <4>1. CASE i < M
        <5>1. y = (off + b) + d /\ b + d <= e
          BY <3>2, <3>3, <4>1
        <5> QED
          BY <1>1, <2>2, <5>1
      <4>2. CASE ~(i < M)
        <5>1. i = M
          BY <2>1, <4>2
        <5>2. y = L /\ b = e
          BY <2>2, <3>1, <3>3, <4>2, <5>1
        <5> QED
          BY <1>1, <2>2, <5>2
      <4> QED
        BY <4>1, <4>2
    <3>5. PICK x \in Nat : x = off + b
      BY <1>1
    <3>6. w[i] = Span(s, x, y)
      <4>1. w[i] = Span(s, off + Base(d, i), IF i < M THEN (off + Base(d, i)) + d ELSE Len(s))
        OBVIOUS
      <4> QED
        BY <1>1, <3>1, <3>3, <3>5, <4>1
    <3>7. y \in 0 .. Len(s) /\ x \in 0 .. y
      BY <1>1, <3>4, <3>5
    <3>8. /\ Span(s, x, y) \in Seq(Value) /\ Len(Span(s, x, y)) = y - x
          /\ \A j \in 1 .. y - x : Span(s, x, y)[j] = s[x + j]
      BY <3>7, SpanFacts, SMTT(30)
    <3>9. /\ w[i] \in Seq(Value) /\ Len(w[i]) = y - (off + b)
          /\ \A j \in 1 .. y - (off + b) : w[i][j] = s[(off + b) + j]
      BY <3>5, <3>6, <3>8
    <3> QED
      BY <3>1, <3>3, <3>4, <3>9
  <2>4. w \in Seq(Seq(Value)) /\ Len(w) = M
    <3>1. \A i \in 1 .. M : w[i] \in Seq(Value)
      BY <2>3
    <3>2. w \in [1 .. M -> Seq(Value)]
      BY <3>1
    <3> QED
      BY <2>1, <3>2
  <2>5. PICK t \in Seq(Value) :
          t = Span(s, off, Len(s)) /\ Len(t) = L - off /\ \A p \in 1 .. L - off : t[p] = s[off + p]
    <3>1. L \in 0 .. Len(s) /\ off \in 0 .. L
      BY <1>1
    <3>2. /\ Span(s, off, L) \in Seq(Value) /\ Len(Span(s, off, L)) = L - off
          /\ \A p \in 1 .. L - off : Span(s, off, L)[p] = s[off + p]
      BY <3>1, SpanFacts
    <3> QED
      BY <1>1, <3>2
  <2>6. /\ Len(w[M]) <= d /\ Len(t) = Base(d, M) + Len(w[M])
        /\ Len(w[M]) > 0 /\ w[M] \in Seq(Value)
    <3>1. M \in 1 .. M /\ ~(M < M)
      BY <2>1
    <3>2. PICK b \in Nat, y \in Nat :
             /\ b = Base(d, M) /\ y = (IF M < M THEN (off + b) + d ELSE L)
             /\ y <= L /\ off + b < y /\ y <= (off + b) + d
             /\ w[M] \in Seq(Value) /\ Len(w[M]) = y - (off + b)
      BY <2>3, <3>1
    <3>3. y = L /\ b = e
      BY <2>2, <3>1, <3>2
    <3>4. L - (off + e) <= d /\ L - off = e + (L - (off + e)) /\ L - (off + e) > 0
      BY <1>1, <2>2
    <3> QED
      BY <2>2, <2>5, <3>2, <3>3, <3>4
  <2>7. ASSUME NEW i \in 1 .. M - 1 PROVE Len(w[i]) = d
    <3>1. i \in 1 .. M /\ i < M
      BY <2>1
    <3>2. PICK b \in Nat, y \in Nat :
             /\ y = (IF i < M THEN (off + b) + d ELSE L)
             /\ Len(w[i]) = y - (off + b)
      BY <2>3, <3>1
    <3>3. y = (off + b) + d
      BY <3>1, <3>2
    <3>4. ((off + b) + d) - (off + b) = d
      BY <1>1
    <3> QED
      BY <3>2, <3>3, <3>4
  <2>8. ASSUME NEW i \in 1 .. M, NEW j \in 1 .. Len(w[i]) PROVE w[i][j] = t[Base(d, i) + j]
    <3>1. PICK b \in Nat, y \in Nat :
             /\ b = Base(d, i) /\ y <= L /\ off + b < y /\ Len(w[i]) = y - (off + b)
             /\ \A p \in 1 .. y - (off + b) : w[i][p] = s[(off + b) + p]
      BY <2>3
    <3>2. j \in 1 .. y - (off + b)
      BY <3>1
    <3>3. b + j \in 1 .. L - off /\ off + (b + j) = (off + b) + j
      <4>1. y <= L /\ off + b < y
        BY <3>1
      <4> QED
        BY <1>1, <3>2, <4>1
    <3>4. t[b + j] = s[off + (b + j)]
      BY <2>5, <3>3
    <3> QED
      BY <3>1, <3>2, <3>3, <3>4
  <2>9. Filled(w, d, t)
    BY <2>1, <2>4, <2>6, <2>7, <2>8, FillFacts
  <2>10. w[Len(w)] # <<>>
    BY <2>4, <2>6
  <2> QED
    BY <2>5, <2>9, <2>10 DEF Packed
<1> QED
  BY <1>2, <1>3

LEMMA PackedFacts ==
  ASSUME NEW d, NEW vs, NEW s, Packed(vs, d, s)
  PROVE  /\ vs \in Seq(Seq(Value)) /\ s \in Seq(Value) /\ Len(vs) \in Nat
         /\ vs # <<>> => Chunks(vs, d, s)
<1>1. CASE vs = <<>> /\ s = <<>>
  <2>1. <<>> \in Seq(Seq(Value)) /\ <<>> \in Seq(Value) /\ Len(<<>>) = 0
    OBVIOUS
  <2> QED
    BY <1>1, <2>1
<1>2. CASE Filled(vs, d, s) /\ vs[Len(vs)] # <<>>
  <2>1. vs \in Seq(Seq(Value)) /\ s \in Seq(Value)
    BY <1>2 DEF Filled
  <2> QED
    BY <1>2, <2>1 DEF Chunks
<1> QED
  BY <1>1, <1>2 DEF Packed

LEMMA PackedJoin ==
  ASSUME NEW d \in Nat \ {0}, NEW a, NEW b, NEW s, NEW t, Packed(a, d, s), Packed(b, d, t),
         b # <<>> => Len(s) = Base(d, Len(a) + 1)
  PROVE  Packed(a \o b, d, s \o t)
<1>1. /\ a \in Seq(Seq(Value)) /\ b \in Seq(Seq(Value)) /\ s \in Seq(Value) /\ t \in Seq(Value)
      /\ Len(a) \in Nat /\ Len(b) \in Nat
  BY PackedFacts
<1>2. CASE a = <<>>
  <2>1. s = <<>>
    BY <1>2 DEF Packed, Filled
  <2>2. a \o b = b /\ s \o t = t
    BY <1>1, <1>2, <2>1, ConcatEmptySeq
  <2> QED
    BY <2>2
<1>3. CASE b = <<>>
  <2>1. t = <<>>
    BY <1>3 DEF Packed, Filled
  <2>2. a \o b = a /\ s \o t = s
    BY <1>1, <1>3, <2>1, ConcatEmptySeq
  <2> QED
    BY <2>2
<1>4. CASE a # <<>> /\ b # <<>>
  <2>1. Filled(a, d, s) /\ Filled(b, d, t) /\ b[Len(b)] # <<>>
    BY <1>4 DEF Packed
  <2>2. PICK A \in Nat \ {0}, B \in Nat \ {0}, F \in Nat, T \in Nat :
          A = Len(a) /\ B = Len(b) /\ F = Len(s) /\ T = Len(t)
    BY <1>1, <2>1 DEF Filled
  <2>3. F = A * d /\ F = Base(d, A + 1) /\ Len(a[A]) = d
    <3>1. F = Base(d, A + 1)
      BY <1>4, <2>2
    <3>2. Base(d, A + 1) = Base(d, A) + d /\ Base(d, A) \in Nat
      BY Bases
    <3>3. F = Base(d, A) + Len(a[A]) /\ Len(a[A]) \in Nat
      BY <2>1, <2>2, FilledFacts
    <3>4. Base(d, A + 1) = A * d
      BY DEF Base
    <3>5. PICK e \in Nat, n \in Nat : e = Base(d, A) /\ n = Len(a[A]) /\ F = e + n /\ F = e + d
      BY <3>1, <3>2, <3>3
    <3>6. n = d
      BY <3>5
    <3> QED
      BY <3>1, <3>4, <3>5, <3>6
  <2>4. ASSUME NEW i \in Nat \ {0} PROVE Base(d, A + i) = F + Base(d, i) /\ Base(d, i) \in Nat
    <3>1. Base(d, i + A) = Base(d, i) + A * d /\ Base(d, i) \in Nat
      BY BaseSum
    <3>2. i + A = A + i
      OBVIOUS
    <3>3. PICK e \in Nat : e = Base(d, i)
      BY <3>1
    <3>4. e + F = F + e
      OBVIOUS
    <3> QED
      BY <2>3, <3>1, <3>2, <3>3, <3>4
  <2>5. PICK w \in Seq(Seq(Value)) :
          /\ w = a \o b /\ Len(w) = A + B
          /\ \A i \in 1 .. A + B : w[i] = IF i <= A THEN a[i] ELSE b[i - A]
    <3>1. /\ a \o b \in Seq(Seq(Value)) /\ Len(a \o b) = Len(a) + Len(b)
          /\ a \o b = [i \in 1 .. Len(a) + Len(b) |-> IF i <= Len(a) THEN a[i] ELSE b[i - Len(a)]]
      BY <1>1, Joined
    <3>2. PICK w : w = a \o b
      OBVIOUS
    <3> QED
      BY <2>2, <3>1, <3>2
  <2>6. PICK u \in Seq(Value) :
          /\ u = s \o t /\ Len(u) = F + T
          /\ \A i \in 1 .. F + T : u[i] = IF i <= F THEN s[i] ELSE t[i - F]
    <3>1. /\ s \o t \in Seq(Value) /\ Len(s \o t) = Len(s) + Len(t)
          /\ s \o t = [i \in 1 .. Len(s) + Len(t) |-> IF i <= Len(s) THEN s[i] ELSE t[i - Len(s)]]
      BY <1>1, Joined
    <3>2. PICK u : u = s \o t
      OBVIOUS
    <3> QED
      BY <2>2, <3>1, <3>2
  <2>7. \A i \in 1 .. A : w[i] = a[i]
    BY <2>5
  <2>8. \A i \in 1 .. B : w[A + i] = b[i]
    <3> TAKE i \in 1 .. B
    <3>1. A + i \in 1 .. A + B /\ ~(A + i <= A) /\ (A + i) - A = i
      OBVIOUS
    <3> QED
      BY <2>5, <3>1
  <2>9. /\ \A i \in 1 .. A : /\ Len(a[i]) = d /\ Base(d, i) \in Nat
                             /\ \A j \in 1 .. Len(a[i]) : a[i][j] = s[Base(d, i) + j] /\ Base(d, i) + j \in 1 .. F
        /\ \A i \in 1 .. B : /\ Len(b[i]) <= d /\ (i < B => Len(b[i]) = d)
                             /\ \A j \in 1 .. Len(b[i]) : b[i][j] = t[Base(d, i) + j] /\ Base(d, i) + j \in 1 .. T
        /\ T = Base(d, B) + Len(b[B]) /\ Len(b[B]) \in Nat /\ b[B] \in Seq(Value)
    <3>1. \A i \in 1 .. A : /\ i < A => Len(a[i]) = d
                            /\ Base(d, i) \in Nat
                            /\ \A j \in 1 .. Len(a[i]) : a[i][j] = s[Base(d, i) + j] /\ Base(d, i) + j \in 1 .. F
      <4>1. \A i \in 1 .. Len(a) :
              /\ i < Len(a) => Len(a[i]) = d
              /\ Base(d, i) \in Nat
              /\ \A j \in 1 .. Len(a[i]) : a[i][j] = s[Base(d, i) + j] /\ Base(d, i) + j \in 1 .. Len(s)
        <5>1. Filled(a, d, s)
          BY <2>1
        <5> QED
          BY <5>1, FilledFacts
      <4> QED
        BY <2>2, <4>1
    <3>2. \A i \in 1 .. A : Len(a[i]) = d
      <4> TAKE i \in 1 .. A
      <4>1. i < A \/ i = A
        OBVIOUS
      <4> QED
        BY <2>3, <3>1, <4>1
    <3>3. /\ \A i \in 1 .. B : /\ Len(b[i]) <= d /\ (i < B => Len(b[i]) = d)
                               /\ \A j \in 1 .. Len(b[i]) : b[i][j] = t[Base(d, i) + j] /\ Base(d, i) + j \in 1 .. T
          /\ T = Base(d, B) + Len(b[B]) /\ Len(b[B]) \in Nat /\ b[B] \in Seq(Value)
      <4>1. /\ \A i \in 1 .. Len(b) :
                 /\ Len(b[i]) <= d /\ (i < Len(b) => Len(b[i]) = d)
                 /\ Len(b[i]) \in Nat /\ b[i] \in Seq(Value)
                 /\ \A j \in 1 .. Len(b[i]) : b[i][j] = t[Base(d, i) + j] /\ Base(d, i) + j \in 1 .. Len(t)
            /\ Len(t) = Base(d, Len(b)) + Len(b[Len(b)]) /\ Len(b) \in 1 .. Len(b)
        <5>1. Filled(b, d, t)
          BY <2>1
        <5> QED
          BY <5>1, FilledFacts, SMTT(30)
      <4> QED
        BY <2>2, <4>1
    <3> QED
      BY <3>1, <3>2, <3>3
  <2>10. B \in 1 .. B /\ A + B \in Nat \ {0} /\ w[A + B] = b[B]
    BY <2>8
  <2>11. Len(u) = Base(d, A + B) + Len(w[A + B]) /\ Len(w[A + B]) <= d
    <3>1. PICK e \in Nat, n \in Nat : e = Base(d, B) /\ n = Len(b[B]) /\ T = e + n /\ n <= d /\ Base(d, A + B) = F + e
      BY <2>4, <2>9, <2>10
    <3>2. F + T = (F + e) + n
      BY <3>1
    <3> QED
      BY <2>6, <2>10, <3>1, <3>2
  <2>12. ASSUME NEW i \in 1 .. (A + B) - 1 PROVE Len(w[i]) = d
    <3>1. CASE i <= A
      <4>1. i \in 1 .. A
        BY <3>1
      <4> QED
        BY <2>7, <2>9, <4>1
    <3>2. CASE ~(i <= A)
      <4>1. PICK k \in 1 .. B : k = i - A /\ i = A + k /\ k < B
        <5>1. i - A \in 1 .. B /\ i = A + (i - A) /\ i - A < B
          BY <3>2
        <5> QED
          BY <5>1
      <4>2. Len(b[k]) = d
        BY <2>9, <4>1
      <4>3. w[i] = b[k]
        BY <2>8, <4>1
      <4> QED
        BY <4>2, <4>3
    <3> QED
      BY <3>1, <3>2
  <2>13. ASSUME NEW i \in 1 .. A + B, NEW j \in 1 .. Len(w[i]) PROVE w[i][j] = u[Base(d, i) + j]
    <3>1. CASE i <= A
      <4>1. i \in 1 .. A
        BY <3>1
      <4>2. PICK e \in Nat : e = Base(d, i) /\ a[i][j] = s[e + j] /\ e + j \in 1 .. F
        BY <2>7, <2>9, <4>1
      <4>3. e + j \in 1 .. F + T /\ e + j <= F
        BY <4>2
      <4> QED
        BY <2>6, <2>7, <4>1, <4>2, <4>3
    <3>2. CASE ~(i <= A)
      <4>1. PICK k \in 1 .. B : i = A + k
        <5>1. i - A \in 1 .. B /\ i = A + (i - A)
          BY <3>2
        <5> QED
          BY <5>1
      <4>2. w[i] = b[k]
        BY <2>8, <4>1
      <4>3. PICK e \in Nat : e = Base(d, k) /\ Base(d, i) = F + e
        <5>1. k \in Nat \ {0}
          OBVIOUS
        <5> QED
          BY <2>4, <4>1, <5>1
      <4>4. b[k][j] = t[e + j] /\ e + j \in 1 .. T
        BY <2>9, <4>2, <4>3
      <4>5. j \in Nat
        OBVIOUS
      <4>6. (F + e) + j \in 1 .. F + T /\ ~((F + e) + j <= F) /\ ((F + e) + j) - F = e + j
        <5>1. e + j \in 1 .. T
          BY <4>4
        <5> QED
          BY <4>5, <5>1
      <4> QED
        BY <2>6, <4>2, <4>3, <4>4, <4>6
    <3> QED
      BY <3>1, <3>2
  <2>14. Filled(w, d, u)
    BY <2>5, <2>6, <2>10, <2>11, <2>12, <2>13, FillFacts
  <2>15. w[Len(w)] # <<>>
    BY <2>1, <2>2, <2>5, <2>10
  <2> QED
    BY <2>5, <2>6, <2>14, <2>15 DEF Packed
<1> QED
  BY <1>2, <1>3, <1>4

-----------------------------------------------------------------------------
(* erase of a range.                                                       *)
(* The deques in front of the ath.                                         *)
LEMMA FrontPacked ==
  ASSUME NEW d \in Nat \ {0}, NEW vs, NEW s, Filled(vs, d, s), NEW a \in 1 .. Len(vs)
  PROVE  /\ Packed(SubSeq(vs, 1, a - 1), d, Span(s, 0, Base(d, a)))
         /\ Len(SubSeq(vs, 1, a - 1)) = a - 1
         /\ Base(d, a) \in 0 .. Len(s) /\ Len(Span(s, 0, Base(d, a))) = Base(d, (a - 1) + 1)
<1>1. /\ vs \in Seq(Seq(Value)) /\ s \in Seq(Value) /\ Len(vs) \in Nat \ {0} /\ Len(s) \in Nat
      /\ \A i \in 1 .. Len(vs) :
           /\ i < Len(vs) => Len(vs[i]) = d
           /\ Base(d, i) \in Nat
           /\ \A j \in 1 .. Len(vs[i]) : vs[i][j] = s[Base(d, i) + j]
  BY FilledFacts
<1>2. PICK m \in Nat : m = a - 1 /\ a = m + 1 /\ m \in 0 .. Len(vs) /\ a \in Nat \ {0}
  BY <1>1
<1>3. PICK e \in Nat : e = Base(d, a) /\ e <= Len(s)
  <2>1. 0 \in 0 .. Len(vs[a]) /\ 0 \in 0 .. 0
    <3>1. Len(vs[a]) \in Nat
      BY FilledFacts
    <3> QED
      BY <3>1
  <2>2. Base(d, a) \in Nat /\ Base(d, a) + 0 <= Len(s)
    BY <2>1, SpanOfDeque
  <2> QED
    BY <2>2
<1>4. PICK f \in Seq(Seq(Value)) : f = SubSeq(vs, 1, m) /\ Len(f) = m /\ \A i \in 1 .. m : f[i] = vs[i]
  <2>1. m \in 0 .. Len(vs)
    BY <1>2
  <2>2. /\ SubSeq(vs, 1, m) \in Seq(Seq(Value)) /\ Len(SubSeq(vs, 1, m)) = m
        /\ \A i \in 1 .. m : SubSeq(vs, 1, m)[i] = vs[i]
    BY <1>1, <2>1, Shortened
  <2> QED
    BY <2>2
<1>5. PICK t \in Seq(Value) : t = Span(s, 0, e) /\ Len(t) = e /\ \A i \in 1 .. e : t[i] = s[i]
  <2>1. e \in 0 .. Len(s) /\ 0 \in 0 .. e /\ s \in Seq(Value)
    BY <1>1, <1>3
  <2>2. /\ Span(s, 0, e) \in Seq(Value) /\ Len(Span(s, 0, e)) = e - 0
        /\ \A i \in 1 .. e - 0 : Span(s, 0, e)[i] = s[0 + i]
    BY <2>1, SpanFacts, ZenonT(40)
  <2>3. e - 0 = e /\ \A i \in 1 .. e : 0 + i = i
    OBVIOUS
  <2> QED
    BY <2>2, <2>3
<1>6. CASE m = 0
  <2>1. f = <<>>
    BY <1>4, <1>6
  <2>2. e = 0
    BY <1>2, <1>3, <1>6 DEF Base
  <2>3. t = <<>>
    BY <1>5, <2>2
  <2>4. Packed(f, d, t)
    BY <2>1, <2>3 DEF Packed
  <2> QED
    BY <1>1, <1>2, <1>3, <1>4, <1>5, <2>4
<1>7. CASE m # 0
  <2>1. m \in Nat \ {0} /\ m \in 1 .. m
    BY <1>7
  <2>2. ASSUME NEW i \in 1 .. m
        PROVE  f[i] = vs[i] /\ Len(f[i]) = d /\ Base(d, i) + d <= e /\ Base(d, i) \in Nat /\ i \in 1 .. Len(vs)
    <3>1. i \in 1 .. Len(vs) /\ i < Len(vs) /\ i \in Nat \ {0} /\ i < a
      BY <1>1, <1>2
    <3>2. Base(d, i) + d <= e
      BY <1>2, <1>3, <3>1, Bases, SMTT(30)
    <3> QED
      BY <1>1, <1>4, <3>1, <3>2
  <2>3. e = Base(d, m) + d
    <3>1. Base(d, m + 1) = Base(d, m) + d
      BY <2>1, Bases
    <3> QED
      BY <1>2, <1>3, <3>1
  <2>4. Len(t) = Base(d, m) + Len(f[m]) /\ Len(f[m]) <= d
    BY <1>5, <2>1, <2>2, <2>3
  <2>5. ASSUME NEW i \in 1 .. m, NEW j \in 1 .. Len(f[i]) PROVE f[i][j] = t[Base(d, i) + j]
    <3>1. PICK b \in Nat : b = Base(d, i) /\ b + d <= e /\ f[i] = vs[i] /\ Len(f[i]) = d /\ i \in 1 .. Len(vs)
      BY <2>2
    <3>2. j \in 1 .. d /\ j \in 1 .. Len(vs[i])
      BY <3>1
    <3>3. b + j \in 1 .. e
      <4>1. b + d <= e /\ j \in 1 .. d
        BY <3>1, <3>2
      <4> QED
        BY <4>1
    <3>4. vs[i][j] = s[b + j]
      BY <1>1, <3>1, <3>2
    <3> QED
      BY <1>5, <3>1, <3>3, <3>4
  <2>6. \A i \in 1 .. m - 1 : Len(f[i]) = d
    <3>1. \A i \in 1 .. m - 1 : i \in 1 .. m
      OBVIOUS
    <3> QED
      BY <2>2, <3>1
  <2>7. Filled(f, d, t)
    BY <1>4, <2>1, <2>4, <2>5, <2>6, FillFacts
  <2>8. f[Len(f)] # <<>>
    BY <1>4, <2>1, <2>2
  <2>9. Packed(f, d, t)
    BY <2>7, <2>8 DEF Packed
  <2> QED
    BY <1>1, <1>2, <1>3, <1>4, <1>5, <2>9
<1> QED
  BY <1>6, <1>7

(* How many deques a multiple of d elements fills.                         *)
LEMMA CeilingExact ==
  ASSUME NEW d \in Nat \ {0}, NEW m \in Nat
  PROVE  Ceil(m * d, d) = m
<1>1. PICK c \in Nat, n \in Nat : c = Ceil(m * d, d) /\ n = m * d /\ n <= c * d /\ c * d < n + d
  <2>1. m * d \in Nat
    OBVIOUS
  <2>2. PICK n \in Nat : n = m * d
    BY <2>1
  <2>3. Ceil(n, d) \in Nat /\ n <= Ceil(n, d) * d /\ Ceil(n, d) * d < n + d
    BY Ceiling
  <2> QED
    BY <2>2, <2>3
<1>2. ~(c < m)
  <2>1. SUFFICES ASSUME c < m PROVE FALSE
    OBVIOUS
  <2>2. PICK r \in Nat : m = c + 1 + r
    <3>1. m - c - 1 \in Nat /\ m = c + 1 + (m - c - 1)
      BY <2>1
    <3> QED
      BY <3>1
  <2>3. m * d = c * d + d + r * d /\ r * d \in Nat /\ c * d \in Nat
    BY <2>2
  <2> QED
    BY <1>1, <2>3
<1>3. ~(m < c)
  <2>1. SUFFICES ASSUME m < c PROVE FALSE
    OBVIOUS
  <2>2. PICK r \in Nat : c = m + 1 + r
    <3>1. c - m - 1 \in Nat /\ c = m + 1 + (c - m - 1)
      BY <2>1
    <3> QED
      BY <3>1
  <2>3. c * d = m * d + d + r * d /\ r * d \in Nat /\ m * d \in Nat
    BY <2>2
  <2> QED
    BY <1>1, <2>3
<1>4. c = m
  BY <1>2, <1>3
<1> QED
  BY <1>1, <1>4

(* What was put aside, in new deques.                                      *)
LEMMA SavedPacked ==
  ASSUME NEW d \in Nat \ {0}, NEW xs \in Seq(Value), NEW w,
         w = [i \in 1 .. Ceil(Len(xs), d) |->
                Do(d, <<>>, Puts(SubSeq(xs, (i - 1) * d + 1, Least(i * d, Len(xs)))))]
  PROVE  Packed(w, d, xs) /\ Len(w) = Ceil(Len(xs), d)
<1>1. PICK n \in Nat, c \in Nat : n = Len(xs) /\ c = Ceil(Len(xs), d) /\ n <= c * d /\ c * d < n + d
  <2>1. PICK n \in Nat : n = Len(xs)
    OBVIOUS
  <2>2. Ceil(n, d) \in Nat /\ n <= Ceil(n, d) * d /\ Ceil(n, d) * d < n + d
    BY Ceiling
  <2> QED
    BY <2>1, <2>2
<1>2. w = [i \in 1 .. c |-> w[i]] /\ Len(w) = c
  BY <1>1
<1>3. c = 0 => 0 = n
  BY <1>1
<1>4. c > 0 => Base(d, c) < n /\ n <= Base(d, c) + d /\ Base(d, c) \in Nat
  <2>1. SUFFICES ASSUME c > 0 PROVE Base(d, c) < n /\ n <= Base(d, c) + d /\ Base(d, c) \in Nat
    OBVIOUS
  <2>2. PICK e \in Nat : e = Base(d, c) /\ c * d = e + d
    <3>1. (c - 1) * d \in Nat /\ c * d = (c - 1) * d + d
      BY <2>1
    <3> QED
      BY <3>1 DEF Base
  <2>3. n <= e + d /\ e + d < n + d
    BY <1>1, <2>2
  <2>4. e < n
    BY <2>3
  <2> QED
    BY <2>2, <2>3, <2>4
<1>5. ASSUME NEW i \in 1 .. c
      PROVE  w[i] = Span(xs, 0 + Base(d, i), IF i < c THEN (0 + Base(d, i)) + d ELSE n)
  <2>1. PICK b \in Nat : b = Base(d, i) /\ i * d = b + d /\ b = (i - 1) * d
    <3>1. (i - 1) * d \in Nat /\ i * d = (i - 1) * d + d
      OBVIOUS
    <3> QED
      BY <3>1 DEF Base
  <2>2. PICK y \in Nat : y = (IF i < c THEN b + d ELSE n) /\ y = Least(i * d, n) /\ b < y /\ y <= n /\ y <= b + d
    <3>1. CASE i < c
      <4>1. b + d <= Base(d, c) /\ c > 0
        <5>1. i \in Nat \ {0} /\ c \in Nat \ {0} /\ c > 0
          BY <3>1
        <5>2. Base(d, i) + d <= Base(d, c)
          BY <3>1, <5>1, Bases
        <5> QED
          BY <2>1, <5>1, <5>2
      <4>2. PICK e \in Nat : e = Base(d, c) /\ b + d <= e /\ e < n
        BY <1>4, <4>1
      <4>3. b + d < n
        BY <4>2
      <4>4. Least(i * d, n) = b + d
        BY <2>1, <4>3 DEF Least
      <4> QED
        BY <3>1, <4>3, <4>4
    <3>2. CASE ~(i < c)
      <4>1. i = c /\ c > 0
        BY <3>2
      <4>2. b < n /\ n <= b + d
        BY <1>4, <2>1, <4>1
      <4>3. Least(i * d, n) = n
        <5>1. b + d < n => FALSE
          BY <4>2
        <5> QED
          BY <2>1, <5>1 DEF Least
      <4> QED
        BY <3>2, <4>2, <4>3
    <3> QED
      BY <3>1, <3>2
  <2>3. PICK q \in Seq(Value) : q = Span(xs, b, y) /\ Len(q) = y - b
    <3>1. y \in 0 .. Len(xs) /\ b \in 0 .. y
      BY <1>1, <2>2
    <3>2. Span(xs, b, y) \in Seq(Value) /\ Len(Span(xs, b, y)) = y - b
      BY <3>1, SpanFacts
    <3> QED
      BY <3>2
  <2>4. SubSeq(xs, (i - 1) * d + 1, Least(i * d, Len(xs))) = q
    BY <1>1, <2>1, <2>2, <2>3 DEF Span
  <2>5. Do(d, <<>>, Puts(q)) = q
    <3>1. PICK none \in Seq(Value) : none = <<>> /\ Len(none) = 0
      <4>1. <<>> \in Seq(Value) /\ Len(<<>>) = 0
        OBVIOUS
      <4> QED
        BY <4>1
    <3>2. Len(none) + Len(q) <= d
      BY <2>2, <2>3, <3>1
    <3>3. Do(d, none, Puts(q)) = none \o q
      BY <3>2, PutsDo
    <3>4. none \o q = q
      BY <3>1, ConcatEmptySeq
    <3> QED
      BY <3>1, <3>3, <3>4
  <2>6. w[i] = q
    BY <1>1, <2>4, <2>5
  <2>7. 0 + Base(d, i) = b
    BY <2>1
  <2> QED
    BY <2>2, <2>3, <2>6, <2>7
<1>6. Packed(w, d, Span(xs, 0, Len(xs)))
  <2>1. 0 \in 0 .. Len(xs)
    BY <1>1
  <2>2. c = 0 => 0 = Len(xs)
    BY <1>1, <1>3
  <2>3. c > 0 => 0 + Base(d, c) < Len(xs) /\ Len(xs) <= (0 + Base(d, c)) + d
    BY <1>1, <1>4
  <2>4. \A i \in 1 .. c : w[i] = Span(xs, 0 + Base(d, i), IF i < c THEN (0 + Base(d, i)) + d ELSE Len(xs))
    BY <1>1, <1>5
  <2>5. w = [i \in 1 .. c |-> w[i]]
    BY <1>2
  <2> QED
    BY <2>1, <2>2, <2>3, <2>4, <2>5, PackedSpans
<1>7. Span(xs, 0, Len(xs)) = xs
  BY DEF Span
<1> QED
  BY <1>1, <1>2, <1>6, <1>7

(* The elements of the Ith deque that move to the one before it.           *)
Taken(vs, move, I) == IF I <= Len(vs) THEN SubSeq(vs[I], 1, Least(move, Len(vs[I]))) ELSE <<>>

LEMMA TakenFacts ==
  ASSUME NEW d \in Nat \ {0}, NEW vs, NEW s, Filled(vs, d, s), NEW move \in 0 .. d - 1, NEW I \in 1 .. Len(vs)
  PROVE  \E c \in 0 .. Len(vs[I]) :
           /\ c = Least(move, Len(vs[I])) /\ c <= move
           /\ I < Len(vs) => c = move
           /\ Taken(vs, move, I) \in Seq(Value) /\ Len(Taken(vs, move, I)) = c
           /\ Taken(vs, move, I) = Span(s, Base(d, I), Base(d, I) + c)
           /\ Base(d, I) \in Nat /\ Base(d, I) + c <= Len(s)
<1>1. PICK l \in Seq(Value), m \in Nat :
         l = vs[I] /\ m = Len(l) /\ m <= d /\ (I < Len(vs) => m = d) /\ s \in Seq(Value) /\ I <= Len(vs)
  <2>1. /\ vs[I] \in Seq(Value) /\ Len(vs[I]) \in Nat /\ Len(vs[I]) <= d
        /\ (I < Len(vs) => Len(vs[I]) = d) /\ s \in Seq(Value) /\ Len(vs) \in Nat
    BY FilledWhole, FilledAt
  <2> QED
    BY <2>1
<1>2. PICK c \in 0 .. m : c = Least(move, m) /\ c <= move /\ (m = d => c = move)
  <2>1. move \in Nat /\ move < d
    OBVIOUS
  <2>2. CASE move < m
    <3>1. Least(move, m) = move /\ move \in 0 .. m
      BY <2>1, <2>2 DEF Least
    <3> QED
      BY <3>1
  <2>3. CASE ~(move < m)
    <3>1. Least(move, m) = m /\ m \in 0 .. m /\ m <= move /\ m # d
      BY <2>1, <2>3 DEF Least
    <3> QED
      BY <3>1
  <2> QED
    BY <2>2, <2>3
<1>3. 0 \in 0 .. c /\ c \in 0 .. Len(vs[I])
  BY <1>1
<1>4. /\ Span(vs[I], 0, c) = Span(s, Base(d, I) + 0, Base(d, I) + c)
      /\ Base(d, I) \in Nat /\ Base(d, I) + c <= Len(s)
  BY <1>3, SpanOfDeque
<1>5. PICK b \in Nat : b = Base(d, I) /\ b + 0 = b
  BY <1>4
<1>6. Taken(vs, move, I) = Span(vs[I], 0, c)
  BY <1>1, <1>2 DEF Taken, Span
<1>7. Span(vs[I], 0, c) \in Seq(Value) /\ Len(Span(vs[I], 0, c)) = c - 0
  <2>1. c \in 0 .. Len(l) /\ 0 \in 0 .. c
    BY <1>1
  <2>2. Span(l, 0, c) \in Seq(Value) /\ Len(Span(l, 0, c)) = c - 0
    BY <2>1, SpanFacts
  <2> QED
    BY <1>1, <2>2
<1>8. c - 0 = c
  OBVIOUS
<1> QED
  BY <1>1, <1>2, <1>3, <1>4, <1>5, <1>6, <1>7, <1>8

(* A deque that gives up its first elements, for those of the next.        *)
LaterOne(vs, d, move, I) ==
  Do(d, vs[I], [j \in 1 .. Len(Taken(vs, move, I)) |-> <<"pop_front">>] \o Puts(Taken(vs, move, I + 1)))

LEMMA LaterDeque ==
  ASSUME NEW d \in Nat \ {0}, NEW vs, NEW s, Filled(vs, d, s), NEW move \in 0 .. d - 1, NEW I \in 1 .. Len(vs)
  PROVE  LaterOne(vs, d, move, I)
         = Span(s, Base(d, I) + Least(move, Len(vs[I])),
                IF I < Len(vs) THEN (Base(d, I) + d) + Least(move, Len(vs[I + 1])) ELSE Len(s))
<1>1. PICK l \in Seq(Value), m \in Nat, b \in Nat :
         /\ l = vs[I] /\ m = Len(l) /\ m <= d /\ b = Base(d, I) /\ b + m <= Len(s)
         /\ (I < Len(vs) => m = d) /\ (I = Len(vs) => b + m = Len(s))
         /\ s \in Seq(Value) /\ I \in Nat \ {0} /\ Len(vs) \in Nat
  <2>1. /\ vs[I] \in Seq(Value) /\ Len(vs[I]) \in Nat /\ Len(vs[I]) <= d
        /\ (I < Len(vs) => Len(vs[I]) = d) /\ s \in Seq(Value) /\ Len(vs) \in Nat
        /\ Len(s) = Base(d, Len(vs)) + Len(vs[Len(vs)])
    <3>1. s \in Seq(Value) /\ Len(vs) \in Nat /\ Len(s) = Base(d, Len(vs)) + Len(vs[Len(vs)])
      BY FilledWhole
    <3> QED
      BY <3>1, FilledAt
  <2>2. 0 \in 0 .. Len(vs[I]) /\ Len(vs[I]) \in 0 .. Len(vs[I])
    BY <2>1
  <2>3. Base(d, I) \in Nat /\ Base(d, I) + Len(vs[I]) <= Len(s)
    BY <2>2, SpanOfDeque
  <2>4. I \in Nat \ {0}
    BY <2>1
  <2> QED
    BY <2>1, <2>3, <2>4
<1>2. PICK c \in 0 .. m : c = Least(move, m) /\ c <= move /\ (I < Len(vs) => c = move) /\ Len(Taken(vs, move, I)) = c
  <2>1. \E c \in 0 .. Len(vs[I]) : /\ c = Least(move, Len(vs[I])) /\ c <= move
                                   /\ (I < Len(vs) => c = move) /\ Len(Taken(vs, move, I)) = c
    BY TakenFacts
  <2> QED
    BY <1>1, <2>1
<1>3. PICK z \in Nat : z = Len(s)
  BY <1>1
<1>4. PICK t \in Seq(Value), e \in Nat :
         /\ t = Taken(vs, move, I + 1) /\ e = Len(t) /\ (I < Len(vs) => e <= move)
         /\ (I = Len(vs) => e = 0) /\ t = Span(s, b + m, (b + m) + e) /\ (b + m) + e <= z
         /\ (I < Len(vs) => e = Least(move, Len(vs[I + 1])))
  <2>1. CASE I < Len(vs)
    <3>1. I + 1 \in 1 .. Len(vs)
      BY <1>1, <2>1
    <3>2. \E e \in 0 .. Len(vs[I + 1]) :
            /\ e = Least(move, Len(vs[I + 1])) /\ e <= move
            /\ Taken(vs, move, I + 1) \in Seq(Value) /\ Len(Taken(vs, move, I + 1)) = e
            /\ Taken(vs, move, I + 1) = Span(s, Base(d, I + 1), Base(d, I + 1) + e)
            /\ Base(d, I + 1) + e <= Len(s)
      BY <3>1, TakenFacts
    <3>3. PICK e \in 0 .. Len(vs[I + 1]) :
            /\ e = Least(move, Len(vs[I + 1])) /\ e <= move
            /\ Taken(vs, move, I + 1) \in Seq(Value) /\ Len(Taken(vs, move, I + 1)) = e
            /\ Taken(vs, move, I + 1) = Span(s, Base(d, I + 1), Base(d, I + 1) + e)
            /\ Base(d, I + 1) + e <= Len(s)
      BY <3>2
    <3>4. Base(d, I + 1) = b + m
      <4>1. Base(d, I + 1) = Base(d, I) + d
        BY <1>1, Bases
      <4> QED
        BY <1>1, <2>1, <4>1
    <3>5. e \in Nat /\ I # Len(vs)
      BY <1>1, <2>1
    <3> QED
      BY <1>3, <2>1, <3>3, <3>4, <3>5
  <2>2. CASE I = Len(vs)
    <3>1. ~(I + 1 <= Len(vs)) /\ ~(I < Len(vs))
      BY <1>1, <2>2
    <3>2. Taken(vs, move, I + 1) = <<>>
      BY <3>1 DEF Taken
    <3>3. b + m \in 0 .. Len(s) /\ (b + m) + 0 = b + m /\ b + m <= z
      BY <1>1, <1>3
    <3>4. Span(s, b + m, b + m) = <<>>
      BY <1>1, <3>3, SpanNone
    <3>5. <<>> \in Seq(Value) /\ Len(<<>>) = 0
      OBVIOUS
    <3> QED
      BY <2>2, <3>1, <3>2, <3>3, <3>4, <3>5
  <2> QED
    BY <1>1, <2>1, <2>2
<1>5. PICK f \in Seq(Value) : f = Span(l, c, m) /\ Len(f) = m - c /\ f = Span(s, b + c, b + m)
  <2>1. m \in 0 .. Len(vs[I]) /\ c \in 0 .. m /\ m \in 0 .. Len(l)
    BY <1>1
  <2>2. Span(vs[I], c, m) = Span(s, Base(d, I) + c, Base(d, I) + m)
    BY <2>1, SpanOfDeque
  <2>3. Span(l, c, m) \in Seq(Value) /\ Len(Span(l, c, m)) = m - c
    BY <2>1, SpanFacts
  <2> QED
    BY <1>1, <2>2, <2>3
<1>6. PICK calls \in Seq({<<"pop_front">>}) :
         calls = [j \in 1 .. c |-> <<"pop_front">>] /\ Run(d, l, calls, f)
  <2>1. [j \in 1 .. c |-> <<"pop_front">>] \in Seq({<<"pop_front">>})
    <3>1. c \in Nat
      OBVIOUS
    <3> QED
      BY <3>1
  <2>2. c \in 0 .. Len(l)
    BY <1>1
  <2>3. Run(d, l, [j \in 1 .. c |-> <<"pop_front">>], SubSeq(l, c + 1, Len(l)))
    BY <2>2, PopsRun
  <2> QED
    BY <1>1, <1>5, <2>1, <2>3 DEF Span
<1>7. Len(f) + Len(t) <= d
  <2>1. move \in Nat /\ move < d /\ c \in Nat
    OBVIOUS
  <2>2. I < Len(vs) \/ I = Len(vs)
    BY <1>1
  <2>3. CASE I < Len(vs)
    <3>1. m = d /\ c = move /\ e <= move /\ Len(f) = m - c /\ Len(t) = e
      BY <1>1, <1>2, <1>4, <1>5, <2>3
    <3> QED
      BY <2>1, <3>1
  <2>4. CASE I = Len(vs)
    <3>1. m <= d /\ e = 0 /\ Len(f) = m - c /\ Len(t) = e
      BY <1>1, <1>4, <1>5, <2>4
    <3> QED
      BY <2>1, <3>1
  <2> QED
    BY <2>2, <2>3, <2>4
<1>8. Do(d, l, calls \o Puts(t)) = f \o t
  <2>1. d \in Nat /\ Run(d, l, calls, f) /\ Len(f) + Len(t) <= d
    BY <1>6, <1>7
  <2> QED
    BY <2>1, ThenPuts
<1>9. f \o t = Span(s, b + c, (b + m) + e)
  <2>1. (b + m) + e \in 0 .. Len(s) /\ b + m \in 0 .. (b + m) + e /\ b + c \in 0 .. b + m
    BY <1>3, <1>4
  <2>2. PICK X, Y, Z : X = b + c /\ Y = b + m /\ Z = (b + m) + e
    OBVIOUS
  <2>3. Z \in 0 .. Len(s) /\ Y \in 0 .. Z /\ X \in 0 .. Y /\ s \in Seq(Value)
    BY <1>1, <2>1, <2>2
  <2>4. Span(s, X, Y) \o Span(s, Y, Z) = Span(s, X, Z)
    BY <2>3, SpanJoin
  <2> QED
    BY <1>4, <1>5, <2>2, <2>4
<1>10. (b + m) + e = IF I < Len(vs) THEN (b + d) + Least(move, Len(vs[I + 1])) ELSE z
  <2>1. CASE I < Len(vs)
    BY <1>1, <1>4, <2>1
  <2>2. CASE I = Len(vs)
    <3>1. b + m = z /\ e = 0 /\ ~(I < Len(vs))
      BY <1>1, <1>3, <1>4, <2>2
    <3> QED
      BY <3>1
  <2> QED
    BY <1>1, <2>1, <2>2
<1> QED
  BY <1>1, <1>2, <1>3, <1>4, <1>6, <1>8, <1>9, <1>10 DEF LaterOne

(* Of deques of which those behind the Mth are empty, the others stay.     *)
LEMMA NonEmptyFacts ==
  ASSUME NEW w \in Seq(Seq(Value)), NEW M \in 0 .. Len(w),
         \A i \in 1 .. M : w[i] # <<>>, \A i \in M + 1 .. Len(w) : w[i] = <<>>
  PROVE  NonEmpty(w) = SubSeq(w, 1, M)
<1> DEFINE R(f) == f = [i \in 0 .. Len(w) |->
                          IF i = 0 THEN <<>> ELSE IF w[i] = <<>> THEN f[i - 1] ELSE Append(f[i - 1], w[i])]
           first(i) == IF i <= M THEN SubSeq(w, 1, i) ELSE SubSeq(w, 1, M)
           t == [i \in 0 .. Len(w) |-> first(i)]
<1>1. PICK N \in Nat : N = Len(w) /\ M \in Nat /\ M <= N
  OBVIOUS
<1>2. first(0) = <<>>
  BY <1>1
<1>3. ASSUME NEW i \in 1 .. N
      PROVE  first(i) = IF w[i] = <<>> THEN first(i - 1) ELSE Append(first(i - 1), w[i])
  <2>1. CASE i <= M
    <3>1. i \in 1 .. M /\ i - 1 <= M /\ i - 1 \in Nat /\ (i - 1) + 1 = i /\ i <= N
      BY <1>1, <2>1
    <3>2. w[i] # <<>>
      BY <3>1
    <3>3. SubSeq(w, 1, (i - 1) + 1) = Append(SubSeq(w, 1, i - 1), w[(i - 1) + 1])
      BY <1>1, <3>1
    <3> QED
      BY <2>1, <3>1, <3>2, <3>3
  <2>2. CASE ~(i <= M)
    <3>1. i \in M + 1 .. Len(w) /\ (i - 1 <= M => i - 1 = M)
      BY <1>1, <2>2
    <3>2. w[i] = <<>>
      BY <3>1
    <3> QED
      BY <2>2, <3>1, <3>2
  <2> QED
    BY <2>1, <2>2
<1>4. first(N) = SubSeq(w, 1, M)
  BY <1>1
<1> HIDE DEF first
<1>5. /\ t[0] = <<>>
      /\ \A i \in 1 .. N : t[i] = IF w[i] = <<>> THEN t[i - 1] ELSE Append(t[i - 1], w[i])
      /\ t[N] = SubSeq(w, 1, M) /\ t = [i \in 0 .. N |-> t[i]]
  <2>1. \A i \in 0 .. N : t[i] = first(i)
    BY <1>1
  <2>2. \A i \in 1 .. N : i \in 0 .. N /\ i - 1 \in 0 .. N
    BY <1>1
  <2>3. 0 \in 0 .. N /\ N \in 0 .. N
    BY <1>1
  <2>4. t = [i \in 0 .. N |-> t[i]]
    BY <1>1
  <2> HIDE DEF t
  <2> QED
    BY <1>2, <1>3, <1>4, <2>1, <2>2, <2>3, <2>4
<1> HIDE DEF t
<1>6. R(t)
  <2>1. \A i \in 0 .. N : t[i] = IF i = 0 THEN <<>> ELSE IF w[i] = <<>> THEN t[i - 1] ELSE Append(t[i - 1], w[i])
    <3>1. \A i \in 0 .. N : i = 0 \/ i \in 1 .. N
      BY <1>1
    <3>2. \A i \in 1 .. N : i # 0
      BY <1>1
    <3> QED
      BY <1>5, <3>1, <3>2
  <2> QED
    BY <1>1, <1>5, <2>1
<1> DEFINE u == CHOOSE f : R(f)
<1>7. NonEmpty(w) = u[N]
  BY <1>1 DEF NonEmpty
<1>8. R(u)
  <2> HIDE DEF R
  <2> QED
    BY <1>6
<1> HIDE DEF u
<1>9. u[0] = <<>> /\ \A i \in 1 .. N : u[i] = IF w[i] = <<>> THEN u[i - 1] ELSE Append(u[i - 1], w[i])
  <2>1. u = [i \in 0 .. N |-> IF i = 0 THEN <<>> ELSE IF w[i] = <<>> THEN u[i - 1] ELSE Append(u[i - 1], w[i])]
    BY <1>1, <1>8
  <2>2. 0 \in 0 .. N /\ \A i \in 1 .. N : i \in 0 .. N /\ i # 0
    BY <1>1
  <2>3. \A i \in 0 .. N : u[i] = IF i = 0 THEN <<>> ELSE IF w[i] = <<>> THEN u[i - 1] ELSE Append(u[i - 1], w[i])
    BY <2>1
  <2> QED
    BY <2>2, <2>3
<1> HIDE DEF R
<1> DEFINE K == {i \in 0 .. N : u[i] = t[i]}
<1>10. 0 \in K
  BY <1>1, <1>5, <1>9
<1>11. ASSUME NEW i \in 0 .. N - 1, i \in K PROVE i + 1 \in K
  <2>1. i + 1 \in 1 .. N /\ i + 1 \in 0 .. N /\ (i + 1) - 1 = i
    BY <1>1
  <2>2. u[i] = t[i]
    BY <1>11
  <2>3. u[i + 1] = t[i + 1]
    BY <1>5, <1>9, <2>1, <2>2, ZenonT(40)
  <2> QED
    BY <2>1, <2>3
<1>12. N \in K
  <2> HIDE DEF K
  <2>1. 0 .. N \subseteq K
    BY <1>10, <1>11, UpTo
  <2> QED
    BY <1>1, <2>1
<1> QED
  BY <1>5, <1>7, <1>12

(* Of n deques the first M hold the elements of s behind off, the others   *)
(* none.                                                                   *)
Holding(w, d, s, off, L, n, M) ==
  /\ M = 0 => off = L
  /\ M > 0 => off + Base(d, M) < L /\ L <= (off + Base(d, M)) + d
  /\ \A i \in 1 .. M : w[i] = Span(s, off + Base(d, i), IF i < M THEN (off + Base(d, i)) + d ELSE L)
  /\ \A i \in M + 1 .. n : w[i] = <<>>

LEMMA AsSequence ==
  ASSUME NEW S, NEW n \in Nat, NEW w \in [1 .. n -> S]
  PROVE  w \in Seq(S) /\ Len(w) = n
OBVIOUS

(* The deques behind the bth, after each has given to the one before it.   *)
LaterOnes(w, vs, d, move, b) ==
  /\ w = [i \in 1 .. Len(vs) - b |-> w[i]]
  /\ \A i \in 1 .. Len(vs) - b : w[i] = LaterOne(vs, d, move, b + i)

(* What is left of the later deques.                                       *)
LEMMA LaterPacked ==
  ASSUME NEW d \in Nat \ {0}, NEW vs, NEW s, Chunks(vs, d, s), NEW move \in 0 .. d - 1,
         NEW b \in Nat \ {0}, b < Len(vs), NEW w, LaterOnes(w, vs, d, move, b)
  PROVE  \E c \in Nat :
           /\ c = Least(move, Len(vs[b + 1])) /\ Base(d, b + 1) + c <= Len(s)
           /\ Packed(NonEmpty(w), d, Span(s, Base(d, b + 1) + c, Len(s)))
           /\ NonEmpty(w) # <<>> => c = move /\ Base(d, b + 1) + move < Len(s)
<1>1. PICK N \in Nat, n \in Nat, L \in Nat, e \in Nat, l \in Nat :
         /\ N = Len(vs) /\ n = N - b /\ n > 0 /\ N = b + n /\ L = Len(s) /\ s \in Seq(Value)
         /\ e = Base(d, N) /\ l = Len(vs[N]) /\ l > 0 /\ L = e + l /\ l <= d
  <2>1. /\ Len(vs) \in Nat \ {0} /\ s \in Seq(Value) /\ Len(s) \in Nat
        /\ Base(d, Len(vs)) \in Nat /\ Len(vs[Len(vs)]) \in Nat /\ vs[Len(vs)] \in Seq(Value)
        /\ Len(vs[Len(vs)]) <= d
        /\ Len(s) = Base(d, Len(vs)) + Len(vs[Len(vs)])
    <3>1. Filled(vs, d, s)
      BY DEF Chunks
    <3>2. /\ Len(vs) \in Nat \ {0} /\ s \in Seq(Value) /\ Len(s) \in Nat /\ Len(vs) \in 1 .. Len(vs)
          /\ Len(s) = Base(d, Len(vs)) + Len(vs[Len(vs)])
          /\ \A i \in 1 .. Len(vs) : /\ vs[i] \in Seq(Value) /\ Len(vs[i]) \in Nat
                                     /\ Len(vs[i]) <= d /\ Base(d, i) \in Nat
      BY <3>1, FilledFacts
    <3> QED
      BY <3>2
  <2>2. Len(vs) > 1 /\ Len(vs) - b \in Nat /\ Len(vs) - b > 0 /\ Len(vs) = b + (Len(vs) - b)
    BY <2>1
  <2>3. Len(vs[Len(vs)]) > 0
    BY <2>1, <2>2 DEF Chunks
  <2> QED
    BY <2>1, <2>2, <2>3
<1>2. Filled(vs, d, s)
  BY DEF Chunks
<1>3. PICK c \in Nat, B \in Nat :
         /\ c = Least(move, Len(vs[b + 1])) /\ c <= move /\ B = Base(d, b + 1) /\ B + c <= L
         /\ (b + 1 < N => c = move) /\ (b + 1 = N => B = e /\ c = Least(move, l))
  <2>1. b + 1 \in 1 .. Len(vs)
    BY <1>1
  <2>2. \E c \in 0 .. Len(vs[b + 1]) :
          /\ c = Least(move, Len(vs[b + 1])) /\ c <= move
          /\ (b + 1 < Len(vs) => c = move)
          /\ Base(d, b + 1) \in Nat /\ Base(d, b + 1) + c <= Len(s)
    BY <1>2, <2>1, TakenFacts
  <2>3. PICK c \in Nat, B \in Nat :
          /\ c = Least(move, Len(vs[b + 1])) /\ c <= move /\ B = Base(d, b + 1)
          /\ (b + 1 < Len(vs) => c = move) /\ B + c <= Len(s)
    <3>1. \A f \in 0 .. Len(vs[b + 1]) : f \in Nat
      BY <1>1
    <3> QED
      BY <2>2, <3>1
  <2> QED
    BY <1>1, <2>3
<1>4. \A i \in Nat \ {0} : Base(d, b + i) = B + Base(d, i) /\ Base(d, i) \in Nat
  <2> TAKE i \in Nat \ {0}
  <2>1. Base(d, i + b) = Base(d, i) + b * d /\ Base(d, i) \in Nat /\ b * d \in Nat
    BY BaseSum
  <2>2. B = b * d
    <3>1. (b + 1) - 1 = b
      OBVIOUS
    <3> QED
      BY <1>3, <3>1 DEF Base
  <2>3. i + b = b + i
    OBVIOUS
  <2> QED
    BY <2>1, <2>2, <2>3
<1>5. PICK off \in Nat : off = B + c
  OBVIOUS
<1>6. ASSUME NEW i \in 1 .. n
      PROVE  w[i] = Span(s, B + Base(d, i) + Least(move, Len(vs[b + i])),
                         IF i < n THEN (B + Base(d, i) + d) + Least(move, Len(vs[(b + i) + 1])) ELSE L)
  <2>1. b + i \in 1 .. Len(vs) /\ i \in Nat \ {0} /\ (b + i < Len(vs) <=> i < n)
    BY <1>1
  <2>2. Base(d, b + i) = B + Base(d, i)
    BY <1>4, <2>1
  <2>3. w[i] = LaterOne(vs, d, move, b + i)
    BY <1>1 DEF LaterOnes
  <2>4. LaterOne(vs, d, move, b + i)
         = Span(s, Base(d, b + i) + Least(move, Len(vs[b + i])),
                IF b + i < Len(vs) THEN (Base(d, b + i) + d) + Least(move, Len(vs[(b + i) + 1])) ELSE Len(s))
    BY <1>2, <2>1, LaterDeque
  <2> QED
    BY <1>1, <2>1, <2>2, <2>3, <2>4

<1>7. \A i \in 1 .. n : i < n => Least(move, Len(vs[b + i])) = move
  <2> TAKE i \in 1 .. n
  <2>1. SUFFICES ASSUME i < n PROVE Least(move, Len(vs[b + i])) = move
    OBVIOUS
  <2>2. b + i \in 1 .. Len(vs) /\ b + i < Len(vs)
    BY <1>1, <2>1
  <2>3. \E f \in 0 .. Len(vs[b + i]) : f = Least(move, Len(vs[b + i])) /\ (b + i < Len(vs) => f = move)
    BY <1>2, <2>2, TakenFacts
  <2> QED
    BY <2>2, <2>3
<1>8. B + Base(d, n) = e
  <2>1. n \in Nat \ {0}
    BY <1>1
  <2> QED
    BY <1>1, <1>4, <2>1
<1>9. move \in Nat /\ move < d /\ d \in Nat
  OBVIOUS
<1>10. \A i \in 1 .. n : \E p \in Nat : p = Base(d, i) /\ (i < n => B + p + d <= e)
  <2> TAKE i \in 1 .. n
  <2>1. i \in Nat \ {0} /\ n \in Nat \ {0}
    BY <1>1
  <2>2. Base(d, i) \in Nat /\ Base(d, n) \in Nat /\ (i < n => Base(d, i) + d <= Base(d, n))
    BY <2>1, Bases
  <2>3. PICK p \in Nat, q \in Nat : p = Base(d, i) /\ q = Base(d, n) /\ (i < n => p + d <= q) /\ B + q = e
    BY <1>8, <2>2
  <2>4. i < n => B + p + d <= e
    BY <2>3
  <2> QED
    BY <2>3, <2>4
<1>11. ASSUME move < l
       PROVE  \E M \in 0 .. n : Holding(w, d, s, off, L, n, M) /\ (M > 0 => c = move)
  <2>1. Least(move, l) = move
    BY <1>11 DEF Least
  <2>2. c = move
    BY <1>1, <1>3, <2>1
  <2>3. \A i \in 1 .. n : w[i] = Span(s, off + Base(d, i), IF i < n THEN (off + Base(d, i)) + d ELSE L)
    <3> TAKE i \in 1 .. n
    <3>1. Least(move, Len(vs[b + i])) = move
      <4>1. i < n \/ (i = n /\ b + i = N)
        BY <1>1
      <4> QED
        BY <1>1, <1>7, <2>1, <4>1
    <3>2. i < n => Least(move, Len(vs[(b + i) + 1])) = move
      <4>1. SUFFICES ASSUME i < n PROVE Least(move, Len(vs[(b + i) + 1])) = move
        OBVIOUS
      <4>2. i + 1 \in 1 .. n /\ b + (i + 1) = (b + i) + 1 /\ (i + 1 < n \/ b + (i + 1) = N)
        BY <1>1, <4>1
      <4> QED
        BY <1>1, <1>7, <2>1, <4>2
    <3>3. PICK p \in Nat : p = Base(d, i)
      BY <1>10
    <3>4. B + p + move = off + p /\ (B + p + d) + move = (off + p) + d
      BY <1>5, <1>9, <2>2
    <3> QED
      BY <1>6, <3>1, <3>2, <3>3, <3>4
  <2>4. off + Base(d, n) < L /\ L <= (off + Base(d, n)) + d
    <3>1. PICK p \in Nat : p = Base(d, n)
      <4>1. n \in 1 .. n
        BY <1>1
      <4> QED
        BY <1>10, <4>1
    <3>2. B + p = e /\ off = B + move /\ L = e + l /\ l <= d
      BY <1>1, <1>5, <1>8, <2>2, <3>1
    <3>3. off + p < L /\ L <= (off + p) + d
      BY <1>9, <1>11, <3>2
    <3> QED
      BY <3>1, <3>3
  <2>5. \A i \in n + 1 .. n : w[i] = <<>>
    BY <1>1
  <2>6. Holding(w, d, s, off, L, n, n) /\ n \in 0 .. n
    BY <1>1, <2>3, <2>4, <2>5 DEF Holding
  <2> QED
    BY <2>2, <2>6
<1>12. ASSUME ~(move < l)
       PROVE  \E M \in 0 .. n : Holding(w, d, s, off, L, n, M) /\ (M > 0 => c = move)
  <2>1. Least(move, l) = l
    BY <1>12 DEF Least
  <2>2. PICK M \in 0 .. n : M = n - 1 /\ M \in Nat /\ n = M + 1
    <3>1. n - 1 \in 0 .. n /\ n - 1 \in Nat /\ n = (n - 1) + 1
      BY <1>1
    <3> QED
      BY <3>1
  <2>3. \A i \in M + 1 .. n : w[i] = <<>>
    <3> TAKE i \in M + 1 .. n
    <3>1. i = n /\ i \in 1 .. n /\ ~(i < n) /\ b + i = N
      BY <1>1, <2>2, SMTT(30)
    <3>2. B + Base(d, i) + Least(move, Len(vs[b + i])) = L
      BY <1>1, <1>8, <2>1, <3>1
    <3>3. w[i] = Span(s, L, L)
      BY <1>6, <3>1, <3>2
    <3>4. L \in 0 .. Len(s)
      BY <1>1
    <3>5. Span(s, L, L) = <<>>
      BY <1>1, <3>4, SpanNone
    <3> QED
      BY <3>3, <3>5
  <2>4. CASE M = 0
    <3>1. n = 1 /\ b + 1 = N
      BY <1>1, <2>2, <2>4
    <3>2. B = e /\ c = l
      BY <1>3, <2>1, <3>1
    <3>3. off = L
      BY <1>1, <1>5, <3>2
    <3>4. \A i \in 1 .. M : FALSE
      BY <2>4
    <3>5. ~(M > 0)
      BY <2>4
    <3>6. Holding(w, d, s, off, L, n, M)
      BY <2>3, <3>3, <3>4, <3>5 DEF Holding
    <3> QED
      BY <3>5, <3>6
  <2>5. CASE M > 0
    <3>1. b + 1 < N
      BY <1>1, <2>2, <2>5
    <3>2. c = move
      BY <1>3, <3>1
    <3>3. \A i \in 1 .. M : w[i] = Span(s, off + Base(d, i), IF i < M THEN (off + Base(d, i)) + d ELSE L)
      <4> TAKE i \in 1 .. M
      <4>1. i \in 1 .. n /\ i < n /\ i + 1 \in 1 .. n /\ b + (i + 1) = (b + i) + 1
        BY <1>1, <2>2, SMTT(30)
      <4>2. Least(move, Len(vs[b + i])) = move
        BY <1>7, <4>1
      <4>3. PICK p \in Nat : p = Base(d, i)
        BY <1>10, <4>1
      <4>4. w[i] = Span(s, B + p + move, (B + p + d) + Least(move, Len(vs[(b + i) + 1])))
        BY <1>6, <4>1, <4>2, <4>3
      <4>5. B + p + move = off + p
        BY <1>5, <1>9, <3>2
      <4>6. (B + p + d) + Least(move, Len(vs[(b + i) + 1])) = IF i < M THEN (off + p) + d ELSE L
        <5>1. CASE i < M
          <6>1. i + 1 < n
            BY <2>2, <5>1
          <6>2. Least(move, Len(vs[(b + i) + 1])) = move
            BY <1>7, <4>1, <6>1
          <6>3. (B + p + d) + move = (off + p) + d
            BY <1>5, <1>9, <3>2
          <6> QED
            BY <5>1, <6>2, <6>3
        <5>2. CASE ~(i < M)
          <6>1. i + 1 = n /\ (b + i) + 1 = N
            BY <1>1, <2>2, <4>1, <5>2
          <6>2. Least(move, Len(vs[(b + i) + 1])) = l
            BY <1>1, <2>1, <6>1
          <6>3. B + p + d = e
            <7>1. i \in Nat \ {0}
              BY <4>1
            <7>2. Base(d, i + 1) = Base(d, i) + d
              BY <7>1, Bases
            <7>3. B + (p + d) = e
              BY <1>8, <4>3, <6>1, <7>2
            <7> QED
              BY <1>9, <7>3
          <6> QED
            BY <1>1, <5>2, <6>2, <6>3
        <5> QED
          BY <5>1, <5>2
      <4> QED
        BY <4>3, <4>4, <4>5, <4>6
    <3>4. off + Base(d, M) < L /\ L <= (off + Base(d, M)) + d
      <4>1. M \in Nat \ {0}
        BY <2>2, <2>5
      <4>2. Base(d, M + 1) = Base(d, M) + d /\ Base(d, M) \in Nat
        BY <4>1, Bases
      <4>3. PICK p \in Nat : p = Base(d, M) /\ B + (p + d) = e
        BY <1>8, <2>2, <4>2
      <4>4. off = B + move /\ L = e + l /\ l <= move /\ l > 0
        BY <1>1, <1>5, <1>9, <1>12, <3>2
      <4>5. off + p < L /\ L <= (off + p) + d
        BY <1>9, <4>3, <4>4
      <4> QED
        BY <4>3, <4>5
    <3>5. M # 0
      BY <2>5
    <3>6. Holding(w, d, s, off, L, n, M)
      BY <2>3, <3>3, <3>4, <3>5 DEF Holding
    <3> QED
      BY <3>2, <3>6
  <2>6. M = 0 \/ M > 0
    BY <2>2
  <2> QED
    BY <2>4, <2>5, <2>6
<1>13. PICK M \in 0 .. n : Holding(w, d, s, off, L, n, M) /\ (M > 0 => c = move)
  BY <1>11, <1>12
<1>14. /\ M \in Nat /\ M <= n
       /\ M = 0 => off = L
       /\ M > 0 => c = move /\ off + Base(d, M) < L /\ L <= (off + Base(d, M)) + d
       /\ \A i \in 1 .. M : w[i] = Span(s, off + Base(d, i), IF i < M THEN (off + Base(d, i)) + d ELSE L)
       /\ \A i \in M + 1 .. n : w[i] = <<>>
  <2>1. M \in Nat /\ M <= n
    BY <1>1
  <2> QED
    BY <1>13, <2>1 DEF Holding
<1>15. off <= L
  BY <1>3, <1>5
<1>16. ASSUME NEW i \in 1 .. M PROVE w[i] \in Seq(Value) /\ w[i] # <<>>
  <2>1. i \in Nat \ {0} /\ M \in Nat \ {0} /\ M > 0
    BY <1>14
  <2>2. Base(d, i) \in Nat /\ Base(d, M) \in Nat /\ (i < M => Base(d, i) + d <= Base(d, M))
    BY <2>1, Bases
  <2>3. PICK p \in Nat, q \in Nat : p = Base(d, i) /\ q = Base(d, M) /\ (i < M => p + d <= q) /\ off + q < L
    BY <1>14, <2>1, <2>2
  <2>4. PICK y : y = IF i < M THEN (off + p) + d ELSE L
    OBVIOUS
  <2>5. y \in 0 .. L /\ off + p \in 0 .. y /\ y - (off + p) > 0
    <3>1. CASE i < M
      <4>1. p + d <= q /\ y = (off + p) + d /\ off + q < L /\ d > 0
        BY <2>3, <2>4, <3>1
      <4>2. y \in Nat /\ y <= L
        BY <1>1, <1>9, <4>1
      <4>3. y - (off + p) = d /\ off + p <= y
        BY <1>9, <4>1
      <4> QED
        BY <1>1, <1>9, <4>1, <4>2, <4>3
    <3>2. CASE ~(i < M)
      <4>1. i = M /\ y = L
        BY <1>14, <2>4, <3>2
      <4>2. p = q
        BY <2>3, <4>1
      <4> QED
        BY <2>3, <4>1, <4>2
    <3> QED
      BY <3>1, <3>2
  <2>6. w[i] = Span(s, off + p, y)
    BY <1>14, <2>3, <2>4
  <2>7. PICK x \in 0 .. y : x = off + p
    BY <2>5
  <2>8. y \in 0 .. Len(s) /\ s \in Seq(Value) /\ y - x > 0
    BY <1>1, <2>5, <2>7
  <2>9. Span(s, x, y) \in Seq(Value) /\ Len(Span(s, x, y)) = y - x
    BY <2>8, SpanFacts
  <2>10. Span(s, x, y) # <<>>
    BY <2>8, <2>9
  <2> QED
    BY <2>6, <2>7, <2>9, <2>10
<1>17. w \in Seq(Seq(Value)) /\ Len(w) = n
  <2>1. Len(vs) - b = n
    BY <1>1
  <2>2. w = [i \in 1 .. n |-> w[i]]
    BY <2>1 DEF LaterOnes
  <2>3. \A i \in 1 .. n : w[i] \in Seq(Value)
    <3> TAKE i \in 1 .. n
    <3>1. i \in 1 .. M \/ i \in M + 1 .. n
      BY <1>14
    <3>2. <<>> \in Seq(Value)
      OBVIOUS
    <3> QED
      BY <1>14, <1>16, <3>1, <3>2
  <2>4. w \in [1 .. n -> Seq(Value)]
    BY <2>2, <2>3
  <2>5. PICK S : S = Seq(Value)
    OBVIOUS
  <2>6. n \in Nat /\ w \in [1 .. n -> S]
    BY <1>1, <2>4, <2>5
  <2>7. w \in Seq(S) /\ Len(w) = n
    BY <2>6, AsSequence
  <2> QED
    BY <2>5, <2>7
<1>18. PICK u \in Seq(Seq(Value)) : u = NonEmpty(w) /\ Len(u) = M /\ \A i \in 1 .. M : u[i] = w[i]
  <2>1. M \in 0 .. Len(w) /\ (\A i \in 1 .. M : w[i] # <<>>) /\ (\A i \in M + 1 .. Len(w) : w[i] = <<>>)
    BY <1>14, <1>16, <1>17
  <2>2. NonEmpty(w) = SubSeq(w, 1, M)
    BY <1>17, <2>1, NonEmptyFacts
  <2>3. /\ SubSeq(w, 1, M) \in Seq(Seq(Value)) /\ Len(SubSeq(w, 1, M)) = M
        /\ \A i \in 1 .. M : SubSeq(w, 1, M)[i] = w[i]
    <3>1. w \in Seq(Seq(Value)) /\ M \in 0 .. Len(w)
      BY <1>17, <2>1
    <3> QED
      BY <3>1, Shortened
  <2> QED
    BY <2>2, <2>3
<1>19. Packed(u, d, Span(s, off, Len(s)))
  <2>1. off \in 0 .. Len(s) /\ s \in Seq(Value) /\ M \in Nat
    BY <1>1, <1>14, <1>15
  <2>2. u = [i \in 1 .. M |-> u[i]]
    <3>1. u \in Seq(Seq(Value)) /\ Len(u) = M
      BY <1>18
    <3>2. \A f \in Seq(Seq(Value)) : f = [i \in 1 .. Len(f) |-> f[i]]
      BY SMTT(30)
    <3> QED
      BY <3>1, <3>2
  <2>3. M = 0 => off = Len(s)
    BY <1>1, <1>14
  <2>4. M > 0 => off + Base(d, M) < Len(s) /\ Len(s) <= (off + Base(d, M)) + d
    BY <1>1, <1>14
  <2>5. \A i \in 1 .. M : u[i] = Span(s, off + Base(d, i), IF i < M THEN (off + Base(d, i)) + d ELSE Len(s))
    BY <1>1, <1>14, <1>18
  <2> QED
    BY <2>1, <2>2, <2>3, <2>4, <2>5, PackedSpans
<1>20. u # <<>> => c = move /\ B + move < L
  <2>1. SUFFICES ASSUME u # <<>> PROVE c = move /\ B + move < L
    OBVIOUS
  <2>2. M \in Nat \ {0} /\ M > 0
    BY <1>14, <1>18, <2>1
  <2>3. PICK p \in Nat : p = Base(d, M)
    BY <2>2, Bases
  <2>4. c = move /\ off + p < L
    BY <1>14, <2>2, <2>3
  <2> QED
    BY <1>5, <1>9, <2>4
<1> QED
  BY <1>1, <1>3, <1>5, <1>18, <1>19, <1>20

(* What an erased range leaves, put together.                              *)
LEMMA RangePacked ==
  ASSUME NEW d \in Nat \ {0}, NEW vs, NEW s, Filled(vs, d, s), NEW a \in 1 .. Len(vs),
         NEW xs \in Seq(Value), NEW saved, NEW after, NEW rest, Packed(after, d, rest),
         saved = [i \in 1 .. Ceil(Len(xs), d) |->
                    Do(d, <<>>, Puts(SubSeq(xs, (i - 1) * d + 1, Least(i * d, Len(xs)))))],
         after # <<>> => Len(xs) = Ceil(Len(xs), d) * d,
         NEW all \in BOOLEAN, all <=> a = 1 /\ Ceil(Len(xs), d) = 0 /\ after = <<>>
  PROVE  Chunks(SubSeq(vs, 1, a - 1) \o saved \o (IF all THEN <<<<>>>> ELSE <<>>) \o after, d,
                Span(s, 0, Base(d, a)) \o xs \o rest)
<1>1. PICK m \in Nat, A \in Nat, f \in Seq(Seq(Value)), t \in Seq(Value) :
         /\ f = SubSeq(vs, 1, a - 1) /\ t = Span(s, 0, Base(d, a)) /\ A = Base(d, a) /\ m = a - 1
         /\ Packed(f, d, t) /\ Len(f) = m /\ Len(t) = A /\ a = m + 1
  <2>1. /\ Packed(SubSeq(vs, 1, a - 1), d, Span(s, 0, Base(d, a)))
        /\ Len(SubSeq(vs, 1, a - 1)) = a - 1
        /\ Base(d, a) \in 0 .. Len(s) /\ Len(Span(s, 0, Base(d, a))) = Base(d, (a - 1) + 1)
    BY FrontPacked
  <2>2. Len(s) \in Nat /\ Len(vs) \in Nat
    BY FilledFacts
  <2>3. a - 1 \in Nat /\ (a - 1) + 1 = a /\ Base(d, a) \in Nat
    BY <2>1, <2>2
  <2>4. PICK m \in Nat, A \in Nat : m = a - 1 /\ A = Base(d, a) /\ m + 1 = a
    BY <2>3
  <2>5. PICK f, t : f = SubSeq(vs, 1, a - 1) /\ t = Span(s, 0, Base(d, a))
    OBVIOUS
  <2>6. Packed(f, d, t) /\ Len(f) = m /\ Len(t) = A
    BY <2>1, <2>4, <2>5
  <2>7. f \in Seq(Seq(Value)) /\ t \in Seq(Value)
    BY <2>6, PackedFacts
  <2> QED
    BY <2>4, <2>5, <2>6, <2>7
<1>2. PICK T \in Nat : T = Ceil(Len(xs), d) /\ Packed(saved, d, xs) /\ Len(saved) = T
  <2>1. Packed(saved, d, xs) /\ Len(saved) = Ceil(Len(xs), d)
    BY SavedPacked
  <2>2. Len(xs) \in Nat
    OBVIOUS
  <2>3. Ceil(Len(xs), d) \in Nat
    BY <2>2, Ceiling
  <2> QED
    BY <2>1, <2>3
<1>3. /\ f \in Seq(Seq(Value)) /\ saved \in Seq(Seq(Value)) /\ after \in Seq(Seq(Value))
      /\ t \in Seq(Value) /\ rest \in Seq(Value)
  BY <1>1, <1>2, PackedFacts
<1>4. PICK g, z : g = f \o saved /\ z = t \o xs /\ Packed(g, d, z) /\ Len(g) = m + T /\ Len(z) = A + Len(xs)
                  /\ g \in Seq(Seq(Value))
  <2>1. saved # <<>> => Len(t) = Base(d, Len(f) + 1)
    BY <1>1
  <2>2. Packed(f \o saved, d, t \o xs)
    BY <1>1, <1>2, <2>1, PackedJoin
  <2>3. Len(f \o saved) = Len(f) + Len(saved) /\ Len(t \o xs) = Len(t) + Len(xs) /\ f \o saved \in Seq(Seq(Value))
    <3>1. f \in Seq(Seq(Value)) /\ saved \in Seq(Seq(Value)) /\ t \in Seq(Value)
      BY <1>3
    <3>2. Len(f \o saved) = Len(f) + Len(saved) /\ f \o saved \in Seq(Seq(Value))
      BY <3>1, Joined, ZenonT(40)
    <3>3. Len(t \o xs) = Len(t) + Len(xs)
      BY <3>1, Joined
    <3> QED
      BY <3>2, <3>3
  <2> QED
    BY <1>1, <1>2, <2>2, <2>3
<1>5. Packed(g \o after, d, z \o rest)
  <2>1. after # <<>> => Len(z) = Base(d, Len(g) + 1)
    <3>1. SUFFICES ASSUME after # <<>> PROVE Len(z) = Base(d, Len(g) + 1)
      OBVIOUS
    <3>2. Len(xs) = T * d
      BY <1>2, <3>1
    <3>3. (m + T) + 1 = a + T /\ a \in Nat \ {0}
      BY <1>1
    <3>4. Base(d, a + T) = Base(d, a) + T * d
      BY <3>3, BaseSum
    <3> QED
      BY <1>1, <1>4, <3>2, <3>3, <3>4
  <2>2. Packed(g, d, z)
    BY <1>4
  <2> QED
    BY <2>1, <2>2, PackedJoin
<1>6. CASE all
  <2>1. m = 0 /\ T = 0 /\ after = <<>>
    BY <1>1, <1>2, <1>6
  <2>2. g = <<>>
    <3>1. g \in Seq(Seq(Value)) /\ Len(g) = 0
      <4>1. g \in Seq(Seq(Value)) /\ Len(g) = m + T
        BY <1>4
      <4> QED
        BY <2>1, <4>1
    <3> QED
      BY <3>1, EmptySeq
  <2>3. g \o <<<<>>>> = <<<<>>>> /\ <<<<>>>> \o <<>> = <<<<>>>> /\ g \o after = <<>>
    BY <2>1, <2>2
  <2>4. z \o rest = <<>>
    BY <1>5, <2>3 DEF Packed, Filled
  <2>5. SubSeq(vs, 1, a - 1) \o saved \o (IF all THEN <<<<>>>> ELSE <<>>) \o after = <<<<>>>>
    BY <1>1, <1>4, <1>6, <2>1, <2>3
  <2>6. Span(s, 0, Base(d, a)) \o xs \o rest = <<>>
    BY <1>1, <1>4, <2>4
  <2>7. Chunks(<<<<>>>>, d, <<>>)
    BY NoneFilled
  <2> QED
    BY <2>5, <2>6, <2>7
<1>7. CASE ~all
  <2>1. g \o <<>> = g
    BY <1>4
  <2>2. PICK r : r = g \o after
    OBVIOUS
  <2>3. r # <<>>
    <3>1. Len(r) = (m + T) + Len(after) /\ Len(after) \in Nat
      <4>1. g \in Seq(Seq(Value)) /\ after \in Seq(Seq(Value)) /\ Len(g) = m + T
        BY <1>3, <1>4
      <4>2. Len(g \o after) = Len(g) + Len(after)
        BY <4>1, Joined
      <4>3. Len(after) \in Nat
        BY <4>1
      <4> QED
        BY <2>2, <4>1, <4>2, <4>3
    <3>2. SUFFICES ASSUME r = <<>> PROVE FALSE
      OBVIOUS
    <3>3. m = 0 /\ T = 0 /\ Len(after) = 0
      <4>1. (m + T) + Len(after) = 0
        BY <3>1, <3>2
      <4>2. PICK y \in Nat : y = Len(after)
        BY <3>1
      <4> QED
        BY <4>1, <4>2
    <3>4. after = <<>>
      BY <1>3, <3>3
    <3>5. a = 1
      BY <1>1, <3>3
    <3> QED
      BY <1>2, <1>7, <3>3, <3>4, <3>5
  <2>4. Chunks(r, d, z \o rest)
    <3>1. Packed(r, d, z \o rest)
      BY <1>5, <2>2
    <3> QED
      BY <2>3, <3>1, PackedFacts
  <2>5. SubSeq(vs, 1, a - 1) \o saved \o (IF all THEN <<<<>>>> ELSE <<>>) \o after = r
    BY <1>1, <1>4, <1>7, <2>1, <2>2
  <2>6. Span(s, 0, Base(d, a)) \o xs \o rest = z \o rest
    BY <1>1, <1>4
  <2> QED
    BY <2>4, <2>5, <2>6
<1> QED
  BY <1>6, <1>7

(* Concatenations of pieces may be grouped in any way.                     *)
Grouped(x, y, z) == (x \o y) \o z = x \o (y \o z)

LEMMA Grouping ==
  ASSUME NEW S, NEW x \in Seq(S), NEW y \in Seq(S), NEW z \in Seq(S)
  PROVE  Grouped(x, y, z)
BY ConcatAssociative DEF Grouped

Regrouped(a, b, c, f, g) == (a \o (b \o c \o f)) \o g = (a \o b) \o (c \o (f \o g))

LEMMA Regrouping ==
  ASSUME NEW S, NEW a \in Seq(S), NEW b \in Seq(S), NEW c \in Seq(S), NEW f \in Seq(S), NEW g \in Seq(S)
  PROVE  Regrouped(a, b, c, f, g)
<1>1. Grouped(b, c, f) /\ Grouped(c, f, g)
  BY Grouping
<1>2. PICK q \in Seq(S) : q = c \o f
  BY Joined
<1>3. PICK p \in Seq(S) : p = a \o b
  BY Joined
<1>4. Grouped(a, b, q) /\ Grouped(p, q, g)
  BY Grouping
<1> QED
  BY <1>1, <1>2, <1>3, <1>4 DEF Grouped, Regrouped

LEMMA RangeContents ==
  ASSUME NEW s \in Seq(Value), NEW x \in 0 .. Len(s), NEW e \in 0 .. x, NEW k \in 0 .. e,
         NEW j \in 0 .. k, j < k, NEW A \in 0 .. j
  PROVE  Span(s, 0, A) \o (Span(s, A, j) \o Span(s, k, e) \o Span(s, e, x)) \o Span(s, x, Len(s))
         = Without(s, j, k)
<1>1. PICK L \in Nat : L = Len(s)
  OBVIOUS
<1>2. /\ L \in 0 .. Len(s) /\ x \in 0 .. L /\ e \in 0 .. Len(s) /\ k \in 0 .. Len(s) /\ j \in 0 .. Len(s)
      /\ A \in 0 .. Len(s) /\ k \in 0 .. x /\ 0 \in 0 .. A /\ 0 \in 0 .. j /\ k \in 0 .. L
  BY <1>1
<1>3. PICK a \in Seq(Value), b \in Seq(Value), c \in Seq(Value), f \in Seq(Value), g \in Seq(Value) :
         a = Span(s, 0, A) /\ b = Span(s, A, j) /\ c = Span(s, k, e) /\ f = Span(s, e, x) /\ g = Span(s, x, L)
  <2>1. Span(s, 0, A) \in Seq(Value)
    BY <1>2, SpanFacts
  <2>2. Span(s, A, j) \in Seq(Value)
    BY <1>2, SpanFacts
  <2>3. Span(s, k, e) \in Seq(Value)
    BY <1>2, SpanFacts
  <2>4. Span(s, e, x) \in Seq(Value)
    BY <1>2, SpanFacts
  <2>5. Span(s, x, L) \in Seq(Value)
    BY <1>2, SpanFacts
  <2> QED
    BY <2>1, <2>2, <2>3, <2>4, <2>5
<1>4. a \o b = Span(s, 0, j)
  BY <1>2, <1>3, SpanJoin
<1>5. c \o (f \o g) = Span(s, k, L)
  <2>1. f \o g = Span(s, e, L)
    BY <1>2, <1>3, SpanJoin
  <2>2. Span(s, k, e) \o Span(s, e, L) = Span(s, k, L)
    <3>1. e \in 0 .. L
      BY <1>1
    <3> QED
      BY <1>2, <3>1, SpanJoin
  <2> QED
    BY <1>3, <2>1, <2>2
<1>6. (a \o (b \o c \o f)) \o g = (a \o b) \o (c \o (f \o g))
  <2>1. Regrouped(a, b, c, f, g)
    BY Regrouping
  <2> QED
    BY <2>1 DEF Regrouped
<1>7. Without(s, j, k) = Span(s, 0, j) \o Span(s, k, L)
  <2>1. 0 + 1 = 1
    OBVIOUS
  <2> QED
    BY <1>1, <2>1 DEF Without, Span
<1> QED
  BY <1>1, <1>3, <1>4, <1>5, <1>6, <1>7

(* The last deque that a range touches, and where the range ends in it.    *)
LEMMA LastTouched ==
  ASSUME NEW d \in Nat \ {0}, NEW vs, NEW s, Chunks(vs, d, s), NEW k \in Nat \ {0},
         NEW I, NEW J, Spot(vs, d, I, J, k)
  PROVE  \E b \in 1 .. Len(vs) : \E q \in 1 .. Len(vs[b]) :
           /\ Base(d, b) + q = k
           /\ J = 0 => b = I - 1 /\ q = Len(vs[I - 1])
           /\ J # 0 => b = I /\ q = J
<1>1. Filled(vs, d, s) /\ I \in 1 .. Len(vs) /\ J \in 0 .. Len(vs[I]) /\ Base(d, I) + J = k
  BY DEF Chunks, Spot
<1>2. /\ Len(vs) \in Nat
      /\ \A i \in 1 .. Len(vs) : /\ Len(vs[i]) \in Nat /\ (i < Len(vs) => Len(vs[i]) = d)
                                 /\ Base(d, i) \in Nat
  BY <1>1, FilledFacts
<1>3. CASE J = 0
  <2>1. Base(d, I) = k
    BY <1>1, <1>2, <1>3
  <2>2. I # 1
    BY <2>1 DEF Base
  <2>3. I \in Nat \ {0} /\ I > 1 /\ I - 1 \in 1 .. Len(vs) /\ I - 1 < Len(vs)
    BY <1>1, <1>2, <2>2
  <2>4. Base(d, I) = Base(d, I - 1) + d
    BY <2>3, Bases
  <2>5. Len(vs[I - 1]) = d
    BY <1>2, <2>3
  <2>6. Len(vs[I - 1]) \in 1 .. Len(vs[I - 1]) /\ Base(d, I - 1) + Len(vs[I - 1]) = k
    BY <2>1, <2>4, <2>5
  <2> QED
    BY <1>3, <2>3, <2>6
<1>4. CASE J # 0
  <2>1. J \in 1 .. Len(vs[I])
    BY <1>1, <1>2, <1>4
  <2> QED
    BY <1>1, <1>4, <2>1
<1> QED
  BY <1>3, <1>4

(* What is put aside.                                                      *)
Aside(vs, move, a, p, b, q) ==
  SubSeq(vs[a], 1, p) \o SubSeq(vs[b], q + 1, Len(vs[b])) \o Taken(vs, move, b + 1)

LEMMA TakenBehind ==
  ASSUME NEW d \in Nat \ {0}, NEW vs, NEW s, Filled(vs, d, s), NEW move \in 0 .. d - 1,
         NEW b \in Nat, b < Len(vs)
  PROVE  \E c \in Nat :
           /\ c = Least(move, Len(vs[b + 1]))
           /\ Taken(vs, move, b + 1) = Span(s, Base(d, b + 1), Base(d, b + 1) + c)
           /\ Base(d, b + 1) + c <= Len(s)
<1>1. Len(vs) \in Nat
  BY FilledFacts
<1>2. PICK K \in 1 .. Len(vs) : K = b + 1
  BY <1>1
<1>3. \E c \in 0 .. Len(vs[K]) :
        /\ c = Least(move, Len(vs[K]))
        /\ Taken(vs, move, K) = Span(s, Base(d, K), Base(d, K) + c)
        /\ Base(d, K) + c <= Len(s)
  BY TakenFacts
<1> QED
  BY <1>2, <1>3

(* It is three pieces of s: up to first, from the end of the range to e,   *)
(* and c elements behind e.                                                *)
AsideIs(vs, d, s, move, a, p, b, q, e, c) ==
  /\ e = Base(d, b) + Len(vs[b]) /\ e + c <= Len(s)
  /\ Aside(vs, move, a, p, b, q)
     = Span(s, Base(d, a), Base(d, a) + p) \o Span(s, Base(d, b) + q, e) \o Span(s, e, e + c)
  /\ b < Len(vs) => c = Least(move, Len(vs[b + 1])) /\ e = Base(d, b + 1) /\ Len(vs[b]) = d
  /\ ~(b < Len(vs)) => c = 0 /\ e = Len(s)

LEMMA AsideFacts ==
  ASSUME NEW d \in Nat \ {0}, NEW vs, NEW s, Filled(vs, d, s), NEW move \in 0 .. d - 1,
         NEW a \in 1 .. Len(vs), NEW p \in 0 .. Len(vs[a]), NEW b \in 1 .. Len(vs), NEW q \in 0 .. Len(vs[b])
  PROVE  \E e \in Nat, c \in Nat : AsideIs(vs, d, s, move, a, p, b, q, e, c)
<1>1. PICK A \in Nat, B \in Nat, l \in Nat, N \in Nat, L \in Nat :
         /\ A = Base(d, a) /\ B = Base(d, b) /\ l = Len(vs[b]) /\ N = Len(vs) /\ L = Len(s) /\ s \in Seq(Value)
         /\ (b < N => l = d) /\ (b = N => L = B + l) /\ b \in Nat \ {0} /\ b <= N
  <2>1. /\ Len(vs) \in Nat /\ s \in Seq(Value) /\ Len(s) \in Nat
        /\ Len(s) = Base(d, Len(vs)) + Len(vs[Len(vs)])
        /\ \A i \in 1 .. Len(vs) : /\ Len(vs[i]) \in Nat /\ (i < Len(vs) => Len(vs[i]) = d)
                                   /\ Base(d, i) \in Nat
    BY FilledWhole, FilledAt
  <2>2. b \in Nat \ {0} /\ b <= Len(vs)
    BY <2>1
  <2> QED
    BY <2>1, <2>2
<1>2. PICK e \in Nat : e = B + l
  OBVIOUS
<1>3. SubSeq(vs[a], 1, p) = Span(s, A, A + p)
  <2>1. 0 \in 0 .. p
    <3>1. Len(vs[a]) \in Nat
      BY FilledFacts
    <3> QED
      BY <3>1
  <2>2. Span(vs[a], 0, p) = Span(s, Base(d, a) + 0, Base(d, a) + p)
    BY <2>1, SpanOfDeque
  <2>3. 0 + 1 = 1 /\ A + 0 = A
    OBVIOUS
  <2>4. Span(vs[a], 0, p) = SubSeq(vs[a], 1, p)
    BY <2>3 DEF Span
  <2> QED
    BY <1>1, <2>2, <2>3, <2>4
<1>4. SubSeq(vs[b], q + 1, Len(vs[b])) = Span(s, B + q, e) /\ e <= L
  <2>1. PICK y \in 0 .. Len(vs[b]) : y = Len(vs[b]) /\ q \in 0 .. y
    BY <1>1
  <2>2. /\ Span(vs[b], q, y) = Span(s, Base(d, b) + q, Base(d, b) + y)
        /\ Base(d, b) + y <= Len(s)
    <3>1. q \in 0 .. y
      BY <2>1
    <3> QED
      BY <3>1, SpanOfDeque
  <2>3. Span(vs[b], q, Len(vs[b])) = SubSeq(vs[b], q + 1, Len(vs[b]))
    BY DEF Span
  <2> QED
    BY <1>1, <1>2, <2>1, <2>2, <2>3
<1>5. CASE b < N
  <2>2. \E c \in Nat :
          /\ c = Least(move, Len(vs[b + 1]))
          /\ Taken(vs, move, b + 1) = Span(s, Base(d, b + 1), Base(d, b + 1) + c)
          /\ Base(d, b + 1) + c <= Len(s)
    BY <1>1, <1>5, TakenBehind, ZenonT(40)
  <2>3. PICK c \in Nat :
          /\ c = Least(move, Len(vs[b + 1]))
          /\ Taken(vs, move, b + 1) = Span(s, Base(d, b + 1), Base(d, b + 1) + c)
          /\ Base(d, b + 1) + c <= Len(s)
    BY <2>2
  <2>4. Base(d, b + 1) = e
    <3>1. Base(d, b + 1) = Base(d, b) + d
      BY <1>1, Bases
    <3> QED
      BY <1>1, <1>2, <1>5, <3>1
  <2>5. Aside(vs, move, a, p, b, q) = Span(s, A, A + p) \o Span(s, B + q, e) \o Span(s, e, e + c)
    BY <1>3, <1>4, <2>3, <2>4 DEF Aside
  <2> QED
    BY <1>1, <1>2, <1>5, <2>3, <2>4, <2>5 DEF AsideIs
<1>6. CASE ~(b < N)
  <2>1. b = N /\ ~(b + 1 <= N) /\ e = L
    BY <1>1, <1>2, <1>6
  <2>2. Taken(vs, move, b + 1) = <<>>
    BY <1>1, <2>1 DEF Taken
  <2>3. e + 0 = e /\ e \in 0 .. Len(s) /\ e + 0 <= Len(s)
    BY <1>1, <2>1
  <2>4. Span(s, e, e) = <<>>
    BY <1>1, <2>3, SpanNone
  <2>5. Aside(vs, move, a, p, b, q) = Span(s, A, A + p) \o Span(s, B + q, e) \o Span(s, e, e + 0)
    BY <1>3, <1>4, <2>2, <2>3, <2>4 DEF Aside
  <2>6. 0 \in Nat
    OBVIOUS
  <2> QED
    BY <1>1, <1>2, <1>6, <2>1, <2>3, <2>5, <2>6 DEF AsideIs
<1> QED
  BY <1>5, <1>6

(* erase of a range, in the terms above.                                   *)
Saved(xs, d) ==
  [i \in 1 .. Ceil(Len(xs), d) |->
     Do(d, <<>>, Puts(SubSeq(xs, (i - 1) * d + 1, Least(i * d, Len(xs)))))]

(* The deques behind the bth,                                              *)
Later(vs, d, move, b) ==
  [I \in b + 1 .. Len(vs) |-> LaterOne(vs, d, move, I)]

(* and those of them that are left.                                        *)
After(vs, d, move, b) == NonEmpty([i \in 1 .. Len(vs) - b |-> Later(vs, d, move, b)[b + i]])

(* Whether no deque would be left.                                         *)
NoneLeft(d, a, b, xs, after) == b - a + 1 - Ceil(Len(xs), d) >= b + Len(after)

(* The deques after the erasure from offset p of the ath deque to offset   *)
(* q of the bth.                                                           *)
Erasure(vs, d, move, a, p, b, q) ==
  SubSeq(vs, 1, a - 1) \o Saved(Aside(vs, move, a, p, b, q), d)
    \o (IF NoneLeft(d, a, b, Aside(vs, move, a, p, b, q), After(vs, d, move, b)) THEN <<<<>>>> ELSE <<>>)
    \o After(vs, d, move, b)

(* The end of the range, as a place behind an element.                     *)
LastOf(vs, end) == IF end.deq = 0 THEN [vec |-> end.vec - 1, deq |-> Len(vs[end.vec - 1])] ELSE end

LEMMA ErasureIs ==
  ASSUME NEW vs, NEW d, NEW first, NEW end
  PROVE  ErasedRange(vs, d, first, end) =
         Erasure(vs, d, Least(Distance(vs, d, first, end) % d, Distance(vs, d, end, End(vs))),
                 first.vec, first.deq, LastOf(vs, end).vec, LastOf(vs, end).deq)
BY Zenon DEF ErasedRange, Erasure, Saved, Later, LaterOne, After, NoneLeft, Aside, Taken, LastOf

(* In numbers: when deques remain behind the last one touched, the         *)
(* elements put aside fill whole deques.                                   *)
LEMMA AsideLength ==
  ASSUME NEW d \in Nat, NEW p \in Nat, NEW q \in Nat, NEW m \in Nat, NEW X \in Nat, NEW R \in Nat,
         NEW D, D = R + m, D = (X + q) - p, NEW n, n = (p + (d - q)) + m
  PROVE  n = (X + d) - R
OBVIOUS

(* n elements are put aside, when deques remain behind the bth, and the    *)
(* range is from element j to element k.                                   *)
AsideNumbers(d, a, b, p, q, j, k, n) ==
  /\ a \in Nat \ {0} /\ b \in Nat \ {0} /\ a <= b /\ p \in Nat /\ q \in Nat /\ n \in Nat
  /\ j \in Nat /\ k \in Nat /\ j < k /\ j = Base(d, a) + p /\ k = Base(d, b) + q
  /\ n = (p + (d - q)) + ((k - j) % d)

(* They fill deques.                                                       *)
LEMMA AsideWhole ==
  ASSUME NEW d \in Nat \ {0}, NEW a, NEW b, NEW p, NEW q, NEW j, NEW k, NEW n,
         AsideNumbers(d, a, b, p, q, j, k, n)
  PROVE  n = Ceil(n, d) * d
<1>0. /\ a \in Nat \ {0} /\ b \in Nat \ {0} /\ a <= b /\ p \in Nat /\ q \in Nat /\ n \in Nat
      /\ j \in Nat /\ k \in Nat /\ j < k /\ j = Base(d, a) + p /\ k = Base(d, b) + q
      /\ n = (p + (d - q)) + ((k - j) % d)
  BY DEF AsideNumbers
<1>1. PICK D \in Nat : D = k - j
  BY <1>0
<1>2. PICK Q \in Nat, R \in Nat, m \in Nat : R = Q * d /\ m = D % d /\ D = R + m
  <2>1. D \div d \in Nat /\ D % d \in 0 .. d - 1 /\ (D \div d) * d + (D % d) = D
    BY Divided
  <2>2. PICK Q \in Nat, m \in Nat : Q = D \div d /\ m = D % d
    BY <2>1
  <2>3. Q * d \in Nat /\ Q * d + m = D
    BY <2>1, <2>2
  <2>4. PICK R \in Nat : R = Q * d
    BY <2>3
  <2> QED
    BY <2>2, <2>3, <2>4
<1>3. PICK x \in Nat : x = b - a /\ b = a + x
  BY <1>0
<1>4. PICK A \in Nat, X \in Nat : A = Base(d, a) /\ X = x * d /\ Base(d, b) = A + X
  <2>1. Base(d, a + x) = Base(d, a) + x * d /\ x * d \in Nat /\ Base(d, a) \in Nat
    BY <1>0, BaseSum
  <2>2. PICK A \in Nat, X \in Nat : A = Base(d, a) /\ X = x * d
    BY <2>1
  <2> QED
    BY <1>3, <2>1, <2>2
<1>5. D = (X + q) - p
  BY <1>0, <1>1, <1>4
<1>6. n = (p + (d - q)) + m
  BY <1>0, <1>1, <1>2
<1>7. n = (X + d) - R
  <2>1. D = R + m
    BY <1>2
  <2> QED
    BY <1>0, <1>5, <1>6, <2>1, AsideLength
<1>8. (X + d) - R = ((x + 1) - Q) * d
  BY <1>2, <1>4
<1>9. (x + 1) - Q \in Nat
  <2>1. SUFFICES ASSUME ~((x + 1) - Q >= 0) PROVE FALSE
    OBVIOUS
  <2>2. PICK r \in Nat : r = Q - (x + 1) - 1 /\ (x + 1) - Q = -1 - r
    <3>1. Q - (x + 1) - 1 \in Nat /\ (x + 1) - Q = -1 - (Q - (x + 1) - 1)
      BY <2>1
    <3> QED
      BY <3>1
  <2>3. (-1 - r) * d = -d - r * d /\ r * d \in Nat
    OBVIOUS
  <2>4. PICK z \in Nat : z = r * d /\ n = -d - z
    BY <1>7, <1>8, <2>2, <2>3
  <2>5. n \in Nat
    BY <1>0
  <2> QED
    BY <2>4, <2>5
<1>10. PICK T \in Nat : T = (x + 1) - Q /\ n = T * d
  BY <1>7, <1>8, <1>9
<1>11. Ceil(T * d, d) = T
  BY CeilingExact
<1> QED
  BY <1>10, <1>11

LEMMA Touched ==
  ASSUME NEW d \in Nat \ {0}, NEW a \in Nat \ {0}, NEW b \in Nat \ {0}, NEW p \in Nat, NEW q \in Nat,
         NEW j \in Nat, NEW k \in Nat, j < k, j = Base(d, a) + p, k = Base(d, b) + q, q <= d
  PROVE  a <= b
<1>1. SUFFICES ASSUME b < a PROVE FALSE
  OBVIOUS
<1>2. Base(d, b) + d <= Base(d, a) /\ Base(d, b) \in Nat /\ Base(d, a) \in Nat
  BY <1>1, Bases
<1>3. PICK A \in Nat, B \in Nat : A = Base(d, a) /\ B = Base(d, b) /\ B + d <= A
  BY <1>2
<1> QED
  BY <1>3

(* How many elements move to fill up the deques.                           *)
LEMMA Moved ==
  ASSUME NEW d \in Nat \ {0}, NEW D \in Nat, NEW r \in Nat
  PROVE  \E m \in 0 .. d - 1 : m = Least(D % d, r) /\ m <= r /\ (m < r => m = D % d)
<1>1. PICK m \in 0 .. d - 1 : m = D % d
  BY Divided
<1>2. CASE m < r
  BY <1>1, <1>2 DEF Least
<1>3. CASE ~(m < r)
  <2>1. Least(m, r) = r /\ r \in 0 .. d - 1
    BY <1>1, <1>3 DEF Least
  <2> QED
    BY <1>1, <2>1
<1> QED
  BY <1>2, <1>3

(* The later deques.                                                       *)
LEMMA AfterSome ==
  ASSUME NEW d \in Nat \ {0}, NEW vs, NEW s, Chunks(vs, d, s), NEW move \in 0 .. d - 1,
         NEW b \in Nat \ {0}, b < Len(vs)
  PROVE  \E c \in Nat :
           /\ c = Least(move, Len(vs[b + 1])) /\ Base(d, b + 1) + c <= Len(s)
           /\ Packed(After(vs, d, move, b), d, Span(s, Base(d, b + 1) + c, Len(s)))
           /\ After(vs, d, move, b) # <<>> => c = move /\ Base(d, b + 1) + move < Len(s)
<1>1. Len(vs) \in Nat
  BY FilledFacts DEF Chunks
<1>2. PICK w : w = [i \in 1 .. Len(vs) - b |-> Later(vs, d, move, b)[b + i]]
  OBVIOUS
<1>3. LaterOnes(w, vs, d, move, b)
  <2>1. Later(vs, d, move, b) = [I \in b + 1 .. Len(vs) |-> LaterOne(vs, d, move, I)]
    BY DEF Later
  <2>2. \A i \in 1 .. Len(vs) - b : b + i \in b + 1 .. Len(vs)
    BY <1>1
  <2>3. \A i \in 1 .. Len(vs) - b : w[i] = LaterOne(vs, d, move, b + i)
    BY <1>2, <2>1, <2>2
  <2>4. w = [i \in 1 .. Len(vs) - b |-> w[i]]
    BY <1>2
  <2> QED
    BY <2>3, <2>4 DEF LaterOnes
<1>4. NonEmpty(w) = After(vs, d, move, b)
  BY <1>2 DEF After
<1>5. \E c \in Nat :
        /\ c = Least(move, Len(vs[b + 1])) /\ Base(d, b + 1) + c <= Len(s)
        /\ Packed(NonEmpty(w), d, Span(s, Base(d, b + 1) + c, Len(s)))
        /\ NonEmpty(w) # <<>> => c = move /\ Base(d, b + 1) + move < Len(s)
  BY <1>3, LaterPacked
<1> QED
  BY <1>4, <1>5

(* The later deques, none of them too.                                     *)
Behind(vs, d, s, move, b, e, c) ==
  /\ b < Len(vs) => c = Least(move, Len(vs[b + 1])) /\ e = Base(d, b + 1)
  /\ ~(b < Len(vs)) => c = 0 /\ e = Len(s)

LEMMA AfterPacked ==
  ASSUME NEW d \in Nat \ {0}, NEW vs, NEW s, Chunks(vs, d, s), NEW move \in 0 .. d - 1, NEW b \in 1 .. Len(vs),
         NEW e \in Nat, NEW c \in Nat, Behind(vs, d, s, move, b, e, c)
  PROVE  /\ Packed(After(vs, d, move, b), d, Span(s, e + c, Len(s)))
         /\ After(vs, d, move, b) # <<>> => c = move /\ e + move < Len(s) /\ b < Len(vs)
<1>1. Len(vs) \in Nat /\ b \in Nat \ {0} /\ s \in Seq(Value) /\ Len(s) \in Nat
  BY FilledFacts DEF Chunks
<1>2. PICK w : w = [i \in 1 .. Len(vs) - b |-> Later(vs, d, move, b)[b + i]]
  OBVIOUS
<1>3. After(vs, d, move, b) = NonEmpty(w)
  BY <1>2 DEF After
<1>4. CASE b < Len(vs)
  <2>1. b \in Nat \ {0}
    BY <1>1
  <2>2. \E x \in Nat :
          /\ x = Least(move, Len(vs[b + 1])) /\ Base(d, b + 1) + x <= Len(s)
          /\ Packed(After(vs, d, move, b), d, Span(s, Base(d, b + 1) + x, Len(s)))
          /\ After(vs, d, move, b) # <<>> => x = move /\ Base(d, b + 1) + move < Len(s)
    BY <1>4, <2>1, AfterSome
  <2> QED
    BY <1>4, <2>2 DEF Behind
<1>5. CASE ~(b < Len(vs))
  <2>1. w = <<>>
    <3>1. Len(vs) - b = 0
      BY <1>1, <1>5
    <3>2. \A i \in 1 .. 0 : FALSE
      OBVIOUS
    <3> QED
      BY <1>2, <3>1, <3>2
  <2>2. NonEmpty(<<>>) = <<>>
    <3>1. PICK x \in Seq(Seq(Value)) : x = <<>> /\ Len(x) = 0 /\ SubSeq(x, 1, 0) = <<>>
      <4>1. <<>> \in Seq(Seq(Value)) /\ Len(<<>>) = 0 /\ SubSeq(<<>>, 1, 0) = <<>>
        OBVIOUS
      <4> QED
        BY <4>1
    <3>2. 0 \in 0 .. Len(x) /\ (\A i \in 1 .. 0 : x[i] # <<>>) /\ (\A i \in 0 + 1 .. Len(x) : x[i] = <<>>)
      BY <3>1
    <3>3. NonEmpty(x) = SubSeq(x, 1, 0)
      BY <3>2, NonEmptyFacts
    <3> QED
      BY <3>1, <3>3
  <2>3. c = 0 /\ e = Len(s) /\ e + c = Len(s)
    BY <1>1, <1>5 DEF Behind
  <2>4. Len(s) \in 0 .. Len(s)
    BY <1>1
  <2>5. Span(s, Len(s), Len(s)) = <<>>
    BY <1>1, <2>4, SpanNone
  <2> QED
    BY <1>3, <2>1, <2>2, <2>3, <2>5 DEF Packed
<1> QED
  BY <1>4, <1>5

(* The erasure leaves no deque when it is of everything.                   *)
LEMMA NoneLeftIf ==
  ASSUME NEW a \in Nat \ {0}, NEW b \in Nat, NEW T \in Nat, NEW m \in Nat
  PROVE  b - a + 1 - T >= b + m <=> a = 1 /\ T = 0 /\ m = 0
OBVIOUS

(* erase of the elements from first to end.                                *)
LEMMA ErasedRangeChunks ==
  ASSUME NEW vs, NEW d \in Nat \ {0}, NEW s, Chunks(vs, d, s), NEW k \in Nat, k <= Len(s), NEW j \in Nat, j < k,
         NEW first, Refers(vs, d, first, j), NEW end, Refers(vs, d, end, k)
  PROVE  Chunks(ErasedRange(vs, d, first, end), d, Without(s, j, k))
<1>1. PICK a, p : Referring(vs, d, s, first, a, p, j)
  BY Reference
<1>2. PICK I, J : Referring(vs, d, s, end, I, J, k)
  BY Reference
<1>3. /\ d \in Nat \ {0} /\ Chunks(vs, d, s) /\ Filled(vs, d, s)
      /\ first.vec = a /\ first.deq = p /\ end.vec = I /\ end.deq = J /\ end = [vec |-> I, deq |-> J]
      /\ Spot(vs, d, a, p, j) /\ Spot(vs, d, I, J, k)
  BY <1>1, <1>2 DEF Referring, Chunks
<1>4. PICK L \in Nat, N \in Nat \ {0} : L = Len(s) /\ N = Len(vs) /\ s \in Seq(Value) /\ k <= L
  BY <1>3, FilledFacts
<1>5. \A i \in 1 .. N : Base(d, i) \in Nat /\ Len(vs[i]) \in Nat /\ Len(vs[i]) <= d
  <2>1. Filled(vs, d, s) /\ d \in Nat \ {0}
    BY <1>3
  <2> QED
    BY <1>4, <2>1, FilledFacts
<1>6. PICK A \in Nat : A = Base(d, a) /\ A + p = j /\ a \in 1 .. N /\ p \in 0 .. Len(vs[a]) /\ p \in Nat /\ a \in Nat \ {0}
  <2>1. a \in 1 .. N /\ p \in 0 .. Len(vs[a]) /\ Base(d, a) + p = j
    BY <1>3, <1>4 DEF Spot
  <2> QED
    BY <1>5, <2>1
<1>7. PICK b \in 1 .. N, q \in Nat :
        /\ q \in 1 .. Len(vs[b]) /\ Base(d, b) + q = k
        /\ J = 0 => b = I - 1 /\ q = Len(vs[I - 1])
        /\ J # 0 => b = I /\ q = J
  <2>1. k \in Nat \ {0} /\ d \in Nat \ {0} /\ Chunks(vs, d, s) /\ Spot(vs, d, I, J, k)
    BY <1>3
  <2>2. \E b \in 1 .. Len(vs) : \E q \in 1 .. Len(vs[b]) :
           /\ Base(d, b) + q = k
           /\ J = 0 => b = I - 1 /\ q = Len(vs[I - 1])
           /\ J # 0 => b = I /\ q = J
    BY <2>1, LastTouched
  <2>3. \A b \in 1 .. Len(vs) : \A q \in 1 .. Len(vs[b]) : q \in Nat
    BY <1>4, <1>5
  <2> QED
    BY <1>4, <2>2, <2>3
<1>8. LastOf(vs, end).vec = b /\ LastOf(vs, end).deq = q
  BY <1>3, <1>7 DEF LastOf
<1>9. PICK B \in Nat, l \in Nat :
        /\ B = Base(d, b) /\ l = Len(vs[b]) /\ l <= d /\ B + q = k /\ q \in Nat /\ 0 < q /\ q <= l
        /\ b \in Nat \ {0} /\ b <= N
  <2>1. Base(d, b) \in Nat /\ Len(vs[b]) \in Nat /\ Len(vs[b]) <= d
    BY <1>5
  <2>2. b \in Nat \ {0} /\ b <= N
    OBVIOUS
  <2> QED
    BY <1>7, <2>1, <2>2
<1>10. a <= b
  <2>1. q <= d /\ j = Base(d, a) + p /\ k = Base(d, b) + q /\ d \in Nat \ {0}
    BY <1>3, <1>6, <1>9
  <2> QED
    BY <1>6, <1>9, <2>1, Touched
<1>11. PICK move \in 0 .. d - 1 :
         /\ move = Least(Distance(vs, d, first, end) % d, Distance(vs, d, end, End(vs)))
         /\ move < L - k => move = (k - j) % d
  <2>1. Distance(vs, d, first, end) = k - j
    BY DistanceRefers
  <2>2. Distance(vs, d, end, End(vs)) = L - k
    <3>1. Refers(vs, d, End(vs), Len(s))
      BY EndsRefer
    <3>2. Len(s) \in Nat /\ Refers(vs, d, End(vs), Len(s)) /\ k <= Len(s)
      BY <1>4, <3>1
    <3>3. Distance(vs, d, end, End(vs)) = Len(s) - k
      BY <3>2, DistanceRefers
    <3> QED
      BY <1>4, <3>3
  <2>3. PICK D \in Nat, r \in Nat : D = k - j /\ r = L - k
    <3>1. k <= L
      BY <1>4
    <3>2. k - j \in Nat /\ L - k \in Nat
      BY <3>1
    <3> QED
      BY <3>2
  <2>4. \E m \in 0 .. d - 1 : m = Least(D % d, r) /\ m <= r /\ (m < r => m = D % d)
    BY <1>3, Moved
  <2> QED
    BY <1>3, <2>1, <2>2, <2>3, <2>4
<1>12. PICK e \in Nat, c \in Nat :
         /\ e = B + l /\ e + c <= L
         /\ Aside(vs, move, a, p, b, q) = Span(s, A, j) \o Span(s, k, e) \o Span(s, e, e + c)
         /\ b < N => c = Least(move, Len(vs[b + 1])) /\ e = Base(d, b + 1) /\ l = d
         /\ ~(b < N) => c = 0 /\ e = L
  <2>1. /\ d \in Nat \ {0} /\ Filled(vs, d, s) /\ a \in 1 .. Len(vs) /\ p \in 0 .. Len(vs[a])
        /\ b \in 1 .. Len(vs) /\ q \in 0 .. Len(vs[b])
    BY <1>3, <1>4, <1>6, <1>9
  <2>2. \E e \in Nat, c \in Nat : AsideIs(vs, d, s, move, a, p, b, q, e, c)
    BY <2>1, AsideFacts
  <2> QED
    BY <1>4, <1>6, <1>9, <2>2 DEF AsideIs
<1>13. PICK x \in Nat : x = e + c /\ x <= L /\ e <= x /\ k <= e /\ j < k /\ A <= j /\ x - e = c
  <2>1. k <= e /\ A <= j
    <3>1. A + p = j /\ e = B + l /\ B + q = k /\ q <= l /\ p \in Nat
      BY <1>6, <1>9, <1>12
    <3> QED
      BY <3>1
  <2> QED
    BY <1>12, <2>1
<1>14. /\ x \in 0 .. Len(s) /\ e \in 0 .. x /\ k \in 0 .. e /\ j \in 0 .. k /\ A \in 0 .. j
       /\ e \in 0 .. Len(s) /\ j \in 0 .. Len(s)
  BY <1>4, <1>13
<1>15. PICK xs \in Seq(Value) :
         /\ xs = Aside(vs, move, a, p, b, q) /\ xs = Span(s, A, j) \o Span(s, k, e) \o Span(s, e, x)
         /\ Len(xs) = ((j - A) + (e - k)) + c
  <2>1. Span(s, A, j) \in Seq(Value) /\ Len(Span(s, A, j)) = j - A
    BY <1>4, <1>14, SpanFacts
  <2>2. Span(s, k, e) \in Seq(Value) /\ Len(Span(s, k, e)) = e - k
    BY <1>4, <1>14, SpanFacts
  <2>3. Span(s, e, x) \in Seq(Value) /\ Len(Span(s, e, x)) = c
    <3>1. Span(s, e, x) \in Seq(Value) /\ Len(Span(s, e, x)) = x - e
      BY <1>4, <1>14, SpanFacts
    <3> QED
      BY <1>13, <3>1
  <2>4. PICK X \in Seq(Value), Y \in Seq(Value), Z \in Seq(Value) :
          /\ X = Span(s, A, j) /\ Y = Span(s, k, e) /\ Z = Span(s, e, x)
          /\ Len(X) = j - A /\ Len(Y) = e - k /\ Len(Z) = c
    BY <2>1, <2>2, <2>3
  <2>5. PICK W \in Seq(Value) : W = X \o Y /\ Len(W) = Len(X) + Len(Y)
    BY Joined
  <2>6. W \o Z \in Seq(Value) /\ Len(W \o Z) = Len(W) + Len(Z)
    BY Joined
  <2> QED
    BY <1>12, <1>13, <2>4, <2>5, <2>6
<1>16. PICK after \in Seq(Seq(Value)) :
         /\ after = After(vs, d, move, b) /\ Packed(after, d, Span(s, x, L))
         /\ after # <<>> => c = move /\ e + move < L /\ b < N
  <2>1. /\ d \in Nat \ {0} /\ Chunks(vs, d, s) /\ b \in 1 .. Len(vs)
        /\ b < Len(vs) => c = Least(move, Len(vs[b + 1])) /\ e = Base(d, b + 1)
        /\ ~(b < Len(vs)) => c = 0 /\ e = Len(s)
    BY <1>3, <1>4, <1>12
  <2>2. /\ Packed(After(vs, d, move, b), d, Span(s, e + c, Len(s)))
        /\ After(vs, d, move, b) # <<>> => c = move /\ e + move < Len(s) /\ b < Len(vs)
    <3>1. d \in Nat \ {0} /\ b \in 1 .. Len(vs)
      BY <2>1
    <3>2. Chunks(vs, d, s)
      BY <2>1
    <3>3. b < Len(vs) => c = Least(move, Len(vs[b + 1])) /\ e = Base(d, b + 1)
      BY <2>1
    <3>4. ~(b < Len(vs)) => c = 0 /\ e = Len(s)
      BY <2>1
    <3>5. Behind(vs, d, s, move, b, e, c)
      BY <3>3, <3>4 DEF Behind
    <3> QED
      BY <3>1, <3>2, <3>5, AfterPacked
  <2>3. After(vs, d, move, b) \in Seq(Seq(Value))
    BY <2>2, PackedFacts
  <2> QED
    BY <1>4, <1>13, <2>2, <2>3
<1>17. after # <<>> => Len(xs) = Ceil(Len(xs), d) * d
  <2>1. SUFFICES ASSUME after # <<>> PROVE Len(xs) = Ceil(Len(xs), d) * d
    OBVIOUS
  <2>2. c = move /\ e + move < L /\ l = d
    BY <1>12, <1>16, <2>1
  <2>3. move < L - k
    BY <1>4, <1>13, <2>2
  <2>4. move = (k - j) % d
    BY <1>11, <2>3
  <2>5. PICK n \in Nat : n = Len(xs)
    OBVIOUS
  <2>6. n = (p + (d - q)) + move
    <3>1. j - A = p /\ e - k = d - q
      <4>1. A + p = j /\ e = B + l /\ B + q = k /\ l = d
        BY <1>6, <1>9, <1>12, <2>2
      <4>2. d \in Nat /\ p \in Nat /\ q \in Nat
        BY <1>3, <1>6
      <4>3. j - A = p
        BY <4>1, <4>2
      <4>4. e - k = d - q
        BY <4>1, <4>2
      <4> QED
        BY <4>3, <4>4
    <3> QED
      BY <1>15, <2>2, <2>5, <3>1
  <2>7. d \in Nat \ {0} /\ j = Base(d, a) + p /\ k = Base(d, b) + q /\ n = (p + (d - q)) + ((k - j) % d)
    BY <1>3, <1>6, <1>9, <2>4, <2>6
  <2>8. n = Ceil(n, d) * d
    <3>1. a \in Nat \ {0} /\ b \in Nat \ {0} /\ a <= b /\ p \in Nat /\ q \in Nat /\ d \in Nat \ {0}
      BY <1>6, <1>9, <1>10, <2>7
    <3>2. j = Base(d, a) + p /\ k = Base(d, b) + q
      BY <2>7
    <3>3. n = (p + (d - q)) + ((k - j) % d)
      BY <2>7
    <3> QED
      BY <2>5, <3>1, <3>2, <3>3, AsideWhole DEF AsideNumbers
  <2> QED
    BY <2>5, <2>8
<1>18. PICK all \in BOOLEAN : all <=> NoneLeft(d, a, b, xs, after)
  OBVIOUS
<1>19. all <=> a = 1 /\ Ceil(Len(xs), d) = 0 /\ after = <<>>
  <2>1. PICK T \in Nat, m \in Nat : T = Ceil(Len(xs), d) /\ m = Len(after)
    <3>1. Len(xs) \in Nat /\ Len(after) \in Nat /\ d \in Nat \ {0}
      BY <1>3
    <3> QED
      BY <3>1, Ceiling
  <2>2. NoneLeft(d, a, b, xs, after) <=> b - a + 1 - T >= b + m
    BY <2>1 DEF NoneLeft
  <2>3. b - a + 1 - T >= b + m <=> a = 1 /\ T = 0 /\ m = 0
    <3>1. a \in Nat \ {0} /\ b \in Nat /\ T \in Nat /\ m \in Nat
      BY <1>6, <1>9
    <3> QED
      BY <3>1, NoneLeftIf
  <2>4. m = 0 <=> after = <<>>
    BY <2>1
  <2> QED
    BY <1>18, <2>1, <2>2, <2>3, <2>4
<1>20. PICK saved : saved = Saved(xs, d)
  OBVIOUS
<1>21. Chunks(SubSeq(vs, 1, a - 1) \o saved \o (IF all THEN <<<<>>>> ELSE <<>>) \o after, d,
              Span(s, 0, A) \o xs \o Span(s, x, L))
  <2>1. /\ d \in Nat \ {0} /\ Filled(vs, d, s) /\ a \in 1 .. Len(vs)
        /\ saved = [i \in 1 .. Ceil(Len(xs), d) |->
                      Do(d, <<>>, Puts(SubSeq(xs, (i - 1) * d + 1, Least(i * d, Len(xs)))))]
    BY <1>3, <1>4, <1>6, <1>20 DEF Saved
  <2>2. Packed(after, d, Span(s, x, L))
    BY <1>16
  <2> QED
    BY <1>6, <1>17, <1>19, <2>1, <2>2, RangePacked
<1>22. ErasedRange(vs, d, first, end) = SubSeq(vs, 1, a - 1) \o saved \o (IF all THEN <<<<>>>> ELSE <<>>) \o after
  <2>1. ErasedRange(vs, d, first, end) = Erasure(vs, d, move, a, p, b, q)
    BY <1>3, <1>8, <1>11, ErasureIs
  <2> QED
    BY <1>15, <1>16, <1>18, <1>20, <2>1 DEF Erasure
<1>23. Span(s, 0, A) \o xs \o Span(s, x, L) = Without(s, j, k)
  <2>1. Span(s, 0, A) \o (Span(s, A, j) \o Span(s, k, e) \o Span(s, e, x)) \o Span(s, x, Len(s))
         = Without(s, j, k)
    BY <1>4, <1>14, RangeContents
  <2> QED
    BY <1>4, <1>15, <2>1
<1> QED
  BY <1>3, <1>21, <1>22, <1>23

-----------------------------------------------------------------------------
(***************************************************************************)
(* Every operation.                                                        *)
(***************************************************************************)

(* clear() leaves no deque; otherwise the deques are the chunks of what    *)
(* they hold.  It says more than Structure: which deque holds which        *)
(* elements is what an operation that moves some of them relies on.        *)
IInv ==
  /\ deqSize \in Nat \ {0}
  /\ capacity \in Nat \ {0}
  /\ v = <<>> \/ Chunks(v, deqSize, Contents)

LEMMA Used ==
  ASSUME IInv, Usable
  PROVE  deqSize \in Nat \ {0} /\ capacity \in Nat \ {0} /\ Chunks(v, deqSize, Contents)
BY DEF IInv, Usable

LEMMA WhatIsHeld ==
  ASSUME NEW d \in Nat \ {0}, NEW vs, NEW s, Chunks(vs, d, s)
  PROVE  FlattenSeq(vs) = s /\ s \in Seq(Value) /\ Len(s) \in Nat
<1>1. Filled(vs, d, s)
  BY DEF Chunks
<1>2. FlattenSeq(vs) = s
  BY <1>1, FlattenFilled
<1>3. s \in Seq(Value) /\ Len(s) \in Nat
  BY <1>1, FilledFacts
<1> QED
  BY <1>2, <1>3

LEMMA UsedFacts ==
  ASSUME IInv, Usable
  PROVE  Contents \in Seq(Value) /\ Len(Contents) \in Nat /\ Size = Len(Contents)
<1>1. deqSize \in Nat \ {0} /\ Chunks(v, deqSize, Contents)
  BY Used
<1>2. PICK s : s = Contents
  OBVIOUS
<1>3. Chunks(v, deqSize, s)
  BY <1>1, <1>2
<1>4. Size = Len(s)
  BY <1>1, <1>3, EndsRefer DEF Size
<1>5. s \in Seq(Value) /\ Len(s) \in Nat
  BY <1>1, <1>3, WhatIsHeld
<1> QED
  BY <1>2, <1>4, <1>5

(* The step leaves an array that holds s.                                  *)
Leaves(s) == /\ deqSize' \in Nat \ {0}
             /\ capacity' \in Nat \ {0}
             /\ Chunks(v', deqSize', s)

(* Then the invariant holds again.                                         *)
LEMMA WhatIsLeft ==
  ASSUME NEW s, Leaves(s)
  PROVE  IInv' /\ Contents' = s
<1>1. PICK vs, d : vs = v' /\ d = deqSize'
  OBVIOUS
<1>2. d \in Nat \ {0} /\ Chunks(vs, d, s) /\ capacity' \in Nat \ {0}
  BY <1>1 DEF Leaves
<1>3. FlattenSeq(vs) = s
  BY <1>2, WhatIsHeld
<1>4. Contents' = s
  BY <1>1, <1>3 DEF Contents
<1> QED
  BY <1>1, <1>2, <1>4 DEF IInv

LEMMA KeptLeaves ==
  ASSUME IInv, Usable, Keep, NEW s, Chunks(v', deqSize, s)
  PROVE  Leaves(s)
<1>1. deqSize \in Nat \ {0} /\ capacity \in Nat \ {0}
  BY Used
<1> QED
  BY <1>1 DEF Leaves, Keep

LEMMA RebuiltLeaves ==
  ASSUME NEW n \in Nat, NEW xs \in Seq(Value), Rebuild(n, xs)
  PROVE  Leaves(xs)
<1>1. /\ Chunks(Built(n, xs).v, Built(n, xs).deqSize, xs)
      /\ Built(n, xs).deqSize \in Nat \ {0} /\ Built(n, xs).capacity \in Nat \ {0}
  BY BuiltChunks
<1>2. v' = Built(n, xs).v /\ deqSize' = Built(n, xs).deqSize /\ capacity' = Built(n, xs).capacity
  BY DEF Rebuild
<1> QED
  BY <1>1, <1>2 DEF Leaves

LEMMA PlaceOf ==
  ASSUME IInv, Usable, NEW k \in Nat, k <= Len(Contents)
  PROVE  Refers(v, deqSize, It(k), k)
<1>1. deqSize \in Nat \ {0} /\ Chunks(v, deqSize, Contents) /\ Len(Contents) \in Nat
  BY Used, UsedFacts
<1>2. PICK s : s = Contents
  OBVIOUS
<1>3. Chunks(v, deqSize, s) /\ 0 + k <= Len(s) /\ 0 \in Nat
  BY <1>1, <1>2
<1>4. Refers(v, deqSize, Begin, 0)
  BY <1>1, <1>3, EndsRefer
<1>5. PICK it : it = Begin
  OBVIOUS
<1>6. Refers(v, deqSize, it, 0)
  BY <1>4, <1>5
<1>7. Refers(v, deqSize, Plus(v, deqSize, it, k), 0 + k)
  BY <1>1, <1>3, <1>6, PlusRefers
<1> QED
  BY <1>5, <1>7 DEF It

LEMMA PushBackLeaves ==
  ASSUME IInv, NEW x \in Value, PushBack(x)
  PROVE  Leaves(Append(Contents, x))
<1>1. Usable /\ v' = Pushed(v, deqSize, x) /\ Keep
  BY DEF PushBack
<1>2. deqSize \in Nat \ {0} /\ Chunks(v, deqSize, Contents)
  BY <1>1, Used
<1>3. Filled(v, deqSize, Contents)
  BY <1>2 DEF Chunks
<1>4. Chunks(Pushed(v, deqSize, x), deqSize, Append(Contents, x))
  BY <1>2, <1>3, PushedFilled
<1> QED
  BY <1>1, <1>4, KeptLeaves

LEMMA PopBackLeaves ==
  ASSUME IInv, PopBack
  PROVE  Leaves(Front(Contents))
<1>1. Usable /\ Size > 0 /\ v' = Popped(v, deqSize) /\ Keep
  BY DEF PopBack
<1>2. deqSize \in Nat \ {0} /\ Chunks(v, deqSize, Contents) /\ Len(Contents) > 0
  BY <1>1, Used, UsedFacts
<1>3. Chunks(Popped(v, deqSize), deqSize, Front(Contents))
  BY <1>2, PoppedChunks
<1> QED
  BY <1>1, <1>3, KeptLeaves

LEMMA InsertLeaves ==
  ASSUME IInv, NEW x \in Value, NEW k \in 0 .. Size, Insert(k, x)
  PROVE  Leaves(With(Contents, k, x))
<1>1. Usable /\ v' = Inserted(v, deqSize, It(k), x) /\ Keep
  BY DEF Insert
<1>2. deqSize \in Nat \ {0} /\ Chunks(v, deqSize, Contents) /\ k \in Nat /\ k <= Len(Contents)
  BY <1>1, Used, UsedFacts
<1>3. PICK it : it = It(k) /\ Refers(v, deqSize, it, k)
  BY <1>1, <1>2, PlaceOf
<1>4. Chunks(Inserted(v, deqSize, it, x), deqSize, With(Contents, k, x))
  BY <1>2, <1>3, InsertedChunks
<1> QED
  BY <1>1, <1>3, <1>4, KeptLeaves

LEMMA EraseLeaves ==
  ASSUME IInv, NEW k \in 0 .. Size - 1, Erase(k)
  PROVE  Leaves(Without(Contents, k, k + 1))
<1>1. Usable /\ v' = Erased(v, deqSize, It(k)) /\ Keep
  BY DEF Erase
<1>2. Size = Len(Contents) /\ Len(Contents) \in Nat
  BY <1>1, UsedFacts
<1>3. /\ deqSize \in Nat \ {0} /\ Chunks(v, deqSize, Contents)
      /\ k \in Nat /\ k < Len(Contents) /\ k <= Len(Contents)
  BY <1>1, <1>2, Used
<1>4. PICK it : it = It(k) /\ Refers(v, deqSize, it, k)
  BY <1>1, <1>3, PlaceOf
<1>5. Chunks(Erased(v, deqSize, it), deqSize, Without(Contents, k, k + 1))
  BY <1>3, <1>4, ErasedChunks
<1> QED
  BY <1>1, <1>4, <1>5, KeptLeaves

LEMMA EraseRangeLeaves ==
  ASSUME IInv, NEW j \in 0 .. Size, NEW k \in 0 .. Size, EraseRange(j, k)
  PROVE  Leaves(Without(Contents, j, k))
<1>1. /\ Usable /\ Keep
      /\ v' = IF j < k THEN ErasedRange(v, deqSize, It(j), It(k)) ELSE v
  BY DEF EraseRange
<1>2. Size = Len(Contents) /\ Len(Contents) \in Nat
  BY <1>1, UsedFacts
<1>3. /\ deqSize \in Nat \ {0} /\ Chunks(v, deqSize, Contents)
      /\ j \in Nat /\ j <= Len(Contents) /\ k \in Nat /\ k <= Len(Contents)
  BY <1>1, <1>2, Used
<1>4. CASE j < k
  <2>1. PICK it : it = It(j) /\ Refers(v, deqSize, it, j)
    BY <1>1, <1>3, PlaceOf
  <2>2. PICK at : at = It(k) /\ Refers(v, deqSize, at, k)
    BY <1>1, <1>3, PlaceOf
  <2>3. Chunks(ErasedRange(v, deqSize, it, at), deqSize, Without(Contents, j, k))
    BY <1>3, <1>4, <2>1, <2>2, ErasedRangeChunks
  <2> QED
    BY <1>1, <1>4, <2>1, <2>2, <2>3, KeptLeaves
<1>5. CASE ~(j < k)
  <2>1. v' = v /\ Without(Contents, j, k) = Contents
    BY <1>1, <1>5 DEF Without
  <2> QED
    BY <1>1, <1>3, <2>1, KeptLeaves
<1> QED
  BY <1>4, <1>5

LEMMA SetLeaves ==
  ASSUME IInv, NEW x \in Value, NEW n \in 0 .. Size - 1, Set(n, x)
  PROVE  Leaves([Contents EXCEPT ![n + 1] = x])
<1>1. Usable /\ v' = Written(v, deqSize, n, x) /\ Keep
  BY DEF Set
<1>2. Size = Len(Contents) /\ Len(Contents) \in Nat
  BY <1>1, UsedFacts
<1>3. deqSize \in Nat \ {0} /\ Chunks(v, deqSize, Contents) /\ n \in Nat /\ n < Len(Contents)
  BY <1>1, <1>2, Used
<1>4. Chunks(Written(v, deqSize, n, x), deqSize, [Contents EXCEPT ![n + 1] = x])
  BY <1>3, WrittenChunks
<1> QED
  BY <1>1, <1>4, KeptLeaves

LEMMA CopiesMade ==
  ASSUME NEW n \in Nat, NEW x \in Value
  PROVE  Copies(n, x) \in Seq(Value) /\ (n = 0 => Copies(n, x) = <<>>)
<1>1. Copies(n, x) \in Seq(Value)
  BY DEF Copies
<1>2. ASSUME n = 0 PROVE Copies(n, x) = <<>>
  BY <1>2 DEF Copies
<1> QED
  BY <1>1, <1>2

LEMMA WholePiece ==
  ASSUME NEW S, NEW s \in Seq(S)
  PROVE  SubSeq(s, 1, Len(s)) = s /\ s \o <<>> = s
OBVIOUS

(* resize keeps what it can and adds copies of x, in each of the ways in   *)
(* which the model puts the new elements together.                         *)
LEMMA ResizedParts ==
  ASSUME NEW s \in Seq(Value), NEW n \in Nat, NEW x \in Value
  PROVE  /\ Resized(s, n, x) \in Seq(Value)
         /\ SubSeq(s, 1, Least(n, Len(s))) \o Copies(n - Least(n, Len(s)), x) = Resized(s, n, x)
         /\ n >= Len(s) => /\ n - Len(s) \in Nat
                           /\ s \o Copies(n - Len(s), x) = Resized(s, n, x)
         /\ n < Len(s) => SubSeq(s, 1, n) = Resized(s, n, x)
<1>1. PICK l \in Nat : l = Len(s)
  OBVIOUS
<1>2. CASE n < l
  <2>1. Least(n, l) = n /\ n - n = 0 /\ n <= l /\ ~(n >= l)
    BY <1>2 DEF Least
  <2>2. SubSeq(s, 1, n) \in Seq(Value)
    BY <1>1, <1>2
  <2>3. Copies(n - n, x) = <<>>
    BY <2>1, CopiesMade
  <2>4. SubSeq(s, 1, n) \o <<>> = SubSeq(s, 1, n)
    BY <2>2, WholePiece
  <2>5. Resized(s, n, x) = SubSeq(s, 1, n)
    BY <1>1, <2>1 DEF Resized
  <2> QED
    BY <1>1, <2>1, <2>2, <2>3, <2>4, <2>5
<1>3. CASE n >= l
  <2>1. PICK m \in Nat : m = n - l
    BY <1>3
  <2>2. Least(n, l) = l /\ ~(n < l)
    BY <1>3 DEF Least
  <2>3. PICK c \in Seq(Value) : c = Copies(m, x)
    BY CopiesMade
  <2>4. SubSeq(s, 1, l) = s /\ s \o <<>> = s
    BY <1>1, WholePiece
  <2>5. Resized(s, n, x) = s \o c
    <3>1. CASE n = l
      <4>1. m = 0 /\ n <= l
        BY <2>1, <3>1
      <4>2. c = <<>>
        BY <2>3, <4>1, CopiesMade
      <4> QED
        BY <1>1, <2>4, <3>1, <4>1, <4>2 DEF Resized
    <3>2. CASE n # l
      <4>1. ~(n <= l)
        BY <1>3, <3>2
      <4> QED
        BY <1>1, <2>1, <2>3, <4>1 DEF Resized
    <3> QED
      BY <3>1, <3>2
  <2>6. s \o c \in Seq(Value)
    BY <2>3
  <2> QED
    BY <1>1, <2>1, <2>2, <2>3, <2>4, <2>5, <2>6
<1>4. n < l \/ n >= l
  OBVIOUS
<1> QED
  BY <1>2, <1>3, <1>4

(* resize, in place or into a new array.                                   *)
LEMMA ResizeLeaves ==
  ASSUME IInv, NEW x \in Value, NEW n \in Nat, NEW mode, Resize(n, x, mode)
  PROVE  Leaves(Resized(Contents, n, x))
<1>1. PICK s \in Seq(Value) : s = Contents /\ Size = Len(s) /\ Usable
  BY UsedFacts DEF Resize
<1>2. PICK rest : rest = SubSeq(s, 1, Least(n, Len(s))) \o Copies(n - Least(n, Len(s)), x)
  OBVIOUS
<1>3. \/ Rebuild(n, rest)
      \/ /\ v' = IF n >= Len(s) THEN PushedAll(v, deqSize, Copies(n - Len(s), x)) ELSE Decreased(v, deqSize, n)
         /\ Keep
  <2>1. IF mode = "YES" \/ (mode = "IF_NEEDED" /\ n > capacity)
        THEN Rebuild(n, rest)
        ELSE /\ v' = IF n >= Len(s) THEN PushedAll(v, deqSize, Copies(n - Len(s), x)) ELSE Decreased(v, deqSize, n)
             /\ Keep
    BY <1>1, <1>2, Zenon DEF Resize
  <2> QED
    BY <2>1
<1>4. /\ rest = Resized(s, n, x) /\ rest \in Seq(Value) /\ Len(s) \in Nat
      /\ n >= Len(s) => n - Len(s) \in Nat /\ s \o Copies(n - Len(s), x) = Resized(s, n, x)
      /\ n < Len(s) => SubSeq(s, 1, n) = Resized(s, n, x)
  <2>1. Len(s) \in Nat
    OBVIOUS
  <2>2. SubSeq(s, 1, Least(n, Len(s))) \o Copies(n - Least(n, Len(s)), x) = Resized(s, n, x)
    BY ResizedParts
  <2>3. Resized(s, n, x) \in Seq(Value)
    BY ResizedParts
  <2>4. n >= Len(s) => n - Len(s) \in Nat /\ s \o Copies(n - Len(s), x) = Resized(s, n, x)
    BY ResizedParts
  <2>5. n < Len(s) => SubSeq(s, 1, n) = Resized(s, n, x)
    BY ResizedParts
  <2> QED
    BY <1>2, <2>1, <2>2, <2>3, <2>4, <2>5
<1>5. deqSize \in Nat \ {0} /\ Chunks(v, deqSize, s)
  BY <1>1, Used
<1>6. CASE Rebuild(n, rest)
  BY <1>1, <1>4, <1>6, RebuiltLeaves
<1>7. ASSUME v' = IF n >= Len(s) THEN PushedAll(v, deqSize, Copies(n - Len(s), x)) ELSE Decreased(v, deqSize, n),
             Keep
      PROVE  Leaves(Resized(Contents, n, x))
  <2>1. CASE n >= Len(s)
    <3>1. PICK c \in Seq(Value) : c = Copies(n - Len(s), x)
      BY <1>4, <2>1, CopiesMade
    <3>2. Chunks(PushedAll(v, deqSize, c), deqSize, s \o c)
      BY <1>5, <3>1, PushedAllChunks
    <3>3. v' = PushedAll(v, deqSize, c) /\ s \o c = Resized(s, n, x)
      BY <1>4, <1>7, <2>1, <3>1
    <3>4. Chunks(v', deqSize, Resized(s, n, x))
      BY <3>2, <3>3
    <3> QED
      BY <1>1, <1>7, <3>4, KeptLeaves
  <2>2. CASE n < Len(s)
    <3>1. ~(n >= Len(s))
      BY <1>4, <2>2
    <3>2. Chunks(Decreased(v, deqSize, n), deqSize, SubSeq(s, 1, n))
      BY <1>5, <2>2, DecreasedChunks
    <3>3. Chunks(v', deqSize, Resized(s, n, x))
      BY <1>4, <1>7, <2>2, <3>1, <3>2
    <3> QED
      BY <1>1, <1>7, <3>3, KeptLeaves
  <2> QED
    BY <1>4, <2>1, <2>2
<1> QED
  BY <1>3, <1>6, <1>7

LEMMA ReserveLeaves ==
  ASSUME IInv, NEW n \in Nat, Reserve(n)
  PROVE  Leaves(Contents)
<1>1. Rebuild(n, Contents) /\ Contents \in Seq(Value)
  BY UsedFacts DEF Reserve
<1> QED
  BY <1>1, RebuiltLeaves

LEMMA CopyLeaves ==
  ASSUME IInv, Copy
  PROVE  Leaves(Contents)
<1>1. Rebuild(capacity, Contents) /\ Contents \in Seq(Value) /\ capacity \in Nat
  BY Used, UsedFacts DEF Copy
<1> QED
  BY <1>1, RebuiltLeaves

LEMMA SwapLeaves ==
  ASSUME NEW n \in Nat, Swap(n)
  PROVE  Leaves(<<>>)
<1>1. Rebuild(n, <<>>) /\ <<>> \in Seq(Value)
  BY DEF Swap
<1> QED
  BY <1>1, RebuiltLeaves

LEMMA ReplaceLeaves ==
  ASSUME NEW n \in Nat, NEW x \in Value, Replace(n, x)
  PROVE  Leaves(Copies(n, x))
<1>1. Rebuild(n, Copies(n, x)) /\ Copies(n, x) \in Seq(Value)
  BY CopiesMade DEF Replace
<1> QED
  BY <1>1, RebuiltLeaves

(* clear, after which there are no chunks.                                 *)
LEMMA ClearLeaves ==
  ASSUME IInv, Clear
  PROVE  IInv' /\ Contents' = <<>>
<1>1. v' = <<>> /\ deqSize' = deqSize /\ capacity' = capacity
  BY DEF Clear, Keep
<1>2. FlattenSeq(<<>>) = <<>>
  BY DEF FlattenSeq
<1>3. Contents' = <<>>
  BY <1>1, <1>2 DEF Contents
<1> QED
  BY <1>1, <1>3 DEF IInv

-----------------------------------------------------------------------------
(* What a vector makes of a call, in the words of the lemmas above.        *)
LEMMA VectorResults ==
  ASSUME NEW s
  PROVE  /\ \A x : Sequence!Result(s, <<"push_back", x>>) = Append(s, x)
         /\ Sequence!Result(s, <<"pop_back">>) = Front(s)
         /\ \A n : Sequence!Result(s, <<"reserve", n>>) = s
         /\ \A n : Sequence!Result(s, <<"swap", n>>) = <<>>
         /\ Sequence!Result(s, <<"copy">>) = s
         /\ Sequence!Result(s, <<"clear">>) = <<>>
BY DEF Sequence!Result, Sequence!Front, Front

LEMMA VectorInsert ==
  ASSUME NEW s, NEW k \in Nat, NEW x
  PROVE  Sequence!Result(s, <<"insert", k, x>>) = With(s, k, x)
<1>1. Sequence!Result(s, <<"insert", k, x>>) = Sequence!InsertAt(s, k + 1, x)
  BY DEF Sequence!Result
<1>2. (k + 1) - 1 = k
  OBVIOUS
<1> QED
  BY <1>1, <1>2, Zenon DEF Sequence!InsertAt, With

LEMMA VectorErase ==
  ASSUME NEW s, NEW j, NEW k
  PROVE  /\ Sequence!Result(s, <<"erase", j>>) = Without(s, j, j + 1)
         /\ Sequence!Result(s, <<"erase_range", j, k>>) = Without(s, j, k)
<1>1. ASSUME NEW l PROVE Sequence!Without(s, j, l) = Without(s, j, l)
  BY Zenon DEF Sequence!Without, Without
<1> QED
  BY <1>1 DEF Sequence!Result

LEMMA VectorSet ==
  ASSUME NEW s, NEW n, NEW x
  PROVE  Sequence!Result(s, <<"set", n, x>>) = [s EXCEPT ![n + 1] = x]
BY DEF Sequence!Result

LEMMA VectorResize ==
  ASSUME NEW s, NEW n, NEW x, NEW mode
  PROVE  /\ Sequence!Result(s, <<"resize", n, x, mode>>) = Resized(s, n, x)
         /\ Sequence!Result(s, <<"replace", n, x>>) = Copies(n, x)
<1>1. ASSUME NEW m PROVE Sequence!Copies(m, x) = Copies(m, x)
  BY Zenon DEF Sequence!Copies, Copies
<1>2. Sequence!Resized(s, n, x) = Resized(s, n, x)
  BY <1>1, Zenon DEF Sequence!Resized, Resized
<1> QED
  BY <1>1, <1>2 DEF Sequence!Result

-----------------------------------------------------------------------------
LEMMA InitInvariant == Init => IInv /\ Contents = <<>>
<1> SUFFICES ASSUME Init PROVE IInv /\ Contents = <<>>
  OBVIOUS
<1>1. PICK d \in Nat \ {0} : d = deqSize
  BY SizesChosen DEF Init
<1>2. capacity \in Nat \ {0} /\ v = <<<<>>>>
  BY SizesChosen DEF Init
<1>3. Chunks(v, d, <<>>)
  BY <1>2, NoneFilled
<1>4. Contents = <<>>
  BY <1>3, WhatIsHeld DEF Contents
<1> QED
  BY <1>1, <1>2, <1>3, <1>4 DEF IInv

(* Every step leaves the chunks of what a vector would hold.               *)
LEMMA NextHolds ==
  ASSUME IInv, Next
  PROVE  IInv' /\ Contents' = Sequence!Result(Contents, call')
<1>0. /\ MaxSize \in Nat /\ MaxReserve \in Nat
      /\ \A n \in 0 .. MaxSize : n \in Nat
      /\ \A n \in 0 .. MaxReserve : n \in Nat
  BY IgushArrayAssumption
<1>1. ASSUME NEW x \in Value, PushBack(x), call' = <<"push_back", x>>
      PROVE  IInv' /\ Contents' = Sequence!Result(Contents, call')
  <2>1. Sequence!Result(Contents, call') = Append(Contents, x)
    BY <1>1, VectorResults
  <2>2. Leaves(Append(Contents, x))
    BY <1>1, PushBackLeaves
  <2> QED
    BY <2>1, <2>2, WhatIsLeft
<1>2. ASSUME PopBack, call' = <<"pop_back">>
      PROVE  IInv' /\ Contents' = Sequence!Result(Contents, call')
  <2>1. Sequence!Result(Contents, call') = Front(Contents)
    BY <1>2, VectorResults
  <2>2. Leaves(Front(Contents))
    BY <1>2, PopBackLeaves
  <2> QED
    BY <2>1, <2>2, WhatIsLeft
<1>3. ASSUME NEW x \in Value, NEW k \in 0 .. Size, Insert(k, x), call' = <<"insert", k, x>>
      PROVE  IInv' /\ Contents' = Sequence!Result(Contents, call')
  <2>0. k \in Nat
    BY UsedFacts, <1>3 DEF Insert
  <2>1. Sequence!Result(Contents, call') = With(Contents, k, x)
    <3>1. Sequence!Result(Contents, <<"insert", k, x>>) = With(Contents, k, x)
      BY <2>0, VectorInsert
    <3> QED
      BY <1>3, <3>1
  <2>2. Leaves(With(Contents, k, x))
    BY <1>3, InsertLeaves
  <2> QED
    BY <2>1, <2>2, WhatIsLeft
<1>4. ASSUME NEW k \in 0 .. Size - 1, Erase(k), call' = <<"erase", k>>
      PROVE  IInv' /\ Contents' = Sequence!Result(Contents, call')
  <2>1. Sequence!Result(Contents, call') = Without(Contents, k, k + 1)
    <3>1. Sequence!Result(Contents, <<"erase", k>>) = Without(Contents, k, k + 1)
      BY VectorErase
    <3> QED
      BY <1>4, <3>1
  <2>2. Leaves(Without(Contents, k, k + 1))
    BY <1>4, EraseLeaves
  <2> QED
    BY <2>1, <2>2, WhatIsLeft
<1>5. ASSUME NEW j \in 0 .. Size, NEW k \in 0 .. Size, EraseRange(j, k), call' = <<"erase_range", j, k>>
      PROVE  IInv' /\ Contents' = Sequence!Result(Contents, call')
  <2>1. Sequence!Result(Contents, call') = Without(Contents, j, k)
    <3>1. Sequence!Result(Contents, <<"erase_range", j, k>>) = Without(Contents, j, k)
      BY VectorErase
    <3> QED
      BY <1>5, <3>1
  <2>2. Leaves(Without(Contents, j, k))
    BY <1>5, EraseRangeLeaves
  <2> QED
    BY <2>1, <2>2, WhatIsLeft
<1>6. ASSUME NEW x \in Value, NEW n \in 0 .. MaxSize, NEW mode \in {"NO", "IF_NEEDED", "YES"},
             Resize(n, x, mode), call' = <<"resize", n, x, mode>>
      PROVE  IInv' /\ Contents' = Sequence!Result(Contents, call')
  <2>1. Sequence!Result(Contents, call') = Resized(Contents, n, x)
    <3>1. Sequence!Result(Contents, <<"resize", n, x, mode>>) = Resized(Contents, n, x)
      BY VectorResize
    <3> QED
      BY <1>6, <3>1
  <2>2. Leaves(Resized(Contents, n, x))
    BY <1>0, <1>6, ResizeLeaves
  <2> QED
    BY <2>1, <2>2, WhatIsLeft
<1>7. ASSUME NEW n \in 0 .. MaxReserve, Reserve(n), call' = <<"reserve", n>>
      PROVE  IInv' /\ Contents' = Sequence!Result(Contents, call')
  <2>1. Sequence!Result(Contents, call') = Contents
    BY <1>7, VectorResults
  <2>2. Leaves(Contents)
    BY <1>0, <1>7, ReserveLeaves
  <2> QED
    BY <2>1, <2>2, WhatIsLeft
<1>8. ASSUME NEW n \in 0 .. MaxReserve, Swap(n), call' = <<"swap", n>>
      PROVE  IInv' /\ Contents' = Sequence!Result(Contents, call')
  <2>1. Sequence!Result(Contents, call') = <<>>
    BY <1>8, VectorResults
  <2>2. Leaves(<<>>)
    BY <1>0, <1>8, SwapLeaves
  <2> QED
    BY <2>1, <2>2, WhatIsLeft
<1>9. ASSUME NEW x \in Value, NEW n \in 0 .. MaxSize, Replace(n, x), call' = <<"replace", n, x>>
      PROVE  IInv' /\ Contents' = Sequence!Result(Contents, call')
  <2>1. Sequence!Result(Contents, call') = Copies(n, x)
    <3>1. Sequence!Result(Contents, <<"replace", n, x>>) = Copies(n, x)
      BY VectorResize
    <3> QED
      BY <1>9, <3>1
  <2>2. Leaves(Copies(n, x))
    BY <1>0, <1>9, ReplaceLeaves
  <2> QED
    BY <2>1, <2>2, WhatIsLeft
<1>10. ASSUME NEW x \in Value, NEW n \in 0 .. Size - 1, Set(n, x), call' = <<"set", n, x>>
       PROVE  IInv' /\ Contents' = Sequence!Result(Contents, call')
  <2>1. Sequence!Result(Contents, call') = [Contents EXCEPT ![n + 1] = x]
    <3>1. Sequence!Result(Contents, <<"set", n, x>>) = [Contents EXCEPT ![n + 1] = x]
      BY VectorSet
    <3> QED
      BY <1>10, <3>1
  <2>2. Leaves([Contents EXCEPT ![n + 1] = x])
    BY <1>10, SetLeaves
  <2> QED
    BY <2>1, <2>2, WhatIsLeft
<1>11. ASSUME Copy, call' = <<"copy">>
       PROVE  IInv' /\ Contents' = Sequence!Result(Contents, call')
  <2>1. Sequence!Result(Contents, call') = Contents
    BY <1>11, VectorResults
  <2>2. Leaves(Contents)
    BY <1>11, CopyLeaves
  <2> QED
    BY <2>1, <2>2, WhatIsLeft
<1>12. ASSUME Clear, call' = <<"clear">>
       PROVE  IInv' /\ Contents' = Sequence!Result(Contents, call')
  <2>1. Sequence!Result(Contents, call') = <<>>
    BY <1>12, VectorResults
  <2> QED
    BY <1>12, <2>1, ClearLeaves
<1> QED
  BY <1>1, <1>2, <1>3, <1>4, <1>5, <1>6, <1>7, <1>8, <1>9, <1>10, <1>11, <1>12, Zenon DEF Next

LEMMA StepInvariant == IInv /\ [Next]_vars => IInv'
<1> SUFFICES ASSUME IInv, [Next]_vars PROVE IInv'
  OBVIOUS
<1>1. CASE Next
  BY <1>1, NextHolds
<1>2. CASE UNCHANGED vars
  BY <1>2 DEF vars, IInv, Contents
<1> QED
  BY <1>1, <1>2

(* The invariant is stronger than all the properties of states.            *)
LEMMA InvariantMeans == IInv => TypeOK /\ Structure /\ DequesNeverThrow /\ IteratorsAgree
<1> SUFFICES ASSUME IInv PROVE TypeOK /\ Structure /\ DequesNeverThrow /\ IteratorsAgree
  OBVIOUS
<1>1. CASE v = <<>>
  <2>1. ~Usable /\ TypeOK
    BY <1>1 DEF Usable, IInv, TypeOK
  <2>2. Intact
    BY <1>1 DEF Intact, Range
  <2> QED
    BY <2>1, <2>2 DEF Structure, DequesNeverThrow, IteratorsAgree
<1>2. CASE Chunks(v, deqSize, Contents)
  <2>1. PICK vs, d, s : vs = v /\ d = deqSize /\ s = Contents
    OBVIOUS
  <2>2. d \in Nat \ {0} /\ Filled(vs, d, s) /\ (Len(vs) > 1 => vs[Len(vs)] # <<>>) /\ capacity \in Nat \ {0}
    BY <1>2, <2>1 DEF IInv, Chunks
  <2>3. /\ vs \in Seq(Seq(Value)) /\ Len(vs) \in Nat \ {0} /\ Len(vs) \in 1 .. Len(vs)
        /\ Last(vs) = vs[Len(vs)]
        /\ \A i \in 1 .. Len(vs) :
             vs[i] # Thrown /\ Len(vs[i]) <= d /\ (i < Len(vs) => Len(vs[i]) = d)
    BY <2>2, FilledFacts
  <2>4. vs \in Seq({Thrown} \union Seq(Value))
    <3>1. \A i \in 1 .. Len(vs) : vs[i] \in {Thrown} \union Seq(Value)
      BY <2>3
    <3> QED
      BY <2>3, <3>1
  <2>5. TypeOK
    BY <2>1, <2>2, <2>4 DEF TypeOK
  <2>6. Intact
    <3>1. DOMAIN vs = 1 .. Len(vs)
      BY <2>3
    <3> QED
      BY <2>1, <2>3, <3>1 DEF Intact, Range
  <2>7. Structure
    <3>1. \A i \in 1 .. Len(vs) - 1 : Len(vs[i]) = d
      <4>1. \A i \in 1 .. Len(vs) - 1 : i \in 1 .. Len(vs) /\ i < Len(vs)
        BY <2>3
      <4> QED
        BY <2>3, <4>1
    <3>2. Len(Last(vs)) <= d
      BY <2>3
    <3>3. Last(vs) = <<>> => Len(vs) = 1
      <4>1. Last(vs) = <<>> => ~(Len(vs) > 1)
        BY <2>2, <2>3
      <4>2. Len(vs) \in Nat \ {0}
        BY <2>3
      <4> QED
        BY <4>1, <4>2
    <3> QED
      BY <2>1, <3>1, <3>2, <3>3 DEF Structure
  <2>8. IteratorsAgree
    BY <1>2, <2>1, <2>2, IteratorsHold
  <2> QED
    BY <2>5, <2>6, <2>7, <2>8 DEF DequesNeverThrow
<1> QED
  BY <1>1, <1>2 DEF IInv

(* Through any sequence of calls the deques are the chunks of what the     *)
(* array holds, or there are none after clear().                           *)
THEOREM Invariance == Spec => []IInv
BY InitInvariant, StepInvariant, PTL DEF Spec

(* Deques hold elements, and neither of the two sizes becomes 0: _reserve  *)
(* never leaves anything to be divided by 0.                               *)
THEOREM TypeCorrect == Spec => []TypeOK
BY Invariance, InvariantMeans, PTL

(* Every deque but the last is full and none takes more than it can, for   *)
(* every number of elements and deques: what operator[], size() and the    *)
(* iterators rely on.                                                      *)
THEOREM StructureHolds == Spec => []Structure
BY Invariance, InvariantMeans, PTL

(* No operation, however many deques it moves elements between, puts one   *)
(* into a full deque or takes one from an empty deque.                     *)
THEOREM NeverThrow == Spec => []DequesNeverThrow
BY Invariance, InvariantMeans, PTL

(* The arithmetic of operator[] and of the iterators agrees about the      *)
(* place of every element.                                                 *)
THEOREM IteratorsAgreed == Spec => []IteratorsAgree
BY Invariance, InvariantMeans, PTL

(* The array implements the vector: after every call, insert and the       *)
(* erasures that move elements through all later deques included, it holds *)
(* what a vector would.                                                    *)
THEOREM Implementation == Spec => ImplementsVector
<1>1. IInv /\ [Next]_vars => [Sequence!Next]_Sequence!vars
  <2> SUFFICES ASSUME IInv, [Next]_vars PROVE [Sequence!Next]_Sequence!vars
    OBVIOUS
  <2>1. CASE Next
    BY <2>1, NextHolds DEF Sequence!Next
  <2>2. CASE UNCHANGED vars
    BY <2>2 DEF vars, Sequence!vars, Contents
  <2> QED
    BY <2>1, <2>2
<1>2. Init => Sequence!Init
  BY InitInvariant DEF Init, Sequence!Init
<1> QED
  BY <1>1, <1>2, Invariance, PTL DEF Spec, ImplementsVector, Sequence!Spec
=============================================================================
