-------------------------- MODULE CmdOptionsProofs --------------------------
(***************************************************************************)
(* The command line, for any options, any arguments and any number of      *)
(* them: what the lookups of CmdOptions find in argv is what was typed.    *)
(***************************************************************************)
EXTENDS CmdOptions, Lemmas

Argument == Value \union Option \union Flag \union {Empty}

NothingScanned == [params |-> <<>>, skip |-> FALSE]

Scans == [params : Seq(Word), skip : BOOLEAN]

LEMMA ScannedType ==
  ASSUME NEW was \in Scans, NEW a
  PROVE  Scanned(was, a) \in Scans
<1>1. was.params \in Seq(Word) /\ was.skip \in BOOLEAN
  BY DEF Scans
<1>2. (IF ~was.skip /\ a \in Word THEN Append(was.params, a) ELSE was.params) \in Seq(Word)
  BY <1>1
<1>3. (~was.skip /\ SkipsNext(a)) \in BOOLEAN
  BY <1>1 DEF SkipsNext
<1> QED
  BY <1>2, <1>3 DEF Scans, Scanned

(* f[i] is what the loop of get_params has after i of the arguments.       *)
Scanning(args, f) ==
  /\ f[0] = NothingScanned
  /\ \A i \in 1 .. Len(args) : f[i] = Scanned(f[i - 1], args[i])

LEMMA ScanRuns ==
  ASSUME NEW args \in Seq(Argument)
  PROVE  \E f : Scanning(args, f) /\ Scan(args) = f[Len(args)]
<1> DEFINE n == Len(args)
           step == [i \in 1 .. n |-> [was \in Scans |-> Scanned(was, args[i])]]
           R(f) == f = [i \in 0 .. n |-> IF i = 0 THEN NothingScanned ELSE Scanned(f[i - 1], args[i])]
<1>1. n \in Nat
  OBVIOUS
<1>2. NothingScanned \in Scans
  BY DEF NothingScanned, Scans
<1>3. step \in Steps(n, Scans)
  BY ScannedType DEF Steps
<1>4. \A i \in 1 .. n : \A was \in Scans : step[i][was] = Scanned(was, args[i])
  OBVIOUS
<1> HIDE DEF step
<1>5. PICK g : Iteration(g, n, Scans, NothingScanned, step)
  BY <1>1, <1>2, <1>3, Iterates
<1>6. R(g)
  <2>1. g \in [0 .. n -> Scans] /\ g[0] = NothingScanned /\ \A i \in 1 .. n : g[i] = step[i][g[i - 1]]
    BY <1>5 DEF Iteration
  <2> HIDE DEF n
  <2>2. ASSUME NEW i \in 1 .. n PROVE g[i] = Scanned(g[i - 1], args[i])
    <3>1. g[i - 1] \in Scans
      BY <1>1, <2>1
    <3> QED
      BY <1>4, <2>1, <3>1
  <2>3. \A i \in 0 .. n : g[i] = IF i = 0 THEN NothingScanned ELSE Scanned(g[i - 1], args[i])
    BY <1>1, <2>1, <2>2
  <2>4. g = [i \in 0 .. n |-> g[i]]
    BY <2>1
  <2> QED
    BY <2>3, <2>4
<1> DEFINE r == CHOOSE f : R(f)
<1>7. Scan(args) = r[n]
  BY DEF Scan, NothingScanned
<1>8. R(r)
  <2> HIDE DEF R
  <2> QED
    BY <1>6
<1> HIDE DEF r, n
<1>9. r[0] = NothingScanned /\ \A i \in 1 .. n : r[i] = Scanned(r[i - 1], args[i])
  BY <1>1, <1>8
<1> QED
  BY <1>7, <1>9 DEF Scanning, n

(* One more argument is one more turn of the loop.                         *)
LEMMA ScanMore ==
  ASSUME NEW args \in Seq(Argument), NEW a \in Argument
  PROVE  Scan(Append(args, a)) = Scanned(Scan(args), a)
<1> DEFINE n == Len(args)
           more == Append(args, a)
<1>1. /\ n \in Nat /\ more \in Seq(Argument) /\ Len(more) = n + 1 /\ more[n + 1] = a
      /\ \A i \in 1 .. n : more[i] = args[i]
  OBVIOUS
<1>2. PICK f : Scanning(args, f) /\ Scan(args) = f[n]
  BY ScanRuns
<1> HIDE DEF more
<1>3. PICK g : Scanning(more, g) /\ Scan(more) = g[n + 1]
  BY <1>1, ScanRuns
<1>4. /\ f[0] = NothingScanned /\ \A i \in 1 .. n : f[i] = Scanned(f[i - 1], args[i])
      /\ g[0] = NothingScanned /\ \A i \in 1 .. n + 1 : g[i] = Scanned(g[i - 1], more[i])
  BY <1>1, <1>2, <1>3 DEF Scanning
<1> DEFINE K == {i \in 0 .. n : f[i] = g[i]}
<1> HIDE DEF n
<1>5. 0 \in K
  BY <1>1, <1>4
<1>6. ASSUME NEW i \in 0 .. n - 1, i \in K PROVE i + 1 \in K
  <2>1. i + 1 \in 1 .. n /\ i + 1 \in 1 .. n + 1 /\ i + 1 \in 0 .. n /\ (i + 1) - 1 = i
    BY <1>1
  <2> QED
    BY <1>1, <1>4, <1>6, <2>1
<1>7. n \in K
  <2> HIDE DEF K
  <2>1. 0 .. n \subseteq K
    BY <1>1, <1>5, <1>6, UpTo
  <2> QED
    BY <1>1, <2>1
<1>8. n + 1 \in 1 .. n + 1 /\ (n + 1) - 1 = n
  BY <1>1
<1> QED
  BY <1>1, <1>2, <1>3, <1>4, <1>7, <1>8 DEF more

-----------------------------------------------------------------------------
(* Where an option is found first.                                         *)
FirstAt(s, o, i) == i \in 1 .. Len(s) /\ s[i] = o /\ \A j \in 1 .. i - 1 : s[j] # o

LEMMA FirstPlace ==
  ASSUME argv \in Seq(Argument), NEW o, NEW i, FirstAt(argv, o, i)
  PROVE  Place(o) = i
<1> DEFINE I == {j \in 1 .. Len(argv) : argv[j] = o}
<1>1. i \in I /\ i \in Nat /\ Len(argv) \in Nat
  BY DEF FirstAt
<1>2. \A j \in I : i <= j
  <2> TAKE j \in I
  <2>1. j \in 1 .. Len(argv) /\ ~(j \in 1 .. i - 1)
    BY DEF FirstAt
  <2> QED
    BY <1>1, <2>1
<1>3. Min(I) = i
  <2>1. \A j \in I : j \in Nat
    OBVIOUS
  <2> HIDE DEF I
  <2>2. \A x \in I : (\A y \in I : x <= y) => x = i
    BY <1>1, <1>2, <2>1
  <2> QED
    BY <1>1, <1>2, <2>2 DEF Min
<1>4. o \in Range(argv)
  BY DEF FirstAt, Range
<1>5. Place(o) = IF I # {} THEN Min(I) ELSE 0
  BY <1>4 DEF Place, SelectInSeq
<1> HIDE DEF I
<1> QED
  BY <1>1, <1>3, <1>5

(* What m says of option o on the line s; `over' when nothing may follow.  *)
Meaning(s, o, m, over) ==
  \/ m = {} /\ \A j \in 1 .. Len(s) : s[j] # o
  \/ \E i \in 1 .. Len(s) :
       /\ FirstAt(s, o, i)
       /\ i < Len(s) => m = {s[i + 1]}
       /\ i = Len(s) => m = {Empty} /\ over

(* The lookups find the value that was meant only as long as a last option *)
(* without one ends the line, and no value is skipped or taken for one.    *)
IInv ==
  /\ argv \in Seq(Argument)
  /\ meant \in [Option -> SUBSET Argument]
  /\ \A o \in Option : Meaning(argv, o, meant[o], items = MaxItems)
  /\ Scan(argv) \in Scans
  /\ Scan(argv).params = words
  /\ Scan(argv).skip => items = MaxItems

(* A line that gets longer, and may: what came first stays first.          *)
LEMMA MeaningStays ==
  ASSUME NEW s \in Seq(Argument), NEW args \in Seq(Argument), NEW o, NEW m, NEW over,
         Meaning(s, o, m, FALSE), m # {} \/ \A j \in 1 .. Len(args) : args[j] # o
  PROVE  Meaning(s \o args, o, m, over)
<1> DEFINE t == s \o args
<1>1. /\ Len(s) \in Nat /\ Len(args) \in Nat /\ Len(t) = Len(s) + Len(args)
      /\ \A j \in 1 .. Len(s) : t[j] = s[j]
      /\ \A j \in 1 .. Len(args) : t[Len(s) + j] = args[j]
  BY ConcatProperties
<1> HIDE DEF t
<1>2. CASE m = {} /\ \A j \in 1 .. Len(s) : s[j] # o
  <2>1. ASSUME NEW j \in 1 .. Len(t) PROVE t[j] # o
    <3>1. CASE j \in 1 .. Len(s)
      BY <1>1, <1>2, <3>1
    <3>2. CASE j \notin 1 .. Len(s)
      <4>1. j - Len(s) \in 1 .. Len(args) /\ Len(s) + (j - Len(s)) = j
        BY <1>1, <3>2
      <4> QED
        BY <1>1, <1>2, <4>1
    <3> QED
      BY <3>1, <3>2
  <2> QED
    BY <1>2, <2>1 DEF Meaning, t
<1>3. CASE ~(m = {} /\ \A j \in 1 .. Len(s) : s[j] # o)
  <2>1. PICK i \in 1 .. Len(s) : FirstAt(s, o, i) /\ i < Len(s) /\ m = {s[i + 1]}
    <3>1. PICK i \in 1 .. Len(s) :
            FirstAt(s, o, i) /\ (i < Len(s) => m = {s[i + 1]}) /\ i # Len(s)
      BY <1>3 DEF Meaning
    <3> QED
      BY <1>1, <3>1
  <2>2. i \in 1 .. Len(t) /\ i + 1 \in 1 .. Len(s) /\ i < Len(t) /\ i # Len(t)
    BY <1>1, <2>1
  <2>3. FirstAt(t, o, i)
    <3>1. \A j \in 1 .. i - 1 : j \in 1 .. Len(s)
      BY <1>1
    <3>2. t[i] = s[i] /\ \A j \in 1 .. i - 1 : t[j] = s[j]
      BY <1>1, <3>1
    <3> HIDE DEF t
    <3> QED
      BY <2>1, <2>2, <3>2 DEF FirstAt
  <2>4. m = {t[i + 1]}
    BY <1>1, <2>1, <2>2
  <2> QED
    BY <2>2, <2>3, <2>4 DEF Meaning, t
<1> QED
  BY <1>2, <1>3

(* An option that is typed for the first time.                             *)
LEMMA MeaningComes ==
  ASSUME NEW s \in Seq(Argument), NEW args \in Seq(Argument), NEW o, NEW m, NEW over,
         \A j \in 1 .. Len(s) : s[j] # o,
         Len(args) > 0, args[1] = o,
         \/ Len(args) > 1 /\ m = {args[2]}
         \/ Len(args) = 1 /\ m = {Empty} /\ over
  PROVE  Meaning(s \o args, o, m, over)
<1> DEFINE t == s \o args
           i == Len(s) + 1
<1>1. /\ Len(s) \in Nat /\ Len(args) \in Nat /\ Len(t) = Len(s) + Len(args)
      /\ \A j \in 1 .. Len(s) : t[j] = s[j]
      /\ \A j \in 1 .. Len(args) : t[Len(s) + j] = args[j]
  BY ConcatProperties
<1> HIDE DEF t
<1>2. i \in 1 .. Len(t) /\ t[i] = o /\ \A j \in 1 .. i - 1 : t[j] # o
  BY <1>1
<1>3. i < Len(t) => m = {t[i + 1]}
  <2>1. Len(args) > 1 => i + 1 = Len(s) + 2 /\ t[Len(s) + 2] = args[2]
    BY <1>1
  <2>2. Len(args) = 1 => i = Len(t)
    BY <1>1
  <2> QED
    BY <1>1, <2>1, <2>2
<1>4. i = Len(t) => m = {Empty} /\ over
  BY <1>1
<1> QED
  BY <1>2, <1>3, <1>4 DEF Meaning, FirstAt, t

-----------------------------------------------------------------------------
LEMMA KindsApart ==
  /\ \A o \in Option : o \notin Value /\ o \notin Flag /\ o # Empty
  /\ \A a \in Word : a \notin Option /\ a \notin Negative
  /\ \A a \in Flag \union {Empty} : a \notin Word /\ a \notin Option /\ a \notin Negative
<1>1. \A i, j \in 1 .. 5 : i # j => Kinds[i] \intersect Kinds[j] = {}
  BY CmdOptionsAssumption DEF Kinds
<1>2. /\ Kinds[1] = Word /\ Kinds[2] = Negative /\ Kinds[3] = Option
      /\ Kinds[4] = Flag /\ Kinds[5] = {Empty}
  BY DEF Kinds
<1>3. /\ Option \intersect Word = {} /\ Option \intersect Negative = {}
      /\ Option \intersect Flag = {} /\ Option \intersect {Empty} = {}
  <2>1. 1 \in 1 .. 5 /\ 2 \in 1 .. 5 /\ 3 \in 1 .. 5 /\ 4 \in 1 .. 5 /\ 5 \in 1 .. 5
    OBVIOUS
  <2> QED
    BY <1>1, <1>2, <2>1
<1>4. /\ Word \intersect Negative = {} /\ Word \intersect Flag = {} /\ Word \intersect {Empty} = {}
      /\ Negative \intersect Flag = {} /\ Negative \intersect {Empty} = {}
  <2>1. 1 \in 1 .. 5 /\ 2 \in 1 .. 5 /\ 4 \in 1 .. 5 /\ 5 \in 1 .. 5
    OBVIOUS
  <2> QED
    BY <1>1, <1>2, <2>1
<1> QED
  BY <1>3, <1>4 DEF Value

(* While the line may get longer, no last option waits for its value.      *)
LEMMA Open ==
  ASSUME IInv, items < MaxItems
  PROVE  /\ \A o \in Option : Meaning(argv, o, meant[o], FALSE) /\ meant[o] \in SUBSET Argument
         /\ Scan(argv).skip = FALSE /\ Scan(argv).params = words
<1>1. items # MaxItems
  BY CmdOptionsAssumption
<1>2. Scan(argv).skip \in BOOLEAN
  BY DEF IInv, Scans
<1>3. ASSUME NEW o \in Option PROVE Meaning(argv, o, meant[o], FALSE)
  <2>1. Meaning(argv, o, meant[o], items = MaxItems)
    BY DEF IInv
  <2> QED
    BY <1>1, <2>1 DEF Meaning
<1> QED
  BY <1>1, <1>2, <1>3 DEF IInv

(* An option is meant what it was first given.                             *)
LEMMA FirstMeant ==
  ASSUME NEW s \in Seq(Argument), NEW args \in Seq(Argument), NEW o, NEW m, NEW a, NEW over,
         Meaning(s, o, m, FALSE), Len(args) > 0, args[1] = o,
         (Len(args) > 1 /\ a = args[2]) \/ (Len(args) = 1 /\ a = Empty /\ over)
  PROVE  Meaning(s \o args, o, IF m = {} THEN {a} ELSE m, over)
<1>1. CASE m = {}
  <2>1. \A j \in 1 .. Len(s) : s[j] # o
    BY <1>1 DEF Meaning
  <2> QED
    BY <1>1, <2>1, MeaningComes
<1>2. CASE m # {}
  <2>1. Meaning(s \o args, o, m, over)
    BY <1>2, MeaningStays
  <2> QED
    BY <1>2, <2>1
<1> QED
  BY <1>1, <1>2

LEMMA TypeOptionHolds ==
  ASSUME IInv, NEW o \in Option, NEW a \in Value \union {Empty}, TypeOption(o, a)
  PROVE  IInv'
<1>1. /\ items < MaxItems /\ argv' = argv \o <<o, a>> /\ words' = words
      /\ meant' = [meant EXCEPT ![o] = IF @ = {} THEN {a} ELSE @]
  BY DEF TypeOption, Type, Means
<1>2. /\ argv \in Seq(Argument) /\ meant \in [Option -> SUBSET Argument]
      /\ o \in Argument /\ a \in Argument /\ <<o, a>> \in Seq(Argument)
  BY DEF IInv, Argument
<1>3. argv' \in Seq(Argument) /\ meant' \in [Option -> SUBSET Argument]
  BY <1>1, <1>2
<1>4. ASSUME NEW p \in Option PROVE Meaning(argv', p, meant'[p], items' = MaxItems)
  <2>1. Meaning(argv, p, meant[p], FALSE)
    BY <1>1, Open
  <2>2. CASE p = o
    <3>1. meant'[p] = IF meant[p] = {} THEN {a} ELSE meant[p]
      BY <1>1, <1>2, <2>2
    <3>2. Len(<<o, a>>) = 2 /\ <<o, a>>[1] = p /\ <<o, a>>[2] = a
      BY <2>2
    <3>3. Len(<<o, a>>) > 0 /\ ((Len(<<o, a>>) > 1 /\ a = <<o, a>>[2]) \/ (Len(<<o, a>>) = 1 /\ FALSE))
      BY <1>1, <3>2
    <3>4. Meaning(argv \o <<o, a>>, p, IF meant[p] = {} THEN {a} ELSE meant[p], items' = MaxItems)
      BY <1>2, <2>1, <3>2, <3>3, FirstMeant
    <3> QED
      BY <1>1, <3>1, <3>4
  <2>3. CASE p # o
    <3>1. meant'[p] = meant[p]
      BY <1>1, <1>2, <2>3
    <3>2. p # a
      BY KindsApart
    <3>3. \A j \in 1 .. Len(<<o, a>>) : <<o, a>>[j] # p
      BY <2>3, <3>2
    <3> QED
      BY <1>1, <1>2, <2>1, <3>1, <3>3, MeaningStays
  <2> QED
    BY <2>2, <2>3
<1>5. Scan(argv') = [params |-> words, skip |-> FALSE]
  <2>1. argv' = Append(Append(argv, o), a) /\ Append(argv, o) \in Seq(Argument)
    BY <1>1, <1>2
  <2>2. Scan(Append(argv, o)) = Scanned(Scan(argv), o) /\ Scan(argv') = Scanned(Scan(Append(argv, o)), a)
    BY <1>2, <2>1, ScanMore
  <2>3. Scanned(Scan(argv), o) = [params |-> words, skip |-> TRUE]
    <3>1. o \notin Word /\ SkipsNext(o)
      BY KindsApart DEF Value, SkipsNext
    <3> QED
      BY <1>1, <3>1, Open DEF Scanned
  <2>4. Scanned([params |-> words, skip |-> TRUE], a) = [params |-> words, skip |-> FALSE]
    BY DEF Scanned
  <2> QED
    BY <2>2, <2>3, <2>4
<1>6. words \in Seq(Word)
  BY DEF IInv, Scans
<1>7. Scan(argv') \in Scans /\ Scan(argv').params = words' /\ (Scan(argv').skip => items' = MaxItems)
  <2>1. Scan(argv').params = words /\ (Scan(argv').skip => items' = MaxItems)
    BY <1>1, <1>5
  <2>2. [params |-> words, skip |-> FALSE] \in Scans
    BY <1>6 DEF Scans
  <2> QED
    BY <1>1, <1>5, <2>1, <2>2
<1> QED
  BY <1>3, <1>4, <1>7 DEF IInv

LEMMA TypeLastOptionHolds ==
  ASSUME IInv, NEW o \in Option, TypeLastOption(o)
  PROVE  IInv'
<1>1. /\ items < MaxItems /\ argv' = argv \o <<o>> /\ words' = words /\ items' = MaxItems
      /\ meant' = [meant EXCEPT ![o] = IF @ = {} THEN {Empty} ELSE @]
  BY DEF TypeLastOption, Type, Means
<1>2. /\ argv \in Seq(Argument) /\ meant \in [Option -> SUBSET Argument]
      /\ o \in Argument /\ Empty \in Argument /\ <<o>> \in Seq(Argument)
  BY DEF IInv, Argument
<1>3. argv' \in Seq(Argument) /\ meant' \in [Option -> SUBSET Argument]
  BY <1>1, <1>2
<1>4. ASSUME NEW p \in Option PROVE Meaning(argv', p, meant'[p], items' = MaxItems)
  <2>1. Meaning(argv, p, meant[p], FALSE)
    BY <1>1, Open
  <2>2. CASE p = o
    <3>1. meant'[p] = IF meant[p] = {} THEN {Empty} ELSE meant[p]
      BY <1>1, <1>2, <2>2
    <3>2. Len(<<o>>) = 1 /\ <<o>>[1] = p
      BY <2>2
    <3>3. Len(<<o>>) > 0 /\ ((Len(<<o>>) > 1 /\ FALSE) \/ (Len(<<o>>) = 1 /\ items' = MaxItems))
      BY <1>1, <3>2
    <3>4. Meaning(argv \o <<o>>, p, IF meant[p] = {} THEN {Empty} ELSE meant[p], items' = MaxItems)
      BY <1>2, <2>1, <3>2, <3>3, FirstMeant
    <3> QED
      BY <1>1, <3>1, <3>4
  <2>3. CASE p # o
    <3>1. meant'[p] = meant[p]
      BY <1>1, <1>2, <2>3
    <3>2. \A j \in 1 .. Len(<<o>>) : <<o>>[j] # p
      BY <2>3
    <3> QED
      BY <1>1, <1>2, <2>1, <3>1, <3>2, MeaningStays
  <2> QED
    BY <2>2, <2>3
<1>5. Scan(argv') = [params |-> words, skip |-> TRUE]
  <2>1. argv' = Append(argv, o)
    BY <1>1, <1>2
  <2>2. Scan(argv') = Scanned(Scan(argv), o)
    BY <1>2, <2>1, ScanMore
  <2>3. o \notin Word /\ SkipsNext(o)
    BY KindsApart DEF Value, SkipsNext
  <2> QED
    BY <1>1, <2>2, <2>3, Open DEF Scanned
<1>6. words \in Seq(Word)
  BY DEF IInv, Scans
<1>7. Scan(argv') \in Scans /\ Scan(argv').params = words' /\ (Scan(argv').skip => items' = MaxItems)
  <2>1. Scan(argv').params = words /\ (Scan(argv').skip => items' = MaxItems)
    BY <1>1, <1>5
  <2>2. [params |-> words, skip |-> TRUE] \in Scans
    BY <1>6 DEF Scans
  <2> QED
    BY <1>1, <1>5, <2>1, <2>2
<1> QED
  BY <1>3, <1>4, <1>7 DEF IInv

(* A word, a flag or an empty argument.                                    *)
LEMMA TypeAloneHolds ==
  ASSUME IInv, NEW a \in Word \union Flag \union {Empty}, Type(<<a>>), meant' = meant,
         words' = IF a \in Word THEN Append(words, a) ELSE words
  PROVE  IInv'
<1>1. items < MaxItems /\ argv' = argv \o <<a>>
  BY DEF Type
<1>2. /\ argv \in Seq(Argument) /\ meant \in [Option -> SUBSET Argument]
      /\ a \in Argument /\ <<a>> \in Seq(Argument)
  BY DEF IInv, Argument, Value
<1>3. argv' \in Seq(Argument)
  BY <1>1, <1>2
<1>4. ASSUME NEW p \in Option PROVE Meaning(argv', p, meant'[p], items' = MaxItems)
  <2>1. Meaning(argv, p, meant[p], FALSE)
    BY <1>1, Open
  <2>2. \A j \in 1 .. Len(<<a>>) : <<a>>[j] # p
    BY KindsApart DEF Value
  <2> QED
    BY <1>1, <1>2, <2>1, <2>2, MeaningStays
<1>5. Scan(argv') = [params |-> words', skip |-> FALSE]
  <2>1. argv' = Append(argv, a)
    BY <1>1, <1>2
  <2>2. Scan(argv') = Scanned(Scan(argv), a)
    BY <1>2, <2>1, ScanMore
  <2>3. ~SkipsNext(a)
    BY KindsApart DEF SkipsNext
  <2> QED
    BY <1>1, <2>2, <2>3, Open DEF Scanned
<1>6. words' \in Seq(Word)
  <2>1. words \in Seq(Word)
    BY DEF IInv, Scans
  <2> QED
    BY <2>1
<1> QED
  BY <1>2, <1>3, <1>4, <1>5, <1>6 DEF IInv, Scans

LEMMA NextHolds ==
  ASSUME IInv, [Next]_vars
  PROVE  IInv'
<1>1. CASE \E o \in Option, a \in Value \union {Empty} : TypeOption(o, a)
  BY <1>1, TypeOptionHolds
<1>2. CASE \E o \in Option : TypeLastOption(o)
  BY <1>2, TypeLastOptionHolds
<1>3. CASE \E a \in Word : TypeWord(a)
  BY <1>3, TypeAloneHolds DEF TypeWord
<1>4. CASE \E a \in Flag \union {Empty} : TypeOther(a)
  <2>1. PICK a \in Flag \union {Empty} : TypeOther(a)
    BY <1>4
  <2>2. a \notin Word
    BY KindsApart
  <2> QED
    BY <2>1, <2>2, TypeAloneHolds DEF TypeOther
<1>5. CASE UNCHANGED vars
  BY <1>5 DEF vars, IInv
<1> QED
  BY <1>1, <1>2, <1>3, <1>4, <1>5 DEF Next

LEMMA InitHolds ==
  ASSUME Init
  PROVE  IInv
<1>1. /\ argv = <<>> /\ meant = [o \in Option |-> {}] /\ words = <<>>
      /\ argv \in Seq(Argument) /\ Len(argv) = 0
  BY DEF Init
<1>2. Scan(argv) = NothingScanned
  <2>1. PICK f : Scanning(argv, f) /\ Scan(argv) = f[Len(argv)]
    BY <1>1, ScanRuns
  <2> QED
    BY <1>1, <2>1 DEF Scanning
<1>3. \A o \in Option : Meaning(argv, o, meant[o], items = MaxItems)
  BY <1>1 DEF Meaning
<1>4. Scan(argv) \in Scans /\ Scan(argv).params = words /\ ~Scan(argv).skip
  <2>1. NothingScanned \in Scans /\ NothingScanned.params = <<>> /\ NothingScanned.skip = FALSE
    BY DEF NothingScanned, Scans
  <2> QED
    BY <1>1, <1>2, <2>1
<1>5. meant \in [Option -> SUBSET Argument]
  BY <1>1
<1> QED
  BY <1>1, <1>3, <1>4, <1>5 DEF IInv

THEOREM Invariance == Spec => []IInv
<1>1. Init => IInv
  BY InitHolds
<1>2. IInv /\ [Next]_vars => IInv'
  BY NextHolds
<1> QED
  BY <1>1, <1>2, PTL DEF Spec

(* What main reads for an option is the number typed after its first place *)
(* on the line, or its default (get_option, exists_option, main).          *)
THEOREM OptionsRead == Spec => []OptionsAsTyped
<1>1. ASSUME IInv PROVE OptionsAsTyped
  <2> SUFFICES ASSUME NEW o \in Option
               PROVE  Parameter(o) = IF meant[o] = {} THEN Default(o)
                                     ELSE LET n == Stoi(CHOOSE a \in meant[o] : TRUE)
                                          IN  IF n = Invalid THEN Invalid ELSE n % UMod
    BY DEF OptionsAsTyped
  <2>1. Meaning(argv, o, meant[o], items = MaxItems) /\ argv \in Seq(Argument)
    BY <1>1 DEF IInv
  <2>2. CASE meant[o] = {} /\ \A j \in 1 .. Len(argv) : argv[j] # o
    <3>1. o \notin Range(argv)
      BY <2>1, <2>2 DEF Range
    <3>2. ~ExistsOption(o)
      BY <2>1, <3>1 DEF ExistsOption, Place
    <3> QED
      BY <2>2, <3>2 DEF Parameter
  <2>3. CASE ~(meant[o] = {} /\ \A j \in 1 .. Len(argv) : argv[j] # o)
    <3>1. PICK i \in 1 .. Len(argv) :
            /\ FirstAt(argv, o, i)
            /\ i < Len(argv) => meant[o] = {argv[i + 1]}
            /\ i = Len(argv) => meant[o] = {Empty}
      BY <2>1, <2>3 DEF Meaning
    <3>2. Place(o) = i
      BY <2>1, <3>1, FirstPlace
    <3>3. Len(argv) \in Nat /\ i \in Nat /\ i <= Len(argv)
      BY <2>1
    <3>4. ExistsOption(o)
      BY <3>2, <3>3 DEF ExistsOption
    <3>5. meant[o] = {GetOption(o, Empty)}
      BY <3>1, <3>2, <3>3 DEF GetOption
    <3> QED
      BY <3>4, <3>5 DEF Parameter
  <2> QED
    BY <2>2, <2>3
<1> QED
  BY <1>1, Invariance, PTL

(* get_params finds the positional arguments and nothing else.             *)
THEOREM PositionalsRead == Spec => []PositionalsAsTyped
<1>1. IInv => PositionalsAsTyped
  BY DEF IInv, PositionalsAsTyped, GetParams
<1> QED
  BY <1>1, Invariance, PTL
=============================================================================
