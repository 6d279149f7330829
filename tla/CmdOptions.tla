----------------------------- MODULE CmdOptions -----------------------------
(***************************************************************************)
(* The command line: CmdOptions (utils/cmd.cpp) and what main reads with   *)
(* it.  A line is typed item by item, as cmd.hpp describes one: an option  *)
(* and its value, a flag, a positional argument.  What was meant by it is  *)
(* kept beside it, and compared with what the lookups find in argv.        *)
(***************************************************************************)
EXTENDS Integers, Sequences, SequencesExt

CONSTANTS
  Word,        (* arguments that begin with another character than '-'     *)
  Negative,    (* numbers below 0: arguments like options                  *)
  Option,      (* the options main asks for: '-' and a letter              *)
  Flag,        (* arguments that begin with "--"                           *)
  Empty,       (* the argument ""                                          *)
  Stoi(_),     (* std::stoi of an argument, or Invalid: it throws          *)
  Invalid,
  Default(_),  (* main's value of an option that is not given              *)
  UMod,        (* 2^32: an int becomes an unsigned                         *)
  MaxItems     (* bound: items typed                                       *)

Value == Word \union Negative

(* An argument is of one kind: the characters it begins with tell.         *)
Kinds == <<Word, Negative, Option, Flag, {Empty}>>

ASSUME CmdOptionsAssumption ==
  /\ UMod \in Nat \ {0} /\ MaxItems \in Nat
  /\ \A i, j \in 1 .. Len(Kinds) : i # j => Kinds[i] \intersect Kinds[j] = {}
  /\ Stoi(Empty) = Invalid
  /\ \A a \in Value : Stoi(a) = Invalid \/ Stoi(a) \in -UMod .. UMod - 1

VARIABLES
  argv,   (* m_argv, without the program's name                            *)
  meant,  (* meant[o]: the argument option o was first given, if any       *)
  words,  (* the positional arguments                                      *)
  items   (* items typed; a last option without its value ends the line    *)

vars == <<argv, meant, words, items>>

-----------------------------------------------------------------------------
(* std::find: the first place of a in argv, or one after its end.          *)
LastPlace(a) == Len(argv) + 1 - SelectInSeq(Reverse(argv), LAMBDA b : b = a)  (* broken *)
Place(a) ==
  IF a \in Range(argv) THEN SelectInSeq(argv, LAMBDA b : b = a) ELSE Len(argv) + 1

ExistsOption(a) == a \in Option \union Flag /\ Place(a) <= Len(argv)

GetOption(a, def) ==
  IF a \in Option /\ Place(a) + 1 <= Len(argv) THEN argv[Place(a) + 1] ELSE def

(* Broken: an option's value is taken for a positional argument.           *)
SkipsNextNever(a) == FALSE

(* '-o' is followed by its parameter, '--diff' is not.                     *)
SkipsNext(a) == a \in Option \union Negative

(* get_params: its loop over all arguments; `skip' is the i++ for the next. *)
Scanned(was, a) ==
  [params |-> IF ~was.skip /\ a \in Word THEN Append(was.params, a) ELSE was.params,
   skip   |-> ~was.skip /\ SkipsNext(a)]

Scan(args) ==
  LET after[i \in 0 .. Len(args)] ==
        IF i = 0 THEN [params |-> <<>>, skip |-> FALSE] ELSE Scanned(after[i - 1], args[i])
  IN  after[Len(args)]

GetParams == Scan(argv).params

(* What main makes of option o: unsigned x = std::stoi(...).               *)
Parameter(o) ==
  LET n == Stoi(GetOption(o, Empty))
  IN  IF ExistsOption(o) THEN IF n = Invalid THEN Invalid ELSE n % UMod
                         ELSE Default(o)

-----------------------------------------------------------------------------
Init == argv = <<>> /\ meant = [o \in Option |-> {}] /\ words = <<>> /\ items = 0

Means(o, a) == meant' = [meant EXCEPT ![o] = IF @ = {} THEN {a} ELSE @]

(* The arguments of one item come at the end of argv (the constructor).    *)
Type(args) == items < MaxItems /\ argv' = argv \o args

TypeOption(o, a) ==
  Type(<<o, a>>) /\ Means(o, a) /\ items' = items + 1 /\ UNCHANGED words

TypeLastOption(o) ==
  Type(<<o>>) /\ Means(o, Empty) /\ items' = MaxItems /\ UNCHANGED words

TypeWord(a) ==
  Type(<<a>>) /\ words' = Append(words, a) /\ items' = items + 1 /\ UNCHANGED meant

TypeOther(a) == Type(<<a>>) /\ items' = items + 1 /\ UNCHANGED <<meant, words>>

Next ==
  \/ \E o \in Option, a \in Value \union {Empty} : TypeOption(o, a)
  \/ \E o \in Option : TypeLastOption(o)
  \/ \E a \in Word : TypeWord(a)
  \/ \E a \in Flag \union {Empty} : TypeOther(a)

Spec == Init /\ [][Next]_vars

-----------------------------------------------------------------------------
(* main gets the number first typed after an option, wherever on the line  *)
(* it is, or its default; a missing or unreadable one throws, and a        *)
(* negative one becomes a large one (std::stoi into an unsigned).          *)
OptionsAsTyped ==
  \A o \in Option :
    Parameter(o) = IF meant[o] = {} THEN Default(o)
                   ELSE LET n == Stoi(CHOOSE a \in meant[o] : TRUE)
                        IN  IF n = Invalid THEN Invalid ELSE n % UMod

(* get_params finds the positional arguments, and no option's value.       *)
PositionalsAsTyped == GetParams = words
=============================================================================
