\* Up to four items; "x" is no number.
CONSTANTS
  Word = {"7", "x"}
  Negative = {"-1"}
  Option = {"-c", "-t"}
  Flag = {"--diff"}
  Empty = ""
  Stoi <- MCStoi
  Invalid = invalid
  Default <- MCDefault
  UMod = 64
  MaxItems = 4
SPECIFICATION Spec
INVARIANTS
  OptionsAsTyped
  PositionalsAsTyped
CHECK_DEADLOCK FALSE
