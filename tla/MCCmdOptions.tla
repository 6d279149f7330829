---------------------------- MODULE MCCmdOptions ----------------------------
(* CmdOptions with two of main's options.                                  *)
EXTENDS CmdOptions

MCStoi(a) == CASE a = "7" -> 7 [] a = "-1" -> -1 [] OTHER -> Invalid
MCDefault(o) == CASE o = "-c" -> 20 [] o = "-t" -> 30
=============================================================================
