------------------------------- MODULE MCLoop -------------------------------
(***************************************************************************)
(* Model checking StatusLoop: a command of each mode, and one without the  *)
(* mode.                                                                   *)
(***************************************************************************)
EXTENDS StatusLoop

SomeMessages == {[mode |-> "true", key |-> "pressure", value |-> 2],
                 [mode |-> "false", key |-> "speed", value |-> 1],
                 [mode |-> "none", key |-> "speed", value |-> 0]}
=============================================================================
