------------------------------ MODULE MCSession ------------------------------
(***************************************************************************)
(* Model checking MqttSession with commands that can be told apart.        *)
(***************************************************************************)
EXTENDS MqttSession

\* State constraint: the broker's first command has the text 116, its second
\* the text 117.  The client does not look into a command, so that which of
\* two texts comes first is all the same to it; that they differ shows a
\* command left out, or two that have changed places.
TwoDifferent == commands = SubSeq(<<116, 117>>, 1, Len(commands))
=============================================================================
