------------------------------- MODULE MCMenu -------------------------------
(***************************************************************************)
(* Model checking MenuHandler on small scales.                             *)
(***************************************************************************)
EXTENDS MenuHandler

\* State constraint of the control runs: they do not follow the operator
\* into the credential screens, which touch nothing the properties speak of
\* and are left by the ways the other screens are; Editor.cfg explores those.
OutsideEditor == menu \notin {"CredentialsMenu", "enterCredentials"}
=============================================================================
