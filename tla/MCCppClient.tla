----------------------------- MODULE MCCppClient -----------------------------
(* Instances of CppClient for TLC.                                         *)
EXTENDS CppClient

\* Every input the client tells apart, BONJOUR for all that is only logged.
KindsOfInput == Answered \cup {"BONJOUR", "DISCONNECT"} \cup Frames
=============================================================================
