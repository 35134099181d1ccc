----------------------------- MODULE MCCppServer -----------------------------
(* Instances of CppServer for TLC.                                         *)
EXTENDS CppServer, TLC

CONSTANTS c1, c2

OneFD == {3}
TwoFDs == {3, 4}

\* One input of each class the server tells apart: answered, noted, ending the
\* session, closed by wsRecvFrame, failing to decode.
SessionInputs == {"UNKNOWN", "PONG", "DISCONNECT", "WSCLOSE", "BAD"}
RefusedInputs == {"BAD", "WSPING"}
FewInputs == {"DISCONNECT"}
ControlInputs == {"WSPING"}

ConnSymmetry == Permutations(Conns)
=============================================================================
