--------------------------- MODULE SessionLifecycle ---------------------------
(***************************************************************************)
(* What a server promises about a session, whatever language it is written *)
(* in: the states a connection goes through, and the only reasons for      *)
(* which an established session may end.                                   *)
(***************************************************************************)
CONSTANT Conns

VARIABLES
  phase,   \* where each connection is in its life
  reason   \* the reasons that exist at present for ending its session

vars == <<phase, reason>>

Phases == {"none", "connecting", "active", "ending", "removed"}
Reasons == {"timeout", "disconnect", "dropped"}

Init ==
  /\ phase = [c \in Conns |-> "none"]
  /\ reason = [c \in Conns |-> {}]

Move(c, from, to) ==
  /\ phase[c] = from
  /\ phase' = [phase EXCEPT ![c] = to]

Connect(c) == Move(c, "none", "connecting")
Establish(c) == Move(c, "connecting", "active")
Refuse(c) == Move(c, "connecting", "removed")
End(c) == reason[c] # {} /\ Move(c, "active", "ending")
Remove(c) == Move(c, "ending", "removed")

\* Reasons come and go with what the client does and with time.
Next ==
  /\ reason' \in [Conns -> SUBSET Reasons]
  /\ \/ UNCHANGED phase
     \/ \E c \in Conns : \/ Connect(c) \/ Establish(c) \/ Refuse(c)
                         \/ End(c) \/ Remove(c)

Spec == Init /\ [][Next]_vars
=============================================================================
