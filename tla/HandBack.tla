------------------------------ MODULE HandBack ------------------------------
(***************************************************************************)
(* What the fail-safe promises, without the loop, the counters, the        *)
(* sensors or the commands: who is responsible for cooling, and which mode *)
(* the BMC is in.  README.md of the repository, section "Safety":          *)
(* cooling is handed back to the BMC, the hand-back is retried until it is *)
(* confirmed, nothing re-enables manual mode before that, and a hand-back  *)
(* because of failed fan writes is final.                                  *)
(***************************************************************************)
VARIABLES
  owner,    \* "controller", "handing" (back, not confirmed), or "bmc"
  final,    \* the hand-back is never undone
  bmcMode   \* "auto" or "manual"

vars == <<owner, final, bmcMode>>

Init == owner = "controller" /\ final = FALSE /\ bmcMode = "auto"

\* The controller takes over the fans when it starts.
Claim ==
  /\ owner = "controller" /\ bmcMode' = "manual"
  /\ UNCHANGED <<owner, final>>

\* It gives them up, for good or until the sensors are back.
Trip ==
  /\ owner = "controller" /\ owner' = "handing"
  /\ final' \in BOOLEAN
  /\ UNCHANGED bmcMode

\* The BMC resumes automatic control and acknowledges it.
HandOver ==
  /\ owner = "handing" /\ owner' = "bmc"
  /\ bmcMode' = "auto"
  /\ UNCHANGED final

\* The BMC resumes automatic control and the acknowledgement is lost.
HandOverUnseen ==
  /\ owner = "handing" /\ bmcMode' = "auto"
  /\ UNCHANGED <<owner, final>>

Reclaim ==
  /\ owner = "bmc" /\ ~final
  /\ owner' = "controller" /\ bmcMode' = "manual"
  /\ UNCHANGED final

Next == Claim \/ Trip \/ HandOver \/ HandOverUnseen \/ Reclaim

SafetySpec == Init /\ [][Next]_vars

\* Every hand-back that begins is completed.
Spec == SafetySpec /\ WF_vars(HandOver)
=============================================================================
