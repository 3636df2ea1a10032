----------------------------- MODULE Hysteresis -----------------------------
(***************************************************************************)
(* FanControl with one history variable: how long ago the loop last read a *)
(* temperature over a threshold, whatever it then did with the reading.    *)
(* The controller's own lastOverThreshold is written by one branch of      *)
(* calculateTarget only; the two are compared here.                        *)
(***************************************************************************)
EXTENDS FanControl

VARIABLE sinceHot     \* an age, as sinceOver

hvars == <<vars, sinceHot>>

ReadHot == pc = "read" /\ SensorsOk(sample') /\ OverThreshold(sample')

HInit == Init /\ sinceHot = Never

HNext ==
  \/ LoopStep /\ sinceHot' = IF ReadHot THEN 0 ELSE sinceHot
  \/ (BmcStep \/ Request) /\ UNCHANGED sinceHot
  \/ Elapse /\ sinceHot' = NextAge(sinceHot)

HSpec == HInit /\ [][HNext]_hvars

\* README.md, "How It Works": "Fans only ramp down after staying below
\* thresholds for cooldown_delay seconds".
CooldownRespected ==
  [][bmcMode = "manual" /\ bmcSpeed' < bmcSpeed =>
       sinceHot = Never \/ sinceHot > Cooldown]_hvars
=============================================================================
