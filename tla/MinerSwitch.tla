---------------------------- MODULE MinerSwitch ----------------------------
(***************************************************************************)
(* What the Manager promises its callers: a switch.  At any time either no *)
(* miner is active or exactly one is, and it works with the configuration  *)
(* that was current when it was switched on.  A configuration never        *)
(* replaces another one under a working miner: the miner is first switched *)
(* off.                                                                    *)
(***************************************************************************)
CONSTANTS Configs, Off

VARIABLES active,   \* Off, or the configuration the active miner works with
          config    \* the current configuration

Init == active = Off /\ config \in Configs

SwitchOn  == active = Off /\ active' = config /\ UNCHANGED config
SwitchOff == active # Off /\ active' = Off /\ UNCHANGED config
SetConfig == config' \in Configs /\ UNCHANGED active

Next == SwitchOn \/ SwitchOff \/ SetConfig

Spec == Init /\ [][Next]_<<active, config>>
=============================================================================
