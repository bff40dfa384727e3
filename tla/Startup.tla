------------------------------ MODULE Startup ------------------------------
(***************************************************************************)
(* What a configuration becomes before anything is sent: run_farm reads    *)
(* the <farm> (FarmConfig); once its farmers are started, run_profile      *)
(* chooses the handlers of a <profile> (ProfileEvents).                    *)
(***************************************************************************)
EXTENDS FarmConfig, ProfileEvents

CONSTANT Configurations   \* the configuration files: a <farm> and a <profile>

ASSUME StartupAssumption ==
    \A c \in Configurations : c.farm \in Farms /\ c.profile \in Profiles

vars == <<farmConfigVars, profileVars>>

Init ==
    /\ \E c \in Configurations : farm = c.farm /\ profile = c.profile
    /\ FarmConfigInit
    /\ ProfileInit

ReadFarm == FarmConfigStep /\ UNCHANGED profileVars
ReadProfile == loop = "started" /\ ProfileStep /\ UNCHANGED farmConfigVars

Over == loop = "refused" \/ stage \in {"ready", "failed", "crashed"}
Stopped == Over /\ UNCHANGED vars

Next == ReadFarm \/ ReadProfile \/ Stopped

Spec == Init /\ [][Next]_vars
=============================================================================
