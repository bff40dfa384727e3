------------------------------ MODULE LoadPlan ------------------------------
(***************************************************************************)
(* What one run of a round-robin profile promises: a report on exactly     *)
(* Total transactions, or no report at all.                                *)
(***************************************************************************)
EXTENDS Naturals

CONSTANT Total   \* the transactions of a complete run

VARIABLES
    counted,  \* transactions the report has counted
    outcome   \* "running", "reported" or "aborted"

planVars == <<counted, outcome>>

PlanInit == counted = 0 /\ outcome = "running"

Transact ==
    /\ outcome = "running" /\ counted < Total
    /\ counted' = counted + 1
    /\ UNCHANGED outcome

Complete ==
    /\ outcome = "running" /\ counted = Total
    /\ outcome' = "reported"
    /\ UNCHANGED counted

Abort ==
    /\ outcome = "running"
    /\ outcome' = "aborted"
    /\ UNCHANGED counted

PlanNext == Transact \/ Complete \/ Abort

PlanSpec == PlanInit /\ [][PlanNext]_planVars
=============================================================================
