-------------------------- MODULE InvestigationRun --------------------------
(***************************************************************************)
(* What an agent run promises to whoever polls it: it is created running,  *)
(* its tool calls are logged one by one while it runs and never more than  *)
(* MaxSteps of them, and it settles at most once.  A completed run counts  *)
(* exactly the calls that were logged, its summary was told that the steps *)
(* ran out just when all MaxSteps of them are logged, and nothing changes  *)
(* afterwards.                                                             *)
(***************************************************************************)
EXTENDS Integers

CONSTANT MaxSteps   \* a natural number

VARIABLES
    status,   \* "none" until the run is created
    logged,   \* tool calls logged for the run
    counted,  \* agent_runs.step_count, -1 while it is null
    limited   \* whether the summary of a completed run was told of the step limit

investigationVars == <<status, logged, counted, limited>>

InvestigationInit == status = "none" /\ logged = 0 /\ counted = -1 /\ ~limited

Begin ==
    /\ status = "none"
    /\ status' = "running"
    /\ UNCHANGED <<logged, counted, limited>>

LogCall ==
    /\ status = "running"
    /\ logged < MaxSteps
    /\ logged' = logged + 1
    /\ UNCHANGED <<status, counted, limited>>

Complete ==
    /\ status = "running"
    /\ status' = "completed"
    /\ counted' = logged
    /\ limited' = (logged = MaxSteps)
    /\ UNCHANGED logged

Fail ==
    /\ status = "running"
    /\ status' = "failed"
    /\ UNCHANGED <<logged, counted, limited>>

InvestigationNext == Begin \/ LogCall \/ Complete \/ Fail

InvestigationSpec == InvestigationInit /\ [][InvestigationNext]_investigationVars
=============================================================================
