------------------------- MODULE LayerwiseConnector -------------------------
(***************************************************************************)
(* The connector of layer-wise prefill as a whole: the rotation of pages   *)
(* through the banks beside the plan caches that turn a load into copies.  *)
(* Neither reads what the other writes, so their steps commute: plans are  *)
(* made on a connector that has no request to copy for, and one that has   *)
(* some begins with the bound of the plans spent.                          *)
(***************************************************************************)
EXTENDS LayerwisePrefill, DmaPlans

Requested == \E r \in Reqs : st[r].is # "gone"
ConnectorInit == Init /\ PlanInit /\ (steps = MaxSteps <=> Requested)

ConnectorNext == \/ Next /\ UNCHANGED planVars
                 \/ PlanNext /\ UNCHANGED vars

ConnectorSpec ==
  ConnectorInit /\ [][ConnectorNext]_<<vars, planVars>> /\ WF_vars(Progress)
=============================================================================
