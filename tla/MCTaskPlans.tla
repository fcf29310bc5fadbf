---------------------------- MODULE MCTaskPlans ----------------------------
EXTENDS TaskPlans

Independent == [n \in Nodes |-> {}]

\* The steps of PlanNext that one story needs: work that fails or is delivered, and an owner
\* who closes, sends back, reworks and stops.  Each of its behaviours is one of PlanSpec.
SendBackNext ==
  \/ \E n \in Nodes : Claim(n) \/ \E p \in closing : ReworkClose(p, n)
  \/ \E d \in DOMAIN job :
       \/ Dispatch(d) \/ StartTask(d) \/ ModelCall(d) \/ Saves(d, "full") \/ Completes(d)
       \/ Fails(d, "other") \/ CollectFailed(d) \/ CollectResult(d, FALSE)
       \/ StopTask(d) \/ ReworkTask(d)
  \/ Dispatched \/ AskClose \/ \E p \in closing : ApproveClose(p)
SendBackSpec == PlanInit /\ [][SendBackNext]_planVars
=============================================================================
