---------------------------- MODULE MCPlanAdoption ----------------------------
(***************************************************************************)
(* PlanAdoption on small instances: three commands, one drafted plan and   *)
(* one that a brief may ask for.                                           *)
(***************************************************************************)
EXTENDS PlanAdoption, TLC

CONSTANTS c1, c2, c3
ThreeCommands == {c1, c2, c3}
TwoPlans == {"site", "search"}
SitePlan == {"site"}
TheJobs == {[kind |-> "adopt", plan |-> "site"], [kind |-> "brief", plan |-> "search"],
            [kind |-> "adopt", plan |-> "search"]}
AnyOrder == Permutations(ThreeCommands)
===============================================================================
