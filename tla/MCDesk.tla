------------------------------- MODULE MCDesk -------------------------------
(***************************************************************************)
(* Five modules for TLC, each in scenes of its own (see MCOffice); three   *)
(* of them have liveness properties.                                       *)
(***************************************************************************)
EXTENDS Tenancies, OfflineQueue, Bulk, Breaches, Team

CONSTANTS t1, t2

VARIABLE scene   \* the module looked at

DeskVars == <<scene, tenanciesVars, queueVars, bulkVars, breachesVars, teamVars>>

DeskInit ==
    /\ scene \in {"tenancies", "queue", "operations", "demands", "breaches", "team"}
    /\ TenanciesInit
    /\ QueueInit
    /\ BulkInit
    /\ BreachesInit
    /\ TeamInit

OnlyTenancies ==
    UNCHANGED <<queueVars, bulkVars, breachesVars, teamVars>>

OnlyQueue ==
    UNCHANGED <<tenanciesVars, bulkVars, breachesVars, teamVars>>

(* a second month, with its invoices, is enough for the operations *)
OnlyOperations ==
    /\ UNCHANGED <<tenanciesVars, queueVars, breachesVars, teamVars>>
    /\ period' <= 2

OnlyDemands ==
    UNCHANGED <<tenanciesVars, queueVars, breachesVars, teamVars>>

OnlyBreaches ==
    UNCHANGED <<tenanciesVars, queueVars, bulkVars, teamVars>>

OnlyTeam ==
    UNCHANGED <<tenanciesVars, queueVars, bulkVars, breachesVars>>

DeskNext ==
    /\ UNCHANGED scene
    /\ \/ scene = "tenancies" /\ TenanciesNext /\ OnlyTenancies
       \/ scene = "queue" /\ QueueNext /\ OnlyQueue
       \/ scene = "operations" /\ OperationsNext /\ OnlyOperations
       \/ scene = "demands" /\ DemandsNext /\ OnlyDemands
       \/ scene = "breaches" /\ BreachesNext /\ OnlyBreaches
       \/ scene = "team" /\ TeamNext /\ OnlyTeam

(* none of the fair actions is enabled in the module that stays as it began, so
   its fairness asks for nothing *)
DeskSpec ==
    DeskInit /\ [][DeskNext]_DeskVars /\ TenanciesFairness /\ QueueFairness
        /\ BreachesFairness

(* the modules that are not looked at stay as they began *)
DeskTypeOK ==
    /\ scene = "tenancies" => TenanciesTypeOK
    /\ scene = "queue" => QueueTypeOK
    /\ scene \in {"operations", "demands"} => BulkTypeOK
    /\ scene = "breaches" => BreachesTypeOK
    /\ scene = "team" => TeamTypeOK
=============================================================================
