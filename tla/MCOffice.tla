------------------------------- MODULE MCOffice -------------------------------
(***************************************************************************)
(* Eight modules for TLC.  They share no state, so one run looks at each of  *)
(* them in turn: the scene is chosen at the start, and the modules that it *)
(* is not about stay as they began.                                        *)
(***************************************************************************)
EXTENDS RentLedger, Applications, Agreements, Logins, Maintenance,
        Deliveries, Bookings, Evidence

CONSTANTS t1, c1, c2, p1, p2, b1, r1, r2

VARIABLE scene   \* the module looked at

MCFeeRule == [type |-> "PERCENT", amount |-> 15, cap |-> 2]

MCLinks == {<<"a1", "owner", 1>>, <<"a1", "owner", 2>>, <<"a1", "agency", 1>>}

MCPageCallers == {<<"w1", "interceptor">>, <<"w1", "route">>, <<"w2", "interceptor">>}

MCKindOf == ("r1" :> "tenant") @@ ("r2" :> "application") @@ ("r3" :> "demo")

OfficeVars ==
    <<scene, ledgerVars, applicationsVars, agreementsVars, loginsVars, maintenanceVars,
      deliveriesVars, bookingsVars, evidenceVars>>

OfficeInit ==
    /\ scene \in {"ledger", "applications", "agreements", "logins", "maintenance", "deliveries",
                 "hires", "parking", "rooms", "chain", "holds"}
    /\ LedgerInit
    /\ ApplicationsInit
    /\ AgreementsInit
    /\ LoginsInit
    /\ MaintenanceInit
    /\ DeliveriesInit
    /\ BookingsInit
    /\ EvidenceInit
    /\ scene # "agreements" => deeds = NewDeeds
    /\ scene # "maintenance" => ~hooked

OnlyLedger ==
    UNCHANGED <<applicationsVars, agreementsVars, loginsVars, maintenanceVars,
                deliveriesVars, bookingsVars, evidenceVars>>

OnlyApplications ==
    UNCHANGED <<ledgerVars, agreementsVars, loginsVars, maintenanceVars,
                deliveriesVars, bookingsVars, evidenceVars>>

OnlyAgreements ==
    UNCHANGED <<ledgerVars, applicationsVars, loginsVars, maintenanceVars,
                deliveriesVars, bookingsVars, evidenceVars>>

OnlyLogins ==
    UNCHANGED <<ledgerVars, applicationsVars, agreementsVars, maintenanceVars,
                deliveriesVars, bookingsVars, evidenceVars>>

OnlyMaintenance ==
    UNCHANGED <<ledgerVars, applicationsVars, agreementsVars, loginsVars,
                deliveriesVars, bookingsVars, evidenceVars>>

OnlyDeliveries ==
    UNCHANGED <<ledgerVars, applicationsVars, agreementsVars, loginsVars,
                maintenanceVars, bookingsVars, evidenceVars>>

OnlyBookings ==
    UNCHANGED <<ledgerVars, applicationsVars, agreementsVars, loginsVars,
                maintenanceVars, deliveriesVars, evidenceVars>>

OnlyEvidence ==
    UNCHANGED <<ledgerVars, applicationsVars, agreementsVars, loginsVars,
                maintenanceVars, deliveriesVars, bookingsVars>>

OfficeNext ==
    /\ UNCHANGED scene
    /\ \/ scene = "ledger" /\ LedgerNext /\ OnlyLedger
       \/ scene = "applications" /\ ApplicationsNext /\ OnlyApplications
       \/ scene = "agreements" /\ AgreementsNext /\ OnlyAgreements
       \/ scene = "logins" /\ LoginsNext /\ OnlyLogins
       \/ scene = "maintenance" /\ MaintenanceNext /\ OnlyMaintenance
       \/ scene = "deliveries" /\ DeliveriesNext /\ OnlyDeliveries
       \/ scene = "hires" /\ HireNext /\ OnlyBookings
       \/ scene = "parking" /\ ParkingNext /\ OnlyBookings
       \/ scene = "rooms" /\ RoomNext /\ OnlyBookings
       \/ scene = "chain" /\ ChainNext /\ OnlyEvidence
       \/ scene = "holds" /\ HoldNext /\ OnlyEvidence

OfficeSpec == OfficeInit /\ [][OfficeNext]_OfficeVars

(* the modules that are not looked at stay as they began *)
OfficeTypeOK ==
    /\ scene = "ledger" => LedgerTypeOK
    /\ scene = "applications" => ApplicationsTypeOK
    /\ scene = "agreements" => AgreementsTypeOK
    /\ scene = "logins" => LoginsTypeOK
    /\ scene = "maintenance" => MaintenanceTypeOK
    /\ scene = "deliveries" => DeliveriesTypeOK
    /\ scene \in {"hires", "parking", "rooms"} => BookingsTypeOK
    /\ scene \in {"chain", "holds"} => EvidenceTypeOK
=============================================================================
