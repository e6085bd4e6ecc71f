---------------------------- MODULE EdgeServices ----------------------------
(***************************************************************************)
(* The services at the edge of the system: content-service,                *)
(* notification-service and analytics-service.  They call none of the      *)
(* others for their own data and share no state, so that each behaviour    *)
(* exercises one of their parts; what they take from the others, events    *)
(* and requests, may come at any time.                                     *)
(***************************************************************************)
EXTENDS ContentAssets, Inbox, Dashboards, Reports

VARIABLE part      \* the part that is exercised

Part == {"content", "inbox", "dashboards", "reports"}

edgeVars == <<part, assetVars, inboxVars, dashboardVars, reportVars>>

\* A part that is not exercised stays in one of its initial states.
EdgeInit ==
    /\ part \in Part
    /\ AssetsInit /\ InboxInit /\ DashboardsInit /\ ReportsInit
    /\ part # "content" => seeded
    /\ part # "inbox" => \A n \in Notice : audience[n] = {}
    /\ part # "dashboards" => \A sd \in DOMAIN aggregate : aggregate[sd] = 0
    /\ part # "reports" => indexed = <<>>

EdgeNext ==
    /\ UNCHANGED part
    /\ \/ part = "content" /\ AssetsNext /\ UNCHANGED <<inboxVars, dashboardVars, reportVars>>
       \/ part = "inbox" /\ InboxNext /\ UNCHANGED <<assetVars, dashboardVars, reportVars>>
       \/ part = "dashboards" /\ DashboardsNext /\ UNCHANGED <<assetVars, inboxVars, reportVars>>
       \/ part = "reports" /\ ReportsNext /\ UNCHANGED <<assetVars, inboxVars, dashboardVars>>

EdgeSpec == EdgeInit /\ [][EdgeNext]_edgeVars

=============================================================================
