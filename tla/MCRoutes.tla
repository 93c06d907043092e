------------------------------ MODULE MCRoutes ------------------------------
(***************************************************************************)
(* The routes that make the backend sign, and the browser's offline queue.   *)
(* They share no state, so a behaviour runs one of them, chosen at the start. *)
(***************************************************************************)
EXTENDS RewardRoutes, OfflineSync

VARIABLE part      \* what this behaviour runs

MCInit ==
    \/ /\ part = "routes"
       /\ RoutesInit(Routes, {"open", "learnt", "finalized"}, BOOLEAN)
       /\ OfflineInit({{}})
    \/ /\ part = "offline"
       /\ RoutesInit({"lesson"}, {"open"}, {TRUE})
       /\ OfflineInit(SUBSET Actions)

MCNext ==
    /\ UNCHANGED part
    /\ \/ part = "routes" /\ RoutesNext /\ UNCHANGED offlineVars
       \/ part = "offline" /\ OfflineNext /\ UNCHANGED routeVars

MCVars == <<part, routeVars, offlineVars>>

\* In a behaviour of the offline queue no request is ever received, and nothing
\* is asked of the routes.
MCSpec == MCInit /\ [][MCNext]_MCVars /\ RoutesFairness

\* The type invariants of both.
RoutesTypeOK == RewardRoutesTypeOK /\ OfflineTypeOK
=============================================================================
