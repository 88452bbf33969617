------------------------- MODULE BorderRouterService -------------------------
(***************************************************************************)
(* What a border router promises, whichever mesh it serves: the backhaul   *)
(* goes down -> bootstrapping -> connected -> down with the link, and the  *)
(* mesh is started once and never taken down again.  When the mesh needs   *)
(* the backhaul (the 6LoWPAN ND router configures its prefix from it), the *)
(* mesh starts only in the step in which the backhaul becomes connected.   *)
(***************************************************************************)
CONSTANT MeshNeedsBackhaul    \* a Boolean

VARIABLES backhaul, mesh

svcVars == <<backhaul, mesh>>

ServiceInit == backhaul = "down" /\ mesh = "off"

BackhaulStarts ==
    /\ backhaul = "down" /\ backhaul' = "bootstrapping"
    /\ UNCHANGED mesh

\* The backhaul is connected, possibly again, and the mesh may start.
BackhaulConnects ==
    /\ backhaul # "down" /\ backhaul' = "connected"
    /\ \/ UNCHANGED mesh
       \/ MeshNeedsBackhaul /\ mesh = "off" /\ mesh' = "on"

BackhaulStops ==
    /\ backhaul # "down" /\ backhaul' = "down"
    /\ UNCHANGED mesh

MeshStartsAlone ==
    /\ ~MeshNeedsBackhaul
    /\ mesh = "off" /\ mesh' = "on"
    /\ UNCHANGED backhaul

ServiceNext ==
    BackhaulStarts \/ BackhaulConnects \/ BackhaulStops \/ MeshStartsAlone

ServiceSpec == ServiceInit /\ [][ServiceNext]_svcVars
=============================================================================
