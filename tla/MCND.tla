-------------------------------- MODULE MCND --------------------------------
(* Instances of NDBorderRouter for TLC.                                     *)
EXTENDS NDBorderRouter

\* A complete configuration: static backhaul, own mesh prefix, no security.
Base == [PREFIX |-> "fd00", BACKHAUL_PREFIX |-> "fd01",
         MULTICAST_ADDR |-> TRUE, BACKHAUL_DYNAMIC_BOOTSTRAP |-> FALSE,
         PREFIX_FROM_BACKHAUL |-> FALSE, SECURITY_MODE |-> "NONE",
         PSK_KEY |-> TRUE, TLS_PSK_KEY |-> TRUE]

Dynamic == [Base EXCEPT !.BACKHAUL_DYNAMIC_BOOTSTRAP = TRUE,
                        !.PREFIX_FROM_BACKHAUL = TRUE]

\* Learned backhaul and mesh prefix, the security modes; PANA without its key.
ConfigsSecurity ==
    {[Dynamic EXCEPT !.SECURITY_MODE = "PSK"],
     [Dynamic EXCEPT !.SECURITY_MODE = "PANA"],
     [Base EXCEPT !.SECURITY_MODE = "PANA", !.TLS_PSK_KEY = FALSE]}

\* Static backhaul, with a prefix of its own or the mesh's (and a security mode
\* load_config does not know), and learned.
ConfigsBackhaul ==
    {Base, Dynamic,
     [Base EXCEPT !.BACKHAUL_PREFIX = Unspecified, !.SECURITY_MODE = "OTHER"]}

\* The configurations load_config rejects part of the way, and the ones whose
\* security mode it does not take.
ConfigsPartial ==
    {[Base EXCEPT !.PREFIX = Missing],
     [Base EXCEPT !.BACKHAUL_PREFIX = Missing],
     [Dynamic EXCEPT !.MULTICAST_ADDR = FALSE],
     [Base EXCEPT !.SECURITY_MODE = "PSK", !.PSK_KEY = FALSE],
     [Base EXCEPT !.SECURITY_MODE = "OTHER"]}

ConfigsStatic == ConfigsBackhaul \ {Dynamic}
ConfigsMesh == ConfigsSecurity \cup ConfigsPartial
ConfigsSlip == ConfigsStatic \cup
    {[Base EXCEPT !.SECURITY_MODE = "PSK"], [Base EXCEPT !.SECURITY_MODE = "PANA"]}
ConfigsDynamic == {Dynamic}
ConfigsOne == {Base}

TwoPrefixes == {"fd00", "fd01"}
OnePrefix == {"fd01"}
AllFailCodes == {-1, -2}
NoFailure == {}
SlipFailures == {"route_add"}
AllFailures == {"event_send", "rf_register", "lowpan_init", "ethernet_init",
                "backhaul_up", "driver_init", "route_add", "rpl_dodag_init",
                "bootstrap", "connection", "timer_request"}
MeshFailures == {"bootstrap", "connection", "lowpan_init", "timer_request"}
LinkFailures == {"driver_init", "lowpan_init"}
AnyCall == 1..7
NoCall == {}
=============================================================================
