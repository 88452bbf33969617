--------------------------- MODULE BackhaulDriver ---------------------------
(***************************************************************************)
(* The backhaul MAC driver (source/border_router_main.cpp) and the status  *)
(* callback of the tasklets, which turns each report of the driver into an *)
(* APPLICATION_EVENT.  The callback runs in the driver's context, between  *)
(* any two handlers of the event loop.                                     *)
(***************************************************************************)
EXTENDS EventOS

CONSTANT Driver     \* MBED_CONF_APP_BACKHAUL_DRIVER

VARIABLES
    link,           \* the state of the link: "up" or "down"
    status_cb       \* whether the driver holds the tasklet's callback

driverVars == <<link, status_cb>>

ASSUME DriverAssumption == Driver \in {"SLIP", "ETH", "EMAC", "CELL"}

DriverInit == link = "down" /\ status_cb = FALSE

\* borderrouter_backhaul_phy_status_cb: the same text in the three tasklets.
borderrouter_backhaul_phy_status_cb(link_up) ==
    eventOS_event_send(IF link_up THEN "PHY_DRIVER_READY" ELSE "PHY_DOWN")

\* SLIP: one report, made by backhaul_driver_init itself; the driver keeps no
\* callback, so this link never changes again.
SlipDriverInit ==
    /\ Driver = "SLIP"
    /\ status_cb' = FALSE
    /\ \/ borderrouter_backhaul_phy_status_cb(TRUE) /\ link' = "up"
       \/ "driver_init" \in MayFail /\ UNCHANGED <<appq, link>>

\* ETH, EMAC and CELL keep the callback; a failed registration of ETH or EMAC
\* is at most traced and leaves a driver that never reports.
CallbackDriverInit ==
    /\ Driver # "SLIP"
    /\ \/ status_cb' = TRUE
       \/ "driver_init" \in MayFail /\ Driver # "CELL" /\ status_cb' = FALSE
    /\ UNCHANGED <<appq, link>>

backhaul_driver_init == SlipDriverInit \/ CallbackDriverInit

\* exit(1): no default interface, not an EMAC, no PPP, or connect() failed.
DriverInitExits == Driver \in {"EMAC", "CELL"} /\ "driver_init" \in MayFail

\* The driver reports the link, whether or not it changed (emac_link_cb for
\* EMAC, the callback itself for ETH and CELL).
LinkReport ==
    /\ status_cb
    /\ \E up \in BOOLEAN :
          /\ link' = IF up THEN "up" ELSE "down"
          /\ borderrouter_backhaul_phy_status_cb(up)
    /\ UNCHANGED <<nwkq, timer, status_cb>>
=============================================================================
