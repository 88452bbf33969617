------------------------------ MODULE MCThread ------------------------------
(* Instances of ThreadBorderRouter for TLC.                                 *)
EXTENDS ThreadBorderRouter

OnePrefix == {"fd01"}
AllFailCodes == {-1, -2}
NoFailure == {}
\* Every call but event_send and the two that ReadyIsInService is about: the
\* properties of this instance are about a link whose reports all arrive and a
\* stack that takes metrics and routes.
AllButLoss == {"rf_register", "lowpan_init", "bootstrap_set",
               "thread_interface_up", "ethernet_init", "backhaul_up",
               "driver_init", "bootstrap", "connection", "timer_request"}
=============================================================================
