-------------------------------- MODULE MCWs --------------------------------
(* Instances of WsBorderRouter for TLC.                                     *)
EXTENDS WsBorderRouter

OnePrefix == {"fd01"}
AllFailCodes == {-1, -2}

\* Options that each bring a call with them and are the only ones that do, a
\* fixed channel with its function and one without.
Configs ==
    {{"uc_dwell_interval", "operating_mode", "bc_fixed_channel", "gtk0"},
     {"bc_interval", "operating_class", "uc_channel_function",
      "uc_fixed_channel", "certificate_header"}}

\* Of wisun_interface_up a middle call and the last one; otherwise all but the
\* sends of reports and the calls ReadyIsInService is about.
AllButLoss ==
    {"rf_register", "lowpan_init", "bootstrap_set", "timing", "interface_up",
     "ethernet_init", "backhaul_up", "driver_init", "bootstrap", "connection",
     "timer_request"}
=============================================================================
