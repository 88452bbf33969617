--------------------------- MODULE WsBorderRouter ---------------------------
(***************************************************************************)
(* The Wi-SUN border router tasklet, source/borderrouter_ws.c.  Like the   *)
(* Thread router it starts the mesh when the tasklet is initialised and    *)
(* lets the backhaul follow the link.  Its two interface ids are in        *)
(* ws_br_handler and take the result of an init call as it is, a failure   *)
(* code included; nothing is kept of what the stack reports but the        *)
(* metrics and the route its READY handlers give the interfaces.           *)
(***************************************************************************)
EXTENDS BackhaulDriver, NetMetric

CONSTANTS
    BackhaulPrefix, \* MBED_CONF_APP_BACKHAUL_PREFIX
    Autonomous,     \* MBED_CONF_APP_BACKHAUL_DYNAMIC_BOOTSTRAP
    Builds,         \* the values of `asserts` to consider
    WsConfigs       \* the configurations to consider, sets of options

VARIABLES
    asserts,        \* whether MBED_ASSERT halts the program in this build
    ws_conf,        \* the options that differ from their WS_DEFAULT_*
    tasklet,        \* "off", "created", "running", "halted" or "exited"
    ws_br_handler,  \* the interface ids: -1, a failure code, or an interface
    bbr,            \* the interfaces ws_bbr_start was last called with
    mesh            \* which configuration calls the mesh's interface has had

wsVars  == <<asserts, ws_conf, tasklet, ws_br_handler, bbr, metric, mesh>>
vars    == <<appq, nwkq, timer, link, status_cb, ifs, wsVars>>
fixed   == <<asserts, ws_conf>>

-----------------------------------------------------------------------------
(* The options and the calls of wisun_interface_up that take them.         *)

UcOptions     == {"uc_channel_function", "uc_fixed_channel", "uc_dwell_interval"}
BcOptions     == {"bc_channel_function", "bc_fixed_channel",
                  "bc_dwell_interval", "bc_interval"}
DomainOptions == {"regulatory_domain", "operating_class", "operating_mode"}
BuildOptions  == {"gtk0", "certificate_header"}
WsOptions     == UcOptions \cup BcOptions \cup DomainOptions \cup BuildOptions

\* The calls in their order; the first and the last are always made.
CallOrder == <<"node_init", "unicast_channel_function",
               "broadcast_channel_function", "timing", "domain_set", "gtk_set",
               "certificate_chain_set", "interface_up">>
WsCalls == {CallOrder[i] : i \in DOMAIN CallOrder}

\* The options of which one at least must differ from its default.
Triggers_nodwell ==
    [unicast_channel_function   |-> {"uc_channel_function"},
     broadcast_channel_function |-> BcOptions \ {"bc_fixed_channel"},
     timing                     |-> {"bc_dwell_interval", "bc_interval"},
     domain_set                 |-> DomainOptions,
     gtk_set                    |-> {"gtk0"},
     certificate_chain_set      |-> {"certificate_header"}]
Triggers ==
    [unicast_channel_function   |-> {"uc_channel_function"},
     broadcast_channel_function |-> BcOptions \ {"bc_fixed_channel"},
     timing |-> {"uc_dwell_interval", "bc_dwell_interval", "bc_interval"},
     domain_set                 |-> DomainOptions,
     gtk_set                    |-> {"gtk0"},
     certificate_chain_set      |-> {"certificate_header"}]

\* The options a call hands to the stack.
Carries ==
    [node_init                  |-> {"regulatory_domain"},
     unicast_channel_function   |-> UcOptions,
     broadcast_channel_function |-> BcOptions,
     timing |-> {"uc_dwell_interval", "bc_dwell_interval", "bc_interval"},
     domain_set                 |-> DomainOptions,
     gtk_set                    |-> {"gtk0"},
     certificate_chain_set      |-> {"certificate_header"},
     interface_up               |-> {}]

IsMade(call) == call \in DOMAIN Triggers => Triggers[call] \cap ws_conf # {}

\* The calls made of the first n.
CallsUpTo(n) == {CallOrder[i] : i \in {j \in 1..n : IsMade(CallOrder[j])}}

ASSUME WsAssumption ==
    /\ BackhaulPrefix \in AnyPrefix
    /\ Autonomous \in BOOLEAN /\ Builds \subseteq BOOLEAN
    /\ WsConfigs \subseteq SUBSET WsOptions

-----------------------------------------------------------------------------

ws_id  == ws_br_handler.ws_interface_id
net_id == ws_br_handler.net_interface_id

InitHandler == [ws_interface_id |-> -1, net_interface_id |-> -1]
NoMesh == [bootstrap |-> FALSE, calls |-> {}, up |-> FALSE]

\* MBED_ASSERT(FALSE): the end of the program, or nothing.
AfterAssert == IF asserts THEN "halted" ELSE "running"

\* Both ids are interfaces: the condition under which the BBR is started.
ServesBoth(handler) ==
    handler.ws_interface_id > -1 /\ handler.net_interface_id > -1

\* Store the ids and start the BBR when both are known.
SetHandler(handler) ==
    /\ ws_br_handler' = handler
    /\ bbr' = IF ServesBoth(handler) THEN handler ELSE bbr

-----------------------------------------------------------------------------
(* Start.                                                                  *)

\* wisun_rf_init: a failure code of lowpan_init is stored and only traced.
wisun_rf_init ==
    \/ /\ \E id \in InitIds("lowpan") :
             /\ ifs' = [ifs EXCEPT ![id] = Idle("lowpan")]
             /\ SetHandler([InitHandler EXCEPT !.ws_interface_id = id])
       /\ tasklet' = "created"
    \/ /\ "lowpan_init" \in MayFail
       /\ \E code \in FailCodes :
             SetHandler([InitHandler EXCEPT !.ws_interface_id = code])
       /\ tasklet' = "created"
       /\ UNCHANGED ifs
    \/ /\ "rf_register" \in MayFail
       /\ SetHandler(InitHandler)
       /\ tasklet' = IF asserts THEN "halted" ELSE "created"
       /\ UNCHANGED ifs

\* border_router_tasklet_start, called by main; load_config reads ws_conf.
border_router_tasklet_start ==
    /\ tasklet = "off"
    /\ wisun_rf_init
    /\ UNCHANGED <<eventVars, driverVars, fixed, metric, mesh>>

\* wisun_interface_up: every call up to interface_up succeeds, or one that is
\* made fails and ends it, which trips the assertion in mesh_network_up.  The
\* result of certificate_chain_set is ignored.
wisun_interface_up ==
    \/ /\ mesh' = [bootstrap |-> TRUE, calls |-> CallsUpTo(Len(CallOrder)),
                   up |-> TRUE]
       /\ ifs' = [ifs EXCEPT ![ws_id] = InterfaceUp("lowpan", Unspecified)]
       /\ tasklet' = "running"
    \/ /\ \E i \in DOMAIN CallOrder :
             /\ IsMade(CallOrder[i]) /\ CallOrder[i] \in MayFail
             /\ mesh' = [bootstrap |-> TRUE, calls |-> CallsUpTo(i - 1),
                         up |-> FALSE]
       /\ tasklet' = AfterAssert
       /\ UNCHANGED ifs

\* mesh_network_up: without an interface, or when bootstrap_set fails, it
\* returns and the program goes on.
mesh_network_up ==
    \/ ws_id \in IfIds /\ wisun_interface_up
    \/ /\ ws_id \notin IfIds \/ "bootstrap_set" \in MayFail
       /\ tasklet' = "running"
       /\ UNCHANGED <<ifs, mesh>>

\* ARM_LIB_TASKLET_INIT_EVENT: driver, mesh, timer, in this order; a halted
\* program arms no timer.
TaskletInit ==
    /\ tasklet = "created"
    /\ backhaul_driver_init
    /\ mesh_network_up
    /\ IF tasklet' = "running" THEN eventOS_event_timer_request
                               ELSE UNCHANGED timer
    /\ UNCHANGED <<nwkq, fixed, ws_br_handler, bbr, metric>>

\* backhaul_driver_init ended the program.
TaskletExit ==
    /\ tasklet = "created"
    /\ DriverInitExits
    /\ tasklet' = "exited"
    /\ UNCHANGED <<eventVars, driverVars, ifs, fixed, ws_br_handler, bbr,
                   metric, mesh>>

-----------------------------------------------------------------------------
(* The backhaul.                                                           *)

Receive(event) == appq # <<>> /\ Head(appq) = event /\ appq' = Tail(appq)

\* eth_network_data_init: how the backhaul gets its addresses.
BackhaulAddress == IF Autonomous THEN Learned ELSE BackhaulPrefix

\* backhaul_interface_up with a new interface (ethernet_init, or ppp_init for
\* a cellular driver); the results of the later calls are ignored.
EthernetUp(id) ==
    /\ SetHandler([ws_br_handler EXCEPT !.net_interface_id = id])
    /\ metric' = [metric EXCEPT ![id] = Unset]
    /\ \/ ifs' = [ifs EXCEPT ![id] = InterfaceUp("eth", BackhaulAddress)]
       \/ /\ "backhaul_up" \in MayFail
          /\ ifs' = [ifs EXCEPT ![id] = [Idle("eth") EXCEPT !.cfg = BackhaulAddress]]

\* The failure code stays in net_interface_id; then the assertion.
EthernetInitFails ==
    /\ "ethernet_init" \in MayFail
    /\ \E code \in FailCodes :
          SetHandler([ws_br_handler EXCEPT !.net_interface_id = code])
    /\ tasklet' = AfterAssert
    /\ UNCHANGED <<ifs, metric>>

MayInitialise_always == TRUE
MayInitialise_once == net_id = -1 /\ bbr = InitHandler
\* The guard of backhaul_interface_up: only -1 means that there is none.
MayInitialise == net_id = -1

\* PHY_DRIVER_READY, with backhaul_interface_up.
PhyDriverReady ==
    /\ tasklet = "running"
    /\ Receive("PHY_DRIVER_READY")
    /\ \/ /\ ~MayInitialise
          /\ UNCHANGED <<tasklet, ifs, ws_br_handler, bbr, metric>>
       \/ /\ MayInitialise
          /\ \E id \in InitIds("eth") : EthernetUp(id)
          /\ UNCHANGED tasklet
       \/ MayInitialise /\ EthernetInitFails
    /\ UNCHANGED <<nwkq, timer, driverVars, fixed, mesh>>

HandlerAfterDown_interface ==
    IF net_id > -1 THEN [ws_br_handler EXCEPT !.net_interface_id = -1]
                   ELSE ws_br_handler
HandlerAfterDown_unsigned == [ws_br_handler EXCEPT !.net_interface_id = 255]
\* backhaul_interface_down forgets the id, whether or not it is an interface.
HandlerAfterDown == [ws_br_handler EXCEPT !.net_interface_id = -1]

TakeDown_ready(id) ==
    IF id \in IfIds /\ metric[id] = HighPriority
    THEN arm_nwk_interface_down(id) ELSE UNCHANGED <<ifs, nwkq>>
\* The stack refuses an id that is not an interface.
TakeDown(id) ==
    IF id \in IfIds THEN arm_nwk_interface_down(id) ELSE UNCHANGED <<ifs, nwkq>>

\* PHY_DOWN, with backhaul_interface_down; the BBR is not told.
PhyDown ==
    /\ tasklet = "running"
    /\ Receive("PHY_DOWN")
    /\ \/ net_id = -1 /\ UNCHANGED <<ifs, nwkq, ws_br_handler>>
       \/ net_id # -1 /\ TakeDown(net_id) /\ ws_br_handler' = HandlerAfterDown
    /\ UNCHANGED <<timer, driverVars, fixed, tasklet, bbr, metric, mesh>>

-----------------------------------------------------------------------------
(* Events of the stack.                                                    *)

ReceiveStatus(status) ==
    nwkq # <<>> /\ Head(nwkq).status = status /\ nwkq' = Tail(nwkq)

IsBackhaul_mesh == Head(nwkq).id = ws_id
\* The dispatch on event_id.
IsBackhaul == Head(nwkq).id = net_id

\* READY of the backhaul: metric, and a static backhaul adds its route.
BackhaulBootstrapReady ==
    /\ tasklet = "running"
    /\ ReceiveStatus("READY")
    /\ IsBackhaul
    /\ SetMetric(net_id, HighPriority)
    /\ \E added \in {~Autonomous, ~Autonomous /\ "route_add" \notin MayFail} :
          ifs' = [ifs EXCEPT ![net_id].route = @ \/ added]
    /\ UNCHANGED <<appq, timer, driverVars, fixed, tasklet, ws_br_handler, bbr, mesh>>

\* READY of any other id is taken for the mesh's.
WisunBootstrapReady ==
    /\ tasklet = "running"
    /\ ReceiveStatus("READY")
    /\ ~IsBackhaul
    /\ SetMetric(ws_id, MESH_METRIC)
    /\ UNCHANGED <<appq, timer, driverVars, ifs, fixed, tasklet,
                   ws_br_handler, bbr, mesh>>

\* Every other status is only traced, by either handler.
OtherStatus ==
    /\ tasklet = "running"
    /\ \E status \in Statuses \ {"READY"} : ReceiveStatus(status)
    /\ UNCHANGED <<appq, timer, driverVars, ifs, wsVars>>

\* ARM_LIB_SYSTEM_TIMER_EVENT 9: cancel the timer and request it again.
SystemTimer ==
    /\ tasklet = "running"
    /\ timer = "fired"
    /\ eventOS_event_timer_request
    /\ UNCHANGED <<appq, nwkq, driverVars, ifs, wsVars>>

-----------------------------------------------------------------------------

Init ==
    /\ EventOSInit /\ DriverInit /\ StackInit
    /\ asserts \in Builds /\ ws_conf \in WsConfigs
    /\ tasklet = "off"
    /\ ws_br_handler = InitHandler /\ bbr = InitHandler
    /\ MetricInit
    /\ mesh = NoMesh

Alive == tasklet \notin {"halted", "exited"}

Driver_LinkReport == Alive /\ LinkReport /\ UNCHANGED <<ifs, wsVars>>
Stack(i) == /\ Alive
            /\ BootstrapReady(i) \/ BootstrapFailed(i) \/ ConnectionLost(i)
            /\ UNCHANGED <<driverVars, wsVars>>
Timer == Alive /\ TimerFires /\ UNCHANGED <<driverVars, ifs, wsVars>>

Next ==
    \/ border_router_tasklet_start
    \/ TaskletInit \/ TaskletExit
    \/ PhyDriverReady \/ PhyDown
    \/ BackhaulBootstrapReady \/ WisunBootstrapReady \/ OtherStatus
    \/ SystemTimer
    \/ Driver_LinkReport
    \/ \E i \in IfIds : Stack(i)
    \/ Timer

Spec == Init /\ [][Next]_vars

-----------------------------------------------------------------------------
(* Properties.                                                             *)

Events == [id : IfIds, status : Statuses]
Ids    == IfIds \cup FailCodes
Handler == [ws_interface_id : Ids, net_interface_id : Ids]

\* Every variable has its type; in particular ws_br_handler holds interfaces
\* or results of a failed init call, and the BBR is only ever given interfaces.
TypeOK ==
    /\ appq \in Seq(AppEvents) /\ nwkq \in Seq(Events)
    /\ timer \in {"off", "armed", "fired"}
    /\ link \in {"up", "down"} /\ status_cb \in BOOLEAN
    /\ ifs \in [IfIds -> Interface]
    /\ asserts \in Builds /\ ws_conf \in WsConfigs
    /\ tasklet \in {"off", "created", "running", "halted", "exited"}
    /\ ws_br_handler \in Handler
    /\ bbr \in [ws_interface_id : IfIds, net_interface_id : IfIds] \cup {InitHandler}
    /\ metric \in [IfIds -> Metrics]
    /\ mesh \in [bootstrap : BOOLEAN, calls : SUBSET WsCalls, up : BOOLEAN]

\* No orphan: an Ethernet interface the stack runs, or routes over, is the one
\* net_interface_id names, and it is not the mesh; a failure code kept as an id
\* must never hide one.
NoOrphanInterface ==
    \A i \in IfIds :
        ifs[i].kind = "eth" /\ (ifs[i].state # "idle" \/ ifs[i].route) =>
            i = net_id /\ i # ws_id

\* With no event lost, once every report of the driver has been handled the
\* tasklet has followed the link: no id, and no failure code, outlives a link
\* that is down, so that the next report initialises the backhaul again; and a
\* link that is up has an interface where a failed init halts the program.
LinkViewConverges ==
    tasklet = "running" /\ appq = <<>> =>
        /\ link = "down" => net_id = -1
        /\ link = "up" /\ (asserts \/ "ethernet_init" \notin MayFail) => net_id > -1

HasBackhaul == net_id \in IfIds
BackhaulReady == HasBackhaul /\ ifs[net_id].state = "ready"
MeshReady == mesh.up /\ ifs[ws_id].state = "ready"

\* What the tasklet owes a bootstrapped backhaul: the priority over the mesh,
\* its route if it is static, and the BBR serving it.
InService ==
    /\ BackhaulReady
    /\ metric[net_id] = HighPriority
    /\ ~Autonomous => ifs[net_id].route
    /\ ws_id > -1 => bbr = ws_br_handler

\* Where set_metric and route_add succeed: once the stack's events are handled,
\* a bootstrapped backhaul is in service and a bootstrapped mesh has its low
\* metric, whatever stale events of earlier backhauls came between, and on
\* whichever id they came.
ReadyIsInService ==
    tasklet = "running" /\ nwkq = <<>> =>
        /\ BackhaulReady => InService
        /\ MeshReady => metric[ws_id] = MESH_METRIC

\* The option reaches the stack, if only through a call that carries it along.
Reaches(option) == \E call \in mesh.calls : option \in Carries[call]

\* A fixed channel has a meaning only with the channel function it belongs to.
Selected(option) ==
    /\ option = "uc_fixed_channel" => "uc_channel_function" \in ws_conf
    /\ option = "bc_fixed_channel" => "bc_channel_function" \in ws_conf

\* A mesh that is up was given every option that differs from its default, for
\* every combination the build sets; and where assertions halt the program it
\* does not run on with a mesh whose configuration stopped half-way.
MeshMatchesConfig ==
    /\ mesh.up => \A option \in ws_conf : Selected(option) => Reaches(option)
    /\ asserts /\ tasklet = "running" /\ mesh.bootstrap => mesh.up

-----------------------------------------------------------------------------
(* Liveness.                                                               *)

\* As for the other routers: the event loop dispatches every queued event, the
\* timer expires, an interface that bootstraps gets ready if it does not fail.
\* That is strong fairness here, since the events of a mesh that loses its
\* connection again and again may keep the queue at its bound, which is the
\* model's and not the program's.
Fairness ==
    /\ WF_vars(border_router_tasklet_start) /\ WF_vars(TaskletInit)
    /\ WF_vars(PhyDriverReady) /\ WF_vars(PhyDown)
    /\ WF_vars(BackhaulBootstrapReady) /\ WF_vars(WisunBootstrapReady)
    /\ WF_vars(OtherStatus) /\ WF_vars(SystemTimer) /\ WF_vars(Timer)
    /\ \A i \in IfIds :
          SF_vars(Alive /\ BootstrapReady(i) /\ UNCHANGED <<driverVars, wsVars>>)

FairSpec == Spec /\ Fairness

\* The stack did not take the backhaul: a failed init, in a build that goes on
\* after it, or a failed interface_up or bootstrap.
Refused == net_id \in FailCodes \/ (HasBackhaul /\ ifs[net_id].state = "idle")

\* A link that stays up, or stays down, is followed whatever becomes of the
\* mesh: while the program runs, the backhaul is in service again after every
\* loss of its connection, unless the stack refuses it, or is taken down.
BackhaulFollowsLink ==
    /\ <>[](link = "up") =>
          []<>(~Alive \/ InService \/ (Refused /\ (asserts => HasBackhaul)))
    /\ <>[](link = "down") => <>[](~Alive \/ net_id = -1)

-----------------------------------------------------------------------------
(* The service the tasklet provides.                                       *)

\* The backhaul is connected from the READY that gives it priority.
serviceBackhaul ==
    IF ~HasBackhaul THEN "down"
    ELSE IF metric[net_id] = HighPriority THEN "connected" ELSE "bootstrapping"

Service == INSTANCE BorderRouterService WITH
    MeshNeedsBackhaul <- FALSE,
    backhaul <- serviceBackhaul,
    mesh <- IF mesh.up THEN "on" ELSE "off"

\* Every step of the tasklet is a step of the service or leaves it unchanged.
RefinesService == Service!ServiceSpec
=============================================================================
