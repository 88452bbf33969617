------------------------- MODULE ThreadBorderRouter -------------------------
(***************************************************************************)
(* The Thread border router tasklet, source/borderrouter_thread_tasklet.c. *)
(* Unlike the ND router it starts the mesh at once, when the tasklet is    *)
(* initialised; the backhaul follows the link, and the two meet in the     *)
(* connection handler, which starts the BBR.                               *)
(***************************************************************************)
EXTENDS BackhaulDriver, NetMetric, ThreadConnHandler

CONSTANTS
    BackhaulPrefix, \* MBED_CONF_APP_BACKHAUL_PREFIX
    Autonomous,     \* MBED_CONF_APP_BACKHAUL_DYNAMIC_BOOTSTRAP
    Builds          \* the values of `asserts` to consider

VARIABLES
    asserts,        \* whether MBED_ASSERT halts the program in this build
    tasklet,        \* "off", "created", "running", "halted" or "exited"
    api,            \* the MAC of the radio was created
    mesh_up         \* arm_nwk_interface_up succeeded for the mesh

vars == <<appq, nwkq, timer, link, status_cb, ifs, metric,
          thread_br_handler, bbr, asserts, tasklet, api, mesh_up>>
meshVars == <<asserts, tasklet, api, mesh_up>>

ASSUME ThreadAssumption ==
    /\ BackhaulPrefix \in AnyPrefix
    /\ Autonomous \in BOOLEAN /\ Builds \subseteq BOOLEAN

\* MBED_ASSERT(FALSE): the end of the program, or nothing.
AfterAssert == IF asserts THEN "halted" ELSE "running"

-----------------------------------------------------------------------------
(* Start.                                                                  *)

\* border_router_tasklet_start, called by main, with thread_rf_init.
border_router_tasklet_start ==
    /\ tasklet = "off"
    /\ \/ tasklet' = "created" /\ api' = TRUE
       \/ /\ "rf_register" \in MayFail
          /\ tasklet' = IF asserts THEN "halted" ELSE "created"
          /\ api' = FALSE
    /\ UNCHANGED <<eventVars, driverVars, ifs, metric, connVars, asserts, mesh_up>>

\* mesh_network_up after a lowpan_init that returned `id`: stop after a failed
\* bootstrap_set without telling the connection handler; otherwise tell it and
\* bring the mesh up (thread_interface_up), which may fail an assertion.
MeshInterface(id) ==
    \/ /\ "bootstrap_set" \in MayFail
       /\ ifs' = [ifs EXCEPT ![id] = Idle("lowpan")]
       /\ tasklet' = "running"
       /\ UNCHANGED <<mesh_up, connVars>>
    \/ /\ ifs' = [ifs EXCEPT ![id] = InterfaceUp("lowpan", Unspecified)]
       /\ mesh_up' = TRUE
       /\ tasklet' = "running"
       /\ thread_interface_id_set(id)
    \/ /\ "thread_interface_up" \in MayFail
       /\ ifs' = [ifs EXCEPT ![id] = Idle("lowpan")]
       /\ tasklet' = AfterAssert
       /\ thread_interface_id_set(id)
       /\ UNCHANGED mesh_up

mesh_network_up ==
    \/ api /\ \E id \in InitIds("lowpan") : MeshInterface(id)
    \/ /\ ~api \/ "lowpan_init" \in MayFail
       /\ tasklet' = AfterAssert
       /\ UNCHANGED <<ifs, mesh_up, connVars>>

\* ARM_LIB_TASKLET_INIT_EVENT: handler, driver, mesh, timer, in this order; a
\* halted program arms no timer.
TaskletInit ==
    /\ tasklet = "created"
    /\ backhaul_driver_init
    /\ mesh_network_up
    /\ IF tasklet' = "running" THEN eventOS_event_timer_request
                               ELSE UNCHANGED timer
    /\ UNCHANGED <<nwkq, metric, asserts, api>>

\* backhaul_driver_init ended the program.
TaskletExit ==
    /\ tasklet = "created"
    /\ DriverInitExits
    /\ tasklet' = "exited"
    /\ UNCHANGED <<eventVars, driverVars, ifs, metric, connVars, asserts, api,
                   mesh_up>>

-----------------------------------------------------------------------------
(* The backhaul.                                                           *)

Receive(event) == appq # <<>> /\ Head(appq) = event /\ appq' = Tail(appq)

\* eth_network_data_init: how the backhaul gets its addresses.
BackhaulAddress == IF Autonomous THEN Learned ELSE BackhaulPrefix

\* backhaul_interface_up with a new interface; the results of the calls after
\* the id is set are ignored.
EthernetUp(id) ==
    /\ eth_interface_id_set(id)
    /\ metric' = [metric EXCEPT ![id] = Unset]
    /\ \/ ifs' = [ifs EXCEPT ![id] = InterfaceUp("eth", BackhaulAddress)]
       \/ /\ "backhaul_up" \in MayFail
          /\ ifs' = [ifs EXCEPT ![id] = [Idle("eth") EXCEPT !.cfg = BackhaulAddress]]

EthernetInitFails_stored ==
    /\ tasklet' = AfterAssert
    /\ \E code \in FailCodes : eth_interface_id_set(code)
NoInterface_once == eth_id = -1 /\ bbr = NotStarted
TakeDown_ready(id) ==
    IF thread_br_handler.eth_connection_ready
    THEN arm_nwk_interface_down(id) ELSE UNCHANGED <<ifs, nwkq>>

\* MBED_ASSERT(backhaul_if_id >= 0); the handler's id stays -1.
EthernetInitFails == tasklet' = AfterAssert /\ UNCHANGED connVars

\* The guards of backhaul_interface_up and backhaul_interface_down.
NoInterface == eth_id = -1
TakeDown(id) == arm_nwk_interface_down(id)

\* PHY_DRIVER_READY, with backhaul_interface_up.
PhyDriverReady ==
    /\ tasklet = "running"
    /\ Receive("PHY_DRIVER_READY")
    /\ \/ ~NoInterface /\ UNCHANGED <<tasklet, ifs, metric, connVars>>
       \/ /\ NoInterface
          /\ \E id \in InitIds("eth") : EthernetUp(id)
          /\ UNCHANGED tasklet
       \/ /\ NoInterface
          /\ "ethernet_init" \in MayFail
          /\ EthernetInitFails
          /\ UNCHANGED <<ifs, metric>>
    /\ UNCHANGED <<nwkq, timer, driverVars, asserts, api, mesh_up>>

\* PHY_DOWN, with backhaul_interface_down: the stack first, then the handler.
PhyDown ==
    /\ tasklet = "running"
    /\ Receive("PHY_DOWN")
    /\ \/ NoInterface /\ UNCHANGED <<ifs, nwkq, connVars>>
       \/ ~NoInterface /\ TakeDown(eth_id) /\ eth_interface_gone
    /\ UNCHANGED <<timer, driverVars, metric, meshVars>>

-----------------------------------------------------------------------------
(* Events of the stack: those of the id the backhaul has go to             *)
(* network_interface_event_handler, every other to                         *)
(* thread_interface_event_handler.                                         *)

IsBackhaul_mesh == Head(nwkq).id = thread_id

\* The dispatch on event_id.
IsBackhaul == Head(nwkq).id = eth_id

ReceiveStatus == nwkq # <<>> /\ nwkq' = Tail(nwkq)

\* READY of the backhaul: its metric, and a static backhaul adds its route, the
\* results ignored; then it counts as connected.
EthernetReady ==
    /\ tasklet = "running"
    /\ ReceiveStatus
    /\ IsBackhaul /\ Head(nwkq).status = "READY"
    /\ SetMetric(eth_id, HighPriority)
    /\ \E added \in {~Autonomous, ~Autonomous /\ "route_add" \notin MayFail} :
          ifs' = [ifs EXCEPT ![eth_id].route = @ \/ added]
    /\ ethernet_connection_update(TRUE)
    /\ UNCHANGED <<appq, timer, driverVars, meshVars>>

\* Any other status of the backhaul is only traced.
EthernetOtherStatus ==
    /\ tasklet = "running"
    /\ ReceiveStatus
    /\ IsBackhaul /\ Head(nwkq).status # "READY"
    /\ UNCHANGED <<appq, timer, driverVars, ifs, metric, connVars, meshVars>>

\* Any status of any other id is taken for the mesh's: READY gives the mesh its
\* metric and means connected, everything else not connected.
thread_interface_event ==
    /\ tasklet = "running"
    /\ ReceiveStatus
    /\ ~IsBackhaul
    /\ IF Head(nwkq).status = "READY" THEN SetMetric(thread_id, MESH_METRIC)
                                      ELSE UNCHANGED metric
    /\ thread_connection_update(Head(nwkq).status = "READY")
    /\ UNCHANGED <<appq, timer, driverVars, ifs, meshVars>>

\* ARM_LIB_SYSTEM_TIMER_EVENT 9: cancel the timer and request it again.
SystemTimer ==
    /\ tasklet = "running"
    /\ timer = "fired"
    /\ eventOS_event_timer_request
    /\ UNCHANGED <<appq, nwkq, driverVars, ifs, metric, connVars, meshVars>>

-----------------------------------------------------------------------------

Init ==
    /\ EventOSInit /\ DriverInit /\ StackInit /\ MetricInit
    /\ thread_br_handler = InitHandler /\ bbr = NotStarted
    /\ asserts \in Builds
    /\ tasklet = "off" /\ api = FALSE /\ mesh_up = FALSE

ownVars == <<metric, connVars, meshVars>>
Alive == tasklet \notin {"halted", "exited"}

Driver_LinkReport == Alive /\ LinkReport /\ UNCHANGED <<ifs, ownVars>>
Stack(i) == /\ Alive
            /\ BootstrapReady(i) \/ BootstrapFailed(i) \/ ConnectionLost(i)
            /\ UNCHANGED <<driverVars, ownVars>>
Timer == Alive /\ TimerFires /\ UNCHANGED <<driverVars, ifs, ownVars>>

Next ==
    \/ border_router_tasklet_start
    \/ TaskletInit \/ TaskletExit
    \/ PhyDriverReady \/ PhyDown
    \/ EthernetReady \/ EthernetOtherStatus \/ thread_interface_event
    \/ SystemTimer
    \/ Driver_LinkReport
    \/ \E i \in IfIds : Stack(i)
    \/ Timer

Spec == Init /\ [][Next]_vars

-----------------------------------------------------------------------------
(* Properties.                                                             *)

Events == [id : IfIds, status : Statuses]

\* Every variable has its type; unlike the ND router's, the handler's ids are
\* never the failure code of an init call, only -1 or an interface.
TypeOK ==
    /\ appq \in Seq(AppEvents) /\ nwkq \in Seq(Events)
    /\ timer \in {"off", "armed", "fired"}
    /\ link \in {"up", "down"} /\ status_cb \in BOOLEAN
    /\ ifs \in [IfIds -> Interface]
    /\ metric \in [IfIds -> Metrics]
    /\ thread_br_handler \in [thread_interface_id : IfIds \cup {-1},
                              eth_interface_id : IfIds \cup {-1},
                              eth_connection_ready : BOOLEAN,
                              thread_connection_ready : BOOLEAN]
    /\ bbr \in [thread : IfIds \cup {-1}, eth : IfIds \cup {-1}]
    /\ tasklet \in {"off", "created", "running", "halted", "exited"}
    /\ asserts \in Builds /\ api \in BOOLEAN /\ mesh_up \in BOOLEAN

\* Whenever both interfaces are known, the BBR was last started for exactly
\* them, in whichever order they came and however often the backhaul changed;
\* and the backhaul is not reported connected without an interface.
BbrServesCurrentPair ==
    /\ thread_id > -1 /\ eth_id > -1 => bbr = [thread |-> thread_id, eth |-> eth_id]
    /\ thread_br_handler.eth_connection_ready => eth_id > -1

\* No orphan: an Ethernet interface the stack runs, or routes over, is the one
\* the connection handler holds the id of, and it is not the mesh.
NoOrphanInterface ==
    \A i \in IfIds :
        ifs[i].kind = "eth" /\ (ifs[i].state # "idle" \/ ifs[i].route) =>
            i = eth_id /\ i # thread_id

\* With no event lost, once every report of the driver has been handled the
\* tasklet has followed the link; where assertions halt the program, also when
\* the Ethernet interface may fail to initialise.
LinkViewConverges ==
    tasklet = "running" /\ appq = <<>> =>
        /\ link = "down" => eth_id = -1
        /\ link = "up" /\ (asserts \/ "ethernet_init" \notin MayFail) => eth_id > -1

BackhaulReady == eth_id \in IfIds /\ ifs[eth_id].state = "ready"
MeshReady == mesh_up /\ ifs[thread_id].state = "ready"

\* What the tasklet owes a bootstrapped backhaul: the priority over the mesh,
\* its route if it is static, and the status "connected".
InService ==
    /\ metric[eth_id] = HighPriority
    /\ ~Autonomous => ifs[eth_id].route
    /\ thread_br_handler.eth_connection_ready

\* Where set_metric and route_add succeed: once the stack's events are handled,
\* a bootstrapped backhaul is in service and a bootstrapped mesh has its low
\* metric, although events of earlier backhauls are taken for the mesh's or for
\* those of the backhaul that has their id now, and whatever failed before.
ReadyIsInService ==
    tasklet = "running" /\ nwkq = <<>> =>
        /\ BackhaulReady => InService
        /\ MeshReady => metric[thread_id] = MESH_METRIC

\* "mesh0 connection status" (thread_br_conn_handler.c:42, traced from the
\* handler of the mesh's events): once the events of the stack are handled,
\* the status kept for the mesh is the one the stack has.
MeshStatusConverges ==
    tasklet = "running" /\ nwkq = <<>> /\ thread_id > -1 =>
        thread_br_handler.thread_connection_ready = (ifs[thread_id].state = "ready")

-----------------------------------------------------------------------------
(* Liveness.                                                               *)

\* As for the ND router: the event loop dispatches every queued event, the
\* timer expires, an interface that bootstraps gets ready if it does not fail.
Fairness ==
    /\ WF_vars(border_router_tasklet_start) /\ WF_vars(TaskletInit)
    /\ WF_vars(PhyDriverReady) /\ WF_vars(PhyDown)
    /\ WF_vars(EthernetReady) /\ WF_vars(EthernetOtherStatus)
    /\ WF_vars(thread_interface_event) /\ WF_vars(SystemTimer) /\ WF_vars(Timer)
    /\ \A i \in IfIds :
          WF_vars(Alive /\ BootstrapReady(i) /\ UNCHANGED <<driverVars, ownVars>>)

FairSpec == Spec /\ Fairness

\* A link that stays up, or stays down, is followed: the backhaul ends up
\* connected and served by the BBR, or taken down, for good.
BackhaulFollowsLink ==
    /\ <>[](link = "up") =>
          <>[](thread_br_handler.eth_connection_ready /\ bbr.eth = eth_id)
    /\ <>[](link = "down") => <>[](eth_id = -1)

-----------------------------------------------------------------------------
(* The service the tasklet provides.                                       *)

serviceBackhaul ==
    IF eth_id = -1 THEN "down"
    ELSE IF thread_br_handler.eth_connection_ready THEN "connected"
                                                   ELSE "bootstrapping"

Service == INSTANCE BorderRouterService WITH
    MeshNeedsBackhaul <- FALSE,
    backhaul <- serviceBackhaul,
    mesh <- IF mesh_up THEN "on" ELSE "off"

\* Every step of the tasklet is a step of the service or leaves it unchanged.
RefinesService == Service!ServiceSpec
=============================================================================
