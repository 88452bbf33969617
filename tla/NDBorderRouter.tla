--------------------------- MODULE NDBorderRouter ---------------------------
(***************************************************************************)
(* The 6LoWPAN ND border router tasklet, source/borderrouter_tasklet.c:    *)
(* it brings the backhaul interface up and down as the driver reports the  *)
(* link, and starts the mesh (a 6LoWPAN border router with RPL) the first  *)
(* time the backhaul is connected with a global address.                   *)
(*                                                                         *)
(* One action per event handler of the tasklet, each run to completion by  *)
(* the event loop; the driver, the stack and the timer act in between.     *)
(***************************************************************************)
EXTENDS BackhaulDriver, Nanostack

CONSTANTS
    Configs,        \* the configurations (global_config) the router may have
    StartFails      \* the numbered calls of start_6lowpan that may fail

VARIABLES
    global_config,      \* the configuration of this boot, read by load_config
    tasklet,            \* "off", "created", "running" or "exited" (by exit)
    settings,           \* what load_config leaves, fixed from then on
    backhaul_prefix,    \* the three prefixes the tasklet rewrites later
    lowpan_nd_prefix,
    DODAG_ID,           \* its prefix half; the other half never changes
    net_6lowpan_id,     \* ids: -1, a failure code, or an interface
    backhaul_if_id,
    net_6lowpan_state,
    net_backhaul_state,
    mesh                \* what the tasklet has told the stack of the mesh

taskletVars == <<global_config, tasklet, settings, net_6lowpan_id>>
prefixVars  == <<backhaul_prefix, lowpan_nd_prefix, DODAG_ID>>
meshVars    == <<net_6lowpan_state, mesh, lowpan_nd_prefix, DODAG_ID>>
backhaulVars == <<backhaul_if_id, net_backhaul_state, backhaul_prefix>>
vars == <<appq, nwkq, timer, link, status_cb, ifs, taskletVars,
          backhaulVars, meshVars>>

\* interface_bootstrap_state_e
PHY_NOT_READY    == "INTERFACE_IDLE_PHY_NOT_READY"
IDLE_STATE       == "INTERFACE_IDLE_STATE"
BOOTSTRAP_ACTIVE == "INTERFACE_BOOTSTRAP_ACTIVE"
CONNECTED        == "INTERFACE_CONNECTED"
InterfaceStates  == {PHY_NOT_READY, IDLE_STATE, BOOTSTRAP_ACTIVE, CONNECTED}

SecurityModes == {"NONE", "PSK", "PANA"}

-----------------------------------------------------------------------------
(* Configuration.                                                          *)

\* A configuration: a missing prefix is Missing, other keys are present or
\* not; SECURITY_MODE may also be a word the code does not know.
Missing == "NULL"
Config == [PREFIX : AnyPrefix \cup {Missing},
           BACKHAUL_PREFIX : AnyPrefix \cup {Missing},
           MULTICAST_ADDR : BOOLEAN,
           BACKHAUL_DYNAMIC_BOOTSTRAP : BOOLEAN,
           PREFIX_FROM_BACKHAUL : BOOLEAN,
           SECURITY_MODE : SecurityModes \cup {"OTHER"},
           PSK_KEY : BOOLEAN,
           TLS_PSK_KEY : BOOLEAN]

Settings == [autonomous : BOOLEAN,      \* backhaul_bootstrap_mode
             from_backhaul : BOOLEAN,   \* rf_prefix_from_backhaul
             security : SecurityModes]  \* link_security_mode

\* The values of the static variables before load_config.
DefaultSettings ==
    [autonomous |-> FALSE, from_backhaul |-> FALSE, security |-> "NONE"]

ASSUME NDAssumption ==
    /\ Configs \subseteq Config
    /\ StartFails \subseteq 1..7

\* load_config gives up at the first of these keys that is missing, and then
\* leaves everything that comes after it at its default.
HasPrefix(c)      == c.PREFIX # Missing
HasBackhaul(c)    == HasPrefix(c) /\ c.BACKHAUL_PREFIX # Missing
ReadsTheRest(c)   == HasBackhaul(c) /\ c.MULTICAST_ADDR

SecurityOf_any(c) == IF c.PSK_KEY THEN c.SECURITY_MODE ELSE "NONE"
\* SECURITY_MODE: a mode other than NONE counts only with a PSK_KEY.
SecurityOf(c) ==
    IF c.PSK_KEY /\ c.SECURITY_MODE \in {"PSK", "PANA"}
    THEN c.SECURITY_MODE ELSE "NONE"

load_config ==
    LET c == global_config IN
    /\ settings' = IF ReadsTheRest(c)
                   THEN [autonomous |-> c.BACKHAUL_DYNAMIC_BOOTSTRAP,
                         from_backhaul |-> c.PREFIX_FROM_BACKHAUL,
                         security |-> SecurityOf(c)]
                   ELSE settings
    /\ backhaul_prefix' = IF HasBackhaul(c) THEN c.BACKHAUL_PREFIX
                                            ELSE backhaul_prefix
    /\ lowpan_nd_prefix' = IF ReadsTheRest(c) THEN c.PREFIX ELSE lowpan_nd_prefix
    /\ DODAG_ID' = IF ReadsTheRest(c) THEN c.PREFIX ELSE DODAG_ID

-----------------------------------------------------------------------------
(* The mesh.                                                               *)

\* The calls start_6lowpan makes, in order, each skipped if an earlier one
\* failed.  arm_nwk_6lowpan_rpl_dodag_init comes after CONTEXT_UPDATE; its
\* failure stops nothing.  PANA_INIT stands for the three calls made when the
\* security mode is PANA.
BOOTSTRAP_SET    == 1
SECURITY_MODE    == 2
BR_INIT          == 3
CONTEXT_UPDATE   == 4
PANA_INIT        == 5
SET_CHANNEL_LIST == 6
INTERFACE_UP     == 7

\* What the stack holds of the mesh: the configuration calls that succeeded,
\* the values last configured, whether the interface was brought up and
\* whether RPL was started.
Mesh == [calls : SUBSET (1..6),
         security : SecurityModes,
         prefix : AnyPrefix,        \* arm_nwk_6lowpan_border_router_init
         context : AnyPrefix,       \* ..._border_router_context_update
         dodag : AnyPrefix \cup {Missing},  \* ..._rpl_dodag_init
         up : BOOLEAN,
         rpl_started : BOOLEAN]

InitMesh == [calls |-> {}, security |-> "NONE", prefix |-> Unspecified,
             context |-> Unspecified, dodag |-> Missing,
             up |-> FALSE, rpl_started |-> FALSE]

UsesPana == settings.security = "PANA"

\* Whether start_6lowpan may stop after its first n calls, and whether it can
\* get that far: without a TLS_PSK_KEY it never gets past PANA_INIT.
MayStopAfter(n) ==
    /\ \/ n = INTERFACE_UP
       \/ n + 1 \in StartFails /\ (n + 1 = PANA_INIT => UsesPana)
       \/ n + 1 = PANA_INIT /\ UsesPana /\ ~global_config.TLS_PSK_KEY
    /\ n >= PANA_INIT /\ UsesPana => global_config.TLS_PSK_KEY

\* Defects of the code the checks must find, here and below, are named after
\* the definition they replace.
HasGlobalAddress_unchecked(i) == ifs[i].state = "ready"
MeshMayStart_again == net_6lowpan_state \in {IDLE_STATE, BOOTSTRAP_ACTIVE}
MeshMayStart_late  == net_6lowpan_state = CONNECTED
NewDodag_stale(n, p) == DODAG_ID
RplConfigured_once(n, rplOk) ==
    n >= CONTEXT_UPDATE /\ rplOk /\ mesh.dodag = Missing
StateAfterStart_early(n) ==
    IF n >= SET_CHANNEL_LIST THEN BOOTSTRAP_ACTIVE ELSE net_6lowpan_state

\* arm_net_address_get(backhaul_if_id, ADDR_IPV6_GP, p) == 0
HasGlobalAddress(i) == ifs[i].gp # Unspecified

\* The mesh is started only once, from the state TaskletInit puts it in.
MeshMayStart == net_6lowpan_state = IDLE_STATE

\* After SECURITY_MODE, the prefix p of the backhaul replaces the mesh's and
\* the DODAG's if the configuration says so.
CopiesPrefix(n) == n >= SECURITY_MODE /\ settings.from_backhaul
NewPrefix(n, p) == IF CopiesPrefix(n) THEN p ELSE lowpan_nd_prefix
NewDodag(n, p)  == IF CopiesPrefix(n) THEN p ELSE DODAG_ID

\* arm_nwk_6lowpan_rpl_dodag_init was reached and succeeded.
RplConfigured(n, rplOk) == n >= CONTEXT_UPDATE /\ rplOk

StateAfterStart(n) ==
    IF n = INTERFACE_UP THEN BOOTSTRAP_ACTIVE ELSE net_6lowpan_state

\* What the stack holds of the mesh after the first n calls.
MeshAfter(n, rplOk, prefix, dodag) ==
    [mesh EXCEPT
        !.calls = @ \cup ((1..n) \cap (IF UsesPana THEN 1..6
                                       ELSE (1..6) \ {PANA_INIT})),
        !.security = IF n >= SECURITY_MODE THEN settings.security ELSE @,
        !.prefix  = IF n >= BR_INIT THEN prefix ELSE @,
        !.context = IF n >= CONTEXT_UPDATE THEN dodag ELSE @,
        !.dodag   = IF RplConfigured(n, rplOk) THEN dodag ELSE @,
        !.up      = @ \/ n = INTERFACE_UP]

\* start_6lowpan, after the stack's interfaces have become `stack`.
start_6lowpan(stack) ==
    LET p == stack[backhaul_if_id].gp IN
    \E n \in 0..7, rplOk \in {TRUE, "rpl_dodag_init" \notin MayFail} :
        /\ MayStopAfter(n)
        /\ lowpan_nd_prefix' = NewPrefix(n, p)
        /\ DODAG_ID' = NewDodag(n, p)
        /\ mesh' = MeshAfter(n, rplOk, NewPrefix(n, p), NewDodag(n, p))
        /\ net_6lowpan_state' = StateAfterStart(n)
        /\ ifs' = IF n = INTERFACE_UP
                  THEN [stack EXCEPT ![net_6lowpan_id] =
                            InterfaceUp("lowpan", NewPrefix(n, p))]
                  ELSE stack

-----------------------------------------------------------------------------
(* The backhaul.                                                           *)

ReadyState_reset == IDLE_STATE
ReadyForInterface_once == backhaul_if_id = -1 /\ net_backhaul_state = PHY_NOT_READY
NothingToTakeDown_unready == backhaul_if_id = -1 \/ net_backhaul_state # CONNECTED
StateAfterDown_kept == net_backhaul_state
TakeDown_ready(id) ==
    IF net_backhaul_state = CONNECTED THEN arm_nwk_interface_down(id)
                                      ELSE UNCHANGED <<ifs, nwkq>>

\* The new backhaul takes its prefix from the mesh when none is configured.
NewBackhaulPrefix ==
    IF backhaul_prefix = Unspecified THEN DODAG_ID ELSE backhaul_prefix

\* net_backhaul_state once PHY_DRIVER_READY has been seen.
ReadyState == IF net_backhaul_state = PHY_NOT_READY THEN IDLE_STATE
                                                    ELSE net_backhaul_state

\* Any id but -1, a failure code included, counts as an interface that is up:
\* the guards of backhaul_interface_up and of backhaul_interface_down.
ReadyForInterface == backhaul_if_id = -1
NothingToTakeDown == backhaul_if_id = -1

\* backhaul_interface_up after a successful ethernet_init; the results of the
\* calls that follow it are ignored.
EthernetUp(id) ==
    LET cfg == IF settings.autonomous THEN Learned ELSE NewBackhaulPrefix IN
    /\ backhaul_if_id' = id
    /\ backhaul_prefix' = NewBackhaulPrefix
    /\ \/ ifs' = [ifs EXCEPT ![id] = InterfaceUp("eth", cfg)]
       \/ /\ "backhaul_up" \in MayFail
          /\ ifs' = [ifs EXCEPT ![id] = [Idle("eth") EXCEPT !.cfg = cfg]]

EthernetInitFails ==
    /\ "ethernet_init" \in MayFail
    /\ backhaul_if_id' \in FailCodes
    /\ UNCHANGED <<backhaul_prefix, ifs>>

Receive(event) == appq # <<>> /\ Head(appq) = event /\ appq' = Tail(appq)

\* PHY_DRIVER_READY, with backhaul_interface_up.
PhyDriverReady ==
    /\ tasklet = "running"
    /\ Receive("PHY_DRIVER_READY")
    /\ \/ /\ ~ReadyForInterface
          /\ net_backhaul_state' = ReadyState
          /\ UNCHANGED <<backhaul_if_id, backhaul_prefix, ifs>>
       \/ /\ ReadyForInterface
          /\ \E id \in InitIds("eth") : EthernetUp(id)
          /\ net_backhaul_state' = BOOTSTRAP_ACTIVE
       \/ /\ ReadyForInterface
          /\ EthernetInitFails
          /\ net_backhaul_state' = ReadyState
    /\ UNCHANGED <<nwkq, timer, driverVars, taskletVars, meshVars>>

\* arm_nwk_interface_down: an id that is a failure code names nothing.
TakeDown(id) == IF id \in IfIds THEN arm_nwk_interface_down(id)
                                ELSE UNCHANGED <<ifs, nwkq>>
StateAfterDown == IDLE_STATE

\* PHY_DOWN, with backhaul_interface_down.
PhyDown ==
    /\ tasklet = "running"
    /\ Receive("PHY_DOWN")
    /\ \/ /\ NothingToTakeDown
          /\ UNCHANGED <<backhaul_if_id, net_backhaul_state, ifs, nwkq>>
       \/ /\ ~NothingToTakeDown
          /\ TakeDown(backhaul_if_id)
          /\ backhaul_if_id' = -1
          /\ net_backhaul_state' = StateAfterDown
    /\ UNCHANGED <<timer, driverVars, taskletVars, meshVars, backhaul_prefix>>

-----------------------------------------------------------------------------
(* Events of the stack (app_parse_network_event).                          *)

ReceiveStatus(ready) ==
    /\ nwkq # <<>>
    /\ (Head(nwkq).status = "READY") = ready
    /\ nwkq' = Tail(nwkq)

TakenForMesh_any == TRUE

\* READY for any id but the backhaul's is taken for the mesh's.
TakenForMesh == Head(nwkq).id # backhaul_if_id

\* READY for the id the backhaul has: add the default route if the backhaul is
\* static, then start the mesh if it was never started and there is a global
\* address to start it with.
BackhaulBootstrapReady ==
    /\ tasklet = "running"
    /\ ReceiveStatus(TRUE)
    /\ Head(nwkq).id = backhaul_if_id
    /\ net_backhaul_state' = CONNECTED
    /\ \E added \in {~settings.autonomous,
                     ~settings.autonomous /\ "route_add" \notin MayFail} :
          LET stack == [ifs EXCEPT ![backhaul_if_id].route = @ \/ added] IN
          IF MeshMayStart /\ HasGlobalAddress(backhaul_if_id)
          THEN start_6lowpan(stack)
          ELSE ifs' = stack /\ UNCHANGED meshVars
    /\ UNCHANGED <<appq, timer, driverVars, taskletVars,
                   backhaul_if_id, backhaul_prefix>>

\* READY for any other id.
MeshBootstrapReady ==
    /\ tasklet = "running"
    /\ ReceiveStatus(TRUE)
    /\ TakenForMesh
    /\ net_6lowpan_state' = CONNECTED
    /\ mesh' = [mesh EXCEPT !.rpl_started = @ \/ net_6lowpan_id >= 0]
    /\ UNCHANGED <<appq, timer, driverVars, ifs, taskletVars, backhaulVars,
                   lowpan_nd_prefix, DODAG_ID>>

\* Every other status is only traced.
OtherStatus ==
    /\ tasklet = "running"
    /\ ReceiveStatus(FALSE)
    /\ UNCHANGED <<appq, timer, driverVars, ifs, taskletVars, backhaulVars,
                   meshVars>>

-----------------------------------------------------------------------------
(* Start of the tasklet, and its timer.                                    *)

\* The radio and its interface: an id, a failure code, or -1 without a radio.
rf_interface_init ==
    \/ \E id \in InitIds("lowpan") :
          /\ net_6lowpan_id' = id
          /\ ifs' = [ifs EXCEPT ![id] = Idle("lowpan")]
    \/ /\ "rf_register" \in MayFail
       /\ net_6lowpan_id' = -1
       /\ UNCHANGED ifs
    \/ /\ "lowpan_init" \in MayFail
       /\ net_6lowpan_id' \in FailCodes
       /\ UNCHANGED ifs

\* border_router_tasklet_start, called by main: the radio, the configuration
\* and the event handler.
border_router_tasklet_start ==
    /\ tasklet = "off"
    /\ tasklet' = "created"
    /\ rf_interface_init
    /\ load_config
    /\ UNCHANGED <<eventVars, driverVars, global_config, backhaul_if_id,
                   net_6lowpan_state, net_backhaul_state, mesh>>

\* ARM_LIB_TASKLET_INIT_EVENT: the driver, then the radio's state and timer.
TaskletInit ==
    /\ tasklet = "created"
    /\ tasklet' = "running"
    /\ backhaul_driver_init
    /\ IF net_6lowpan_id < 0
       THEN UNCHANGED <<net_6lowpan_state, timer>>
       ELSE net_6lowpan_state' = IDLE_STATE /\ eventOS_event_timer_request
    /\ UNCHANGED <<nwkq, ifs, global_config, settings, net_6lowpan_id,
                   backhaulVars, mesh, lowpan_nd_prefix, DODAG_ID>>

\* backhaul_driver_init ended the program.
TaskletExit ==
    /\ tasklet = "created"
    /\ DriverInitExits
    /\ tasklet' = "exited"
    /\ UNCHANGED <<eventVars, driverVars, ifs, global_config, settings,
                   net_6lowpan_id, backhaulVars, meshVars>>

\* ARM_LIB_SYSTEM_TIMER_EVENT 9: cancel the timer and request it again.
SystemTimer ==
    /\ tasklet = "running"
    /\ timer = "fired"
    /\ eventOS_event_timer_request
    /\ UNCHANGED <<appq, nwkq, driverVars, ifs, taskletVars, backhaulVars,
                   meshVars>>

-----------------------------------------------------------------------------

Init ==
    /\ EventOSInit /\ DriverInit /\ StackInit
    /\ global_config \in Configs
    /\ tasklet = "off"
    /\ settings = DefaultSettings
    /\ backhaul_prefix = Unspecified
    /\ lowpan_nd_prefix = Unspecified
    /\ DODAG_ID = Unspecified
    /\ net_6lowpan_id = -1 /\ backhaul_if_id = -1
    /\ net_6lowpan_state = PHY_NOT_READY
    /\ net_backhaul_state = PHY_NOT_READY
    /\ mesh = InitMesh

ownVars == <<taskletVars, backhaulVars, meshVars>>

Driver_LinkReport == LinkReport /\ UNCHANGED <<ifs, ownVars>>
Stack(i) == /\ BootstrapReady(i) \/ BootstrapFailed(i) \/ ConnectionLost(i)
            /\ UNCHANGED <<driverVars, ownVars>>
Timer == TimerFires /\ UNCHANGED <<driverVars, ifs, ownVars>>

Handler ==
    \/ TaskletInit \/ TaskletExit
    \/ PhyDriverReady \/ PhyDown
    \/ BackhaulBootstrapReady \/ MeshBootstrapReady \/ OtherStatus
    \/ SystemTimer

Next ==
    \/ border_router_tasklet_start
    \/ Handler
    \/ Driver_LinkReport
    \/ \E i \in IfIds : Stack(i)
    \/ Timer

Spec == Init /\ [][Next]_vars

-----------------------------------------------------------------------------
(* Properties.                                                             *)

Events == [id : IfIds, status : Statuses]

\* Every variable of the tasklet, its driver and its stack has its type.
TypeOK ==
    /\ appq \in Seq(AppEvents) /\ nwkq \in Seq(Events)
    /\ timer \in {"off", "armed", "fired"}
    /\ link \in {"up", "down"} /\ status_cb \in BOOLEAN
    /\ ifs \in [IfIds -> Interface]
    /\ global_config \in Configs
    /\ tasklet \in {"off", "created", "running", "exited"}
    /\ settings \in Settings
    /\ backhaul_prefix \in AnyPrefix
    /\ lowpan_nd_prefix \in AnyPrefix
    /\ DODAG_ID \in AnyPrefix
    /\ net_6lowpan_id \in IfIds \cup FailCodes
    /\ backhaul_if_id \in IfIds \cup FailCodes
    /\ net_6lowpan_state \in InterfaceStates
    /\ net_backhaul_state \in InterfaceStates
    /\ mesh \in Mesh

\* The state the tasklet keeps of the backhaul and the id it keeps agree: it
\* believes an interface is bootstrapping or connected exactly while it holds
\* a valid id, whatever the init calls returned and the driver reported.
BackhaulStateAgrees ==
    net_backhaul_state \in {BOOTSTRAP_ACTIVE, CONNECTED} <=> backhaul_if_id \in IfIds

\* No orphan: an Ethernet interface the stack runs, or routes over, is the one
\* the tasklet still holds the id of (backhaul_interface_down would never take
\* another one down), it is not the mesh, and only a static backhaul has a
\* default route.
NoOrphanInterface ==
    \A i \in IfIds :
        /\ ifs[i].kind = "eth" /\ (ifs[i].state # "idle" \/ ifs[i].route) =>
              i = backhaul_if_id /\ i # net_6lowpan_id
        /\ ifs[i].route => ~settings.autonomous

\* A mesh that is up was configured completely, by the settings in force, and
\* consistently: whatever calls failed in earlier attempts of start_6lowpan,
\* and whatever prefix the backhaul had then.
RequiredCalls ==
    IF UsesPana THEN 1..6 ELSE (1..6) \ {PANA_INIT}
MeshFullyConfigured ==
    mesh.up => /\ mesh.calls = RequiredCalls
               /\ mesh.security = settings.security
               /\ mesh.prefix = lowpan_nd_prefix
               /\ mesh.context = DODAG_ID
               /\ lowpan_nd_prefix = DODAG_ID

\* The mesh leaves IDLE_STATE for BOOTSTRAP_ACTIVE only by being brought up,
\* and a mesh that was brought up is never in IDLE_STATE, from which the next
\* READY of the backhaul would start it again.
MeshStartedOnce ==
    /\ net_6lowpan_state = BOOTSTRAP_ACTIVE => mesh.up
    /\ mesh.up => net_6lowpan_state \in {BOOTSTRAP_ACTIVE, CONNECTED}

\* Nothing of the mesh's configuration changes under a mesh that is up, however
\* often the backhaul goes down and comes back.
ConfigOf(m) == <<m.calls, m.security, m.prefix, m.context, m.dodag>>
MeshConfigFrozen ==
    [][mesh.up => UNCHANGED <<ConfigOf(mesh), lowpan_nd_prefix, DODAG_ID>>]_vars

\* The mesh is brought up only over a backhaul that is bootstrapped in the
\* stack and has a global address, even if the READY event being handled is an
\* old one of an interface that has since been taken down and initialised anew,
\* and although a backhaul that is READY may have no such address.
MeshStartsOnBackhaul ==
    [][~mesh.up /\ mesh'.up =>
          /\ net_backhaul_state' = CONNECTED
          /\ backhaul_if_id \in IfIds
          /\ ifs[backhaul_if_id].state = "ready"
          /\ ifs[backhaul_if_id].gp # Unspecified
          /\ settings.from_backhaul => mesh'.prefix = ifs[backhaul_if_id].gp]_vars

\* With no event lost, once every report of the driver has been handled the
\* tasklet has followed the link: no backhaul on a link that is down, and one
\* on a link that is up (unless its interface could not be initialised).
LinkViewConverges ==
    tasklet = "running" /\ appq = <<>> =>
        /\ link = "down" => backhaul_if_id = -1
        /\ link = "up" /\ "ethernet_init" \notin MayFail => backhaul_if_id \in IfIds

\* "Network connection Ready" (borderrouter_tasklet.c:642): the mesh is marked
\* connected only if it was started.
ReadyMeansMesh == net_6lowpan_state = CONNECTED => mesh.up

\* "use the same backhaul prefix on the mesh network side as well"
\* (README.md:192): with prefix-from-backhaul, once the events of the stack are
\* handled, a mesh that is up has the prefix of the connected backhaul.
PrefixFollowsBackhaul ==
    /\ settings.from_backhaul /\ mesh.up /\ nwkq = <<>>
    /\ backhaul_if_id \in IfIds
    /\ ifs[backhaul_if_id].gp # Unspecified
    => mesh.prefix = ifs[backhaul_if_id].gp

\* "Nanostack Border Router uses RPL as the routing protocol on the mesh"
\* (README.md:118): a mesh that is up has an RPL DODAG, and it is the one of the
\* router's id as it is now and not the one an earlier attempt configured with
\* the prefix the backhaul had then (where arm_nwk_6lowpan_rpl_dodag_init, whose
\* failure stops nothing, succeeds).
MeshHasRpl == mesh.up => mesh.dodag = DODAG_ID

-----------------------------------------------------------------------------
(* Liveness.                                                               *)

\* The event loop dispatches every queued event in the end, the timer expires,
\* and an interface that bootstraps gets ready if it does not fail.
Fairness ==
    /\ WF_vars(border_router_tasklet_start) /\ WF_vars(TaskletInit)
    /\ WF_vars(PhyDriverReady) /\ WF_vars(PhyDown)
    /\ WF_vars(BackhaulBootstrapReady) /\ WF_vars(MeshBootstrapReady)
    /\ WF_vars(OtherStatus) /\ WF_vars(SystemTimer) /\ WF_vars(Timer)
    /\ \A i \in IfIds :
          WF_vars(BootstrapReady(i) /\ UNCHANGED <<driverVars, ownVars>>)

FairSpec == Spec /\ Fairness

\* On a link that never changes (SLIP), the mesh is started, with RPL, and
\* reported connected.
MeshConnects ==
    <>(net_6lowpan_state = CONNECTED /\ mesh.up /\ mesh.rpl_started)

\* A link that stays up, or stays down, is followed: the backhaul ends up
\* connected, or taken down, for good.
BackhaulFollowsLink ==
    /\ <>[](link = "up") => <>[](net_backhaul_state = CONNECTED)
    /\ <>[](link = "down") => <>[](backhaul_if_id = -1)

-----------------------------------------------------------------------------
(* The service the tasklet provides.                                       *)

serviceBackhaul ==
    IF backhaul_if_id \notin IfIds THEN "down"
    ELSE IF net_backhaul_state = CONNECTED THEN "connected" ELSE "bootstrapping"
serviceMesh == IF mesh.up THEN "on" ELSE "off"

Service == INSTANCE BorderRouterService WITH
    MeshNeedsBackhaul <- TRUE, backhaul <- serviceBackhaul, mesh <- serviceMesh

\* Every step of the tasklet is a step of the service or leaves it unchanged.
RefinesService == Service!ServiceSpec
=============================================================================
