------------------------ MODULE NDBorderRouterProofs ------------------------
(***************************************************************************)
(* What holds of NDBorderRouter for every number of interfaces, prefixes,  *)
(* configurations and failures.                                            *)
(***************************************************************************)
EXTENDS NDBorderRouter, StackLemmas

\* The assumptions on the constants, under one name.
LEMMA Constants ==
    /\ IfIds \subseteq Nat /\ -1 \notin IfIds
    /\ FailCodes \subseteq Int /\ -1 \in FailCodes
    /\ \A c \in FailCodes : c < 0 /\ c \notin IfIds
    /\ Unspecified \in AnyPrefix
    /\ Configs \subseteq Config
BY NanostackAssumption, NDAssumption DEF AnyPrefix

\* The parts of a configuration that load_config uses have the right type.
LEMMA LoadConfigType ==
    ASSUME TypeOK, load_config
    PROVE  /\ settings' \in Settings
           /\ backhaul_prefix' \in AnyPrefix
           /\ lowpan_nd_prefix' \in AnyPrefix
           /\ DODAG_ID' \in AnyPrefix
<1> global_config \in Config
  BY Constants DEF TypeOK
<1>1. SecurityOf(global_config) \in SecurityModes
  BY DEF SecurityOf, SecurityModes
<1>2. settings' \in Settings
  BY <1>1 DEF TypeOK, load_config, Config, Settings
<1>3. backhaul_prefix' \in AnyPrefix
  BY DEF TypeOK, load_config, Config, HasBackhaul, HasPrefix
<1>4. lowpan_nd_prefix' \in AnyPrefix /\ DODAG_ID' \in AnyPrefix
  BY DEF TypeOK, load_config, Config, ReadsTheRest, HasBackhaul, HasPrefix
<1>5. QED
  BY <1>2, <1>3, <1>4

LEMMA InitType == Init => TypeOK
<1> SUFFICES ASSUME Init PROVE TypeOK
  OBVIOUS
<1>1. ifs \in [IfIds -> Interface]
  BY NewInterface, Constants DEF Init, StackInit, AnyPrefix
<1>2. mesh \in Mesh
  BY Constants DEF Init, InitMesh, Mesh, SecurityModes
<1>3. appq \in Seq(AppEvents) /\ nwkq \in Seq(Events)
  BY DEF Init, EventOSInit
<1>4. settings \in Settings
  BY DEF Init, DefaultSettings, Settings, SecurityModes
<1>5. timer \in {"off", "armed", "fired"} /\ link \in {"up", "down"} /\ status_cb \in BOOLEAN
  BY DEF Init, EventOSInit, DriverInit
<1>6. QED
  BY <1>1, <1>2, <1>3, <1>4, <1>5, Constants
  DEF Init, TypeOK, InterfaceStates, PHY_NOT_READY

-----------------------------------------------------------------------------
(* Every action preserves the types.                                       *)

\* Sending and receiving keep the queues queues of events.
LEMMA QueueTypes ==
    ASSUME TypeOK
    PROVE  /\ \A e \in AppEvents : eventOS_event_send(e) => appq' \in Seq(AppEvents)
           /\ \A e : Receive(e) => appq' \in Seq(AppEvents)
           /\ \A i \in IfIds, s \in Statuses :
                 PostInterfaceEvent(i, s) => nwkq' \in Seq(Events)
           /\ \A ready \in BOOLEAN : ReceiveStatus(ready) =>
                 nwkq' \in Seq(Events) /\ Head(nwkq) \in Events
<1> USE DEF TypeOK
<1>1. \A e \in AppEvents : eventOS_event_send(e) => appq' \in Seq(AppEvents)
  BY DEF eventOS_event_send
<1>2. \A e : Receive(e) => appq' \in Seq(AppEvents)
  BY DEF Receive
<1>3. ASSUME NEW i \in IfIds, NEW s \in Statuses, PostInterfaceEvent(i, s)
      PROVE  nwkq' \in Seq(Events)
  <2>1. [id |-> i, status |-> s] \in Events
    BY DEF Events
  <2>2. QED
    BY <2>1, <1>3 DEF PostInterfaceEvent
<1>4. ASSUME NEW ready \in BOOLEAN, ReceiveStatus(ready)
      PROVE  nwkq' \in Seq(Events) /\ Head(nwkq) \in Events
  BY <1>4 DEF ReceiveStatus
<1>5. QED
  BY <1>1, <1>2, <1>3, <1>4

\* What start_6lowpan tells the stack of the mesh has its type.
LEMMA MeshAfterType ==
    ASSUME TypeOK, NEW n \in 0..7, NEW rplOk,
           NEW prefix \in AnyPrefix, NEW dodag \in AnyPrefix
    PROVE  MeshAfter(n, rplOk, prefix, dodag) \in Mesh
<1> DEFINE calls == mesh.calls \cup ((1..n) \cap (IF UsesPana THEN 1..6
                                                  ELSE (1..6) \ {PANA_INIT}))
           sec == IF n >= SECURITY_MODE THEN settings.security ELSE mesh.security
           pre == IF n >= BR_INIT THEN prefix ELSE mesh.prefix
           ctx == IF n >= CONTEXT_UPDATE THEN dodag ELSE mesh.context
           dag == IF RplConfigured(n, rplOk) THEN dodag ELSE mesh.dodag
           up  == mesh.up \/ n = INTERFACE_UP
<1>1. mesh \in Mesh /\ settings \in Settings
  BY DEF TypeOK
<1>2. calls \in SUBSET (1..6)
  BY <1>1 DEF Mesh
<1>3. sec \in SecurityModes /\ pre \in AnyPrefix /\ ctx \in AnyPrefix
      /\ dag \in AnyPrefix \cup {Missing}
  BY <1>1 DEF Mesh, Settings
<1>4. up \in BOOLEAN
  OBVIOUS
<1>5. MeshAfter(n, rplOk, prefix, dodag) =
        [mesh EXCEPT !.calls = calls, !.security = sec, !.prefix = pre,
                     !.context = ctx, !.dodag = dag, !.up = up]
  BY DEF MeshAfter
<1> HIDE DEF calls, sec, pre, ctx, dag, up
<1>6. QED
  BY <1>1, <1>2, <1>3, <1>4, <1>5 DEF Mesh

\* What start_6lowpan writes has its type.
LEMMA StartType ==
    ASSUME TypeOK, NEW stack \in [IfIds -> Interface], backhaul_if_id \in IfIds,
           start_6lowpan(stack)
    PROVE  /\ ifs' \in [IfIds -> Interface]
           /\ lowpan_nd_prefix' \in AnyPrefix
           /\ DODAG_ID' \in AnyPrefix
           /\ net_6lowpan_state' \in InterfaceStates
           /\ mesh' \in Mesh
<1> DEFINE p == stack[backhaul_if_id].gp
<1>1. p \in AnyPrefix
  BY DEF Interface
<1>2. PICK n \in 0..7, rplOk \in {TRUE, "rpl_dodag_init" \notin MayFail} :
        /\ lowpan_nd_prefix' = NewPrefix(n, p)
        /\ DODAG_ID' = NewDodag(n, p)
        /\ mesh' = MeshAfter(n, rplOk, NewPrefix(n, p), NewDodag(n, p))
        /\ net_6lowpan_state' = StateAfterStart(n)
        /\ ifs' = IF n = INTERFACE_UP
                  THEN [stack EXCEPT ![net_6lowpan_id] =
                            InterfaceUp("lowpan", NewPrefix(n, p))]
                  ELSE stack
  BY DEF start_6lowpan
<1> HIDE DEF p
<1>3. NewPrefix(n, p) \in AnyPrefix /\ NewDodag(n, p) \in AnyPrefix
  BY <1>1 DEF NewPrefix, NewDodag, TypeOK
<1>4. InterfaceUp("lowpan", NewPrefix(n, p)) \in Interface
  BY <1>3, NewInterface
<1>5. ifs' \in [IfIds -> Interface]
  BY <1>2, <1>4
<1>6. net_6lowpan_state' \in InterfaceStates
  BY <1>2 DEF StateAfterStart, TypeOK, InterfaceStates
<1>7. MeshAfter(n, rplOk, NewPrefix(n, p), NewDodag(n, p)) \in Mesh
  BY <1>3, MeshAfterType
<1>8. QED
  BY <1>2, <1>3, <1>5, <1>6, <1>7

LEMMA StartTasklet == ASSUME TypeOK, border_router_tasklet_start PROVE TypeOK'
<1> USE DEF border_router_tasklet_start, rf_interface_init, eventVars, driverVars
<1>1. ifs' \in [IfIds -> Interface]
  BY NewInterface, Constants DEF TypeOK, AnyPrefix
<1>2. net_6lowpan_id' \in IfIds \cup FailCodes
  BY Constants DEF InitIds
<1>3. QED
  BY <1>1, <1>2, LoadConfigType DEF TypeOK

LEMMA TaskletInitType == ASSUME TypeOK, TaskletInit PROVE TypeOK'
<1>1. appq' \in Seq(AppEvents) /\ link' \in {"up", "down"} /\ status_cb' \in BOOLEAN
  BY QueueTypes DEF TypeOK, TaskletInit, backhaul_driver_init, SlipDriverInit,
     CallbackDriverInit, borderrouter_backhaul_phy_status_cb, AppEvents
<1>2. QED
  BY <1>1 DEF TypeOK, TaskletInit, eventOS_event_timer_request, backhaulVars,
     InterfaceStates, IDLE_STATE

LEMMA PhyDriverReadyType == ASSUME TypeOK, PhyDriverReady PROVE TypeOK'
<1> USE DEF PhyDriverReady
<1>1. appq' \in Seq(AppEvents)
  BY QueueTypes
<1>2. net_backhaul_state' \in InterfaceStates
  BY DEF TypeOK, ReadyState, InterfaceStates, IDLE_STATE, BOOTSTRAP_ACTIVE
<1>3. /\ ifs' \in [IfIds -> Interface]
      /\ backhaul_if_id' \in IfIds \cup FailCodes
      /\ backhaul_prefix' \in AnyPrefix
  <2>1. NewBackhaulPrefix \in AnyPrefix
    BY DEF TypeOK, NewBackhaulPrefix
  <2>2. ASSUME NEW id \in IfIds, EthernetUp(id)
        PROVE  ifs' \in [IfIds -> Interface]
    <3> DEFINE cfg == IF settings.autonomous THEN Learned ELSE NewBackhaulPrefix
    <3>1. cfg \in AnyPrefix \cup {Learned}
      BY <2>1
    <3>2. \/ ifs' = [ifs EXCEPT ![id] = InterfaceUp("eth", cfg)]
          \/ ifs' = [ifs EXCEPT ![id] = [Idle("eth") EXCEPT !.cfg = cfg]]
      BY <2>2 DEF EthernetUp
    <3> HIDE DEF cfg
    <3>3. QED
      BY <3>1, <3>2, NewInterface DEF TypeOK
  <2>3. QED
    BY <2>1, <2>2 DEF TypeOK, EthernetUp, EthernetInitFails, InitIds
<1>4. QED
  BY <1>1, <1>2, <1>3 DEF TypeOK, driverVars, taskletVars, meshVars

LEMMA PhyDownType == ASSUME TypeOK, PhyDown PROVE TypeOK'
<1> USE DEF PhyDown
<1>1. appq' \in Seq(AppEvents)
  BY QueueTypes
<1>2. /\ ifs' \in [IfIds -> Interface]
      /\ nwkq' \in Seq(Events)
  <2>1. ASSUME backhaul_if_id \in IfIds, arm_nwk_interface_down(backhaul_if_id)
        PROVE  ifs' \in [IfIds -> Interface] /\ nwkq' \in Seq(Events)
    <3>1. Idle(ifs[backhaul_if_id].kind) \in Interface
      <4>1. ifs[backhaul_if_id].kind \in {"free", "lowpan", "eth"}
        BY <2>1 DEF TypeOK, Interface
      <4>2. QED
        BY <4>1, Constants DEF Idle, Interface
    <3>2. nwkq' \in Seq(Events)
      BY <2>1, QueueTypes DEF arm_nwk_interface_down, Statuses, TypeOK
    <3>3. QED
      BY <2>1, <3>1, <3>2 DEF arm_nwk_interface_down, TypeOK
  <2>2. QED
    BY <2>1 DEF TypeOK, TakeDown
<1>3. QED
  BY <1>1, <1>2, Constants
  DEF TypeOK, driverVars, taskletVars, meshVars, InterfaceStates, IDLE_STATE,
      StateAfterDown

\* READY for the backhaul names an interface.
LEMMA BackhaulEvent ==
    ASSUME TypeOK, BackhaulBootstrapReady
    PROVE  backhaul_if_id \in IfIds /\ nwkq' \in Seq(Events)
BY QueueTypes DEF BackhaulBootstrapReady, Events

LEMMA BackhaulBootstrapReadyType ==
    ASSUME TypeOK, BackhaulBootstrapReady PROVE TypeOK'
<1>1. PICK added \in {~settings.autonomous,
                      ~settings.autonomous /\ "route_add" \notin MayFail} :
        LET stack == [ifs EXCEPT ![backhaul_if_id].route = @ \/ added] IN
        IF MeshMayStart /\ HasGlobalAddress(backhaul_if_id)
        THEN start_6lowpan(stack)
        ELSE ifs' = stack /\ UNCHANGED meshVars
  BY DEF BackhaulBootstrapReady
<1> DEFINE stack == [ifs EXCEPT ![backhaul_if_id].route = @ \/ added]
<1>2. stack \in [IfIds -> Interface]
  <2>1. (ifs[backhaul_if_id].route \/ added) \in BOOLEAN
    OBVIOUS
  <2>2. QED
    BY <2>1 DEF TypeOK, Interface
<1> HIDE DEF stack
<1>3. /\ ifs' \in [IfIds -> Interface]
      /\ lowpan_nd_prefix' \in AnyPrefix /\ DODAG_ID' \in AnyPrefix
      /\ net_6lowpan_state' \in InterfaceStates
      /\ mesh' \in Mesh
  <2>1. CASE start_6lowpan(stack)
    BY <1>2, <2>1, BackhaulEvent, StartType
  <2>2. CASE ifs' = stack /\ UNCHANGED meshVars
    BY <1>2, <2>2 DEF meshVars, TypeOK
  <2>3. QED
    BY <1>1, <2>1, <2>2 DEF stack
<1>4. QED
  BY <1>3, BackhaulEvent
  DEF BackhaulBootstrapReady, TypeOK, driverVars, taskletVars, InterfaceStates,
      CONNECTED

LEMMA MeshBootstrapReadyType == ASSUME TypeOK, MeshBootstrapReady PROVE TypeOK'
<1> USE DEF MeshBootstrapReady
<1>1. mesh' \in Mesh
  BY DEF TypeOK, Mesh
<1>2. QED
  BY <1>1, QueueTypes
  DEF TypeOK, driverVars, taskletVars, backhaulVars, InterfaceStates, CONNECTED

LEMMA StackType == ASSUME TypeOK, NEW i \in IfIds, Stack(i) PROVE TypeOK'
<1>1. nwkq' \in Seq(Events)
  BY QueueTypes DEF Stack, BootstrapReady, BootstrapFailed, ConnectionLost, Statuses
<1>2. ifs' \in [IfIds -> Interface]
  <2>1. CASE BootstrapReady(i)
    <3>1. PICK gp \in AnyPrefix :
            ifs' = [ifs EXCEPT ![i].state = "ready", ![i].gp = gp]
      BY <2>1 DEF BootstrapReady, TypeOK, Interface
    <3>2. QED
      BY <3>1 DEF TypeOK, Interface
  <2>2. CASE BootstrapFailed(i)
    BY <2>2 DEF BootstrapFailed, TypeOK, Interface
  <2>3. CASE ConnectionLost(i)
    <3>1. Unspecified \in AnyPrefix
      BY Constants
    <3>2. QED
      BY <2>3, <3>1 DEF ConnectionLost, TypeOK, Interface
  <2>4. QED
    BY <2>1, <2>2, <2>3 DEF Stack
<1>3. appq' = appq /\ timer' = timer
  BY DEF Stack, BootstrapReady, BootstrapFailed, ConnectionLost
<1>4. QED
  BY <1>1, <1>2, <1>3
  DEF Stack, TypeOK, driverVars, ownVars, taskletVars, backhaulVars, meshVars

LEMMA NextType == TypeOK /\ [Next]_vars => TypeOK'
<1> SUFFICES ASSUME TypeOK, [Next]_vars PROVE TypeOK'
  OBVIOUS
<1> USE DEF TypeOK, taskletVars, backhaulVars, meshVars, driverVars, eventVars
<1>1. CASE border_router_tasklet_start
  BY <1>1, StartTasklet
<1>2. CASE TaskletInit
  BY <1>2, TaskletInitType
<1>3. CASE TaskletExit
  BY <1>3 DEF TaskletExit
<1>4. CASE PhyDriverReady
  BY <1>4, PhyDriverReadyType
<1>5. CASE PhyDown
  BY <1>5, PhyDownType
<1>6. CASE BackhaulBootstrapReady
  BY <1>6, BackhaulBootstrapReadyType
<1>7. CASE MeshBootstrapReady
  BY <1>7, MeshBootstrapReadyType
<1>8. CASE OtherStatus
  BY <1>8, QueueTypes DEF OtherStatus
<1>9. CASE SystemTimer
  BY <1>9 DEF SystemTimer, eventOS_event_timer_request
<1>10. CASE Driver_LinkReport
  BY <1>10, QueueTypes
  DEF Driver_LinkReport, LinkReport, borderrouter_backhaul_phy_status_cb,
      AppEvents, ownVars
<1>11. ASSUME NEW i \in IfIds, Stack(i) PROVE TypeOK'
  BY <1>11, StackType
<1>12. CASE Timer
  BY <1>12 DEF Timer, TimerFires, ownVars
<1>13. CASE UNCHANGED vars
  BY <1>13 DEF vars
<1>14. QED
  BY <1>1, <1>2, <1>3, <1>4, <1>5, <1>6, <1>7, <1>8, <1>9, <1>10, <1>11,
     <1>12, <1>13 DEF Next, Handler

\* Every variable of the tasklet, its driver and its stack has its type in
\* every reachable state, for every instance of the constants.
THEOREM TypeCorrect == Spec => []TypeOK
BY InitType, NextType, PTL DEF Spec

-----------------------------------------------------------------------------
(* The inductive invariant.                                                *)

\* Before the tasklet runs nothing has happened.
StartedInv ==
    tasklet \in {"off", "created", "exited"} =>
        /\ appq = <<>> /\ link = "down" /\ ~status_cb
        /\ backhaul_if_id = -1
        /\ net_6lowpan_state = PHY_NOT_READY
        /\ mesh = InitMesh
        /\ tasklet = "off" => net_6lowpan_id = -1

\* The ids the tasklet keeps name interfaces of the right kind, and there is
\* no other mesh interface.  Routes are for Ethernet interfaces; an address is
\* in use only on an interface that is ready.
KindInv ==
    /\ \A i \in IfIds : ifs[i].kind = "lowpan" => i = net_6lowpan_id
    /\ net_6lowpan_id \in IfIds => ifs[net_6lowpan_id].kind = "lowpan"
    /\ backhaul_if_id \in IfIds => ifs[backhaul_if_id].kind = "eth"
    /\ \A i \in IfIds : ifs[i].route => ifs[i].kind = "eth"
    /\ \A i \in IfIds : ifs[i].gp # Unspecified => ifs[i].state = "ready"

BackhaulInv == StartedInv /\ KindInv /\ BackhaulStateAgrees /\ NoOrphanInterface

\* The two copies of the mesh's prefix agree, and no call is made that the
\* security mode does not ask for.
MeshInv ==
    /\ lowpan_nd_prefix = DODAG_ID
    /\ mesh.calls \subseteq RequiredCalls
    /\ MeshStartedOnce
    /\ MeshFullyConfigured

\* With no event lost, the newest report in the queue tells the link's state,
\* and an empty queue means that the tasklet has caught up with it.
LinkInv ==
    tasklet = "running" =>
        /\ NewestTellsLink
        /\ "ethernet_init" \notin MayFail => backhaul_if_id \in IfIds \cup {-1}
        /\ LinkViewConverges

-----------------------------------------------------------------------------
(* The backhaul: its state, its id and the interfaces of the stack.        *)

LEMMA InitBackhaul == Init => BackhaulInv
BY Constants
DEF Init, BackhaulInv, StartedInv, KindInv, BackhaulStateAgrees,
    NoOrphanInterface, EventOSInit, DriverInit, StackInit, Idle,
    PHY_NOT_READY, BOOTSTRAP_ACTIVE, CONNECTED

\* Only the start of the tasklet makes a mesh interface, and at that time the
\* stack runs no Ethernet interface and routes over none.
LEMMA StartBackhaul ==
    ASSUME TypeOK, BackhaulInv, border_router_tasklet_start PROVE BackhaulInv'
<1> USE DEF border_router_tasklet_start, rf_interface_init, eventVars, driverVars, BackhaulInv
<1>1. backhaul_if_id = -1 /\ net_6lowpan_id = -1
  BY DEF StartedInv
<1>2. \A j \in IfIds : ifs[j].kind # "lowpan" /\ ~ifs[j].route
                       /\ (ifs[j].kind = "eth" => ifs[j].state = "idle")
  BY <1>1, Constants DEF KindInv, NoOrphanInterface
<1>3. CASE ifs' = ifs /\ net_6lowpan_id' \in FailCodes
  BY <1>1, <1>2, <1>3, Constants
  DEF StartedInv, KindInv, NoOrphanInterface, BackhaulStateAgrees
<1>4. ASSUME NEW id \in IfIds, net_6lowpan_id' = id,
             ifs' = [ifs EXCEPT ![id] = Idle("lowpan")]
      PROVE  BackhaulInv'
  <2>1. /\ ifs'[id] = Idle("lowpan")
        /\ \A j \in IfIds : j # id => ifs'[j] = ifs[j]
    BY <1>4 DEF TypeOK
  <2>2. QED
    BY <1>1, <1>2, <1>4, <2>1, Constants
    DEF StartedInv, KindInv, NoOrphanInterface, BackhaulStateAgrees, Idle
<1>5. QED
  BY <1>3, <1>4, Constants DEF InitIds

LEMMA PhyDriverReadyBackhaul ==
    ASSUME TypeOK, BackhaulInv, PhyDriverReady PROVE BackhaulInv'
<1> USE DEF PhyDriverReady, BackhaulInv, taskletVars, ReadyForInterface
<1>1. StartedInv'
  BY DEF StartedInv
<1>2. CASE backhaul_if_id # -1
  BY <1>1, <1>2
  DEF KindInv, NoOrphanInterface, BackhaulStateAgrees, ReadyState,
      PHY_NOT_READY, IDLE_STATE, BOOTSTRAP_ACTIVE, CONNECTED
<1>3. CASE /\ backhaul_if_id = -1 /\ EthernetInitFails
           /\ net_backhaul_state' = ReadyState
  <2>1. net_backhaul_state \notin {BOOTSTRAP_ACTIVE, CONNECTED}
    BY <1>3, Constants DEF BackhaulStateAgrees
  <2>2. backhaul_if_id' \notin IfIds /\ ifs' = ifs
    BY <1>3, Constants DEF EthernetInitFails
  <2>3. net_backhaul_state' = ReadyState
    BY <1>3
  <2>4. BackhaulStateAgrees'
    BY <2>1, <2>2, <2>3
    DEF BackhaulStateAgrees, ReadyState, PHY_NOT_READY, IDLE_STATE,
        BOOTSTRAP_ACTIVE, CONNECTED
  <2>5. KindInv' /\ NoOrphanInterface'
    BY <1>3, <2>2, Constants DEF KindInv, NoOrphanInterface
  <2>6. QED
    BY <1>1, <2>4, <2>5
<1>4. ASSUME backhaul_if_id = -1, NEW id \in InitIds("eth"), EthernetUp(id),
             net_backhaul_state' = BOOTSTRAP_ACTIVE
      PROVE  BackhaulInv'
  <2>1. id \in IfIds /\ ifs[id].kind # "lowpan" /\ id # net_6lowpan_id
    BY <1>4 DEF InitIds, KindInv
  <2>2. PICK new : /\ new.kind = "eth" /\ new.gp = Unspecified /\ ~new.route
                   /\ ifs' = [ifs EXCEPT ![id] = new]
    BY <1>4 DEF EthernetUp, InterfaceUp, Idle
  <2>3. /\ ifs'[id] = new
        /\ \A j \in IfIds : j # id => ifs'[j] = ifs[j]
    BY <2>1, <2>2 DEF TypeOK
  <2>4. backhaul_if_id' = id
    BY <1>4 DEF EthernetUp
  <2>5. KindInv'
    BY <2>1, <2>2, <2>3, <2>4 DEF KindInv
  <2>6. NoOrphanInterface'
    BY <1>4, <2>1, <2>2, <2>3, <2>4, Constants DEF NoOrphanInterface
  <2>7. BackhaulStateAgrees'
    BY <1>4, <2>1, <2>4 DEF BackhaulStateAgrees
  <2>8. QED
    BY <1>1, <2>5, <2>6, <2>7
<1>5. QED
  BY <1>2, <1>3, <1>4

LEMMA PhyDownBackhaul == ASSUME TypeOK, BackhaulInv, PhyDown PROVE BackhaulInv'
<1> USE DEF PhyDown, BackhaulInv, taskletVars, NothingToTakeDown
<1>1. StartedInv'
  BY DEF StartedInv
<1>2. CASE backhaul_if_id = -1
  BY <1>1, <1>2 DEF KindInv, NoOrphanInterface, BackhaulStateAgrees
<1>3. CASE backhaul_if_id # -1
  <2>1. backhaul_if_id' = -1 /\ net_backhaul_state' = IDLE_STATE
    BY <1>3 DEF StateAfterDown
  <2>2. BackhaulStateAgrees'
    BY <2>1, Constants
    DEF BackhaulStateAgrees, IDLE_STATE, BOOTSTRAP_ACTIVE, CONNECTED
  <2>3. CASE backhaul_if_id \notin IfIds
    BY <1>1, <1>3, <2>1, <2>2, <2>3, Constants
    DEF KindInv, NoOrphanInterface, TakeDown
  <2>4. CASE backhaul_if_id \in IfIds
    <3>1. ifs' = [ifs EXCEPT ![backhaul_if_id] = Idle(ifs[backhaul_if_id].kind)]
      BY <1>3, <2>4 DEF TakeDown, arm_nwk_interface_down
    <3>2. /\ ifs'[backhaul_if_id] = Idle("eth")
          /\ \A j \in IfIds : j # backhaul_if_id => ifs'[j] = ifs[j]
      BY <2>4, <3>1 DEF TypeOK, KindInv
    <3>3. QED
      BY <1>1, <2>1, <2>2, <2>4, <3>2, Constants
      DEF KindInv, NoOrphanInterface, Idle
  <2>5. QED
    BY <2>3, <2>4
<1>4. QED
  BY <1>2, <1>3

\* What READY of the backhaul does to the interfaces: a route on the backhaul
\* if it is static, and possibly a mesh interface that starts.
LEMMA BackhaulReadyEffect ==
    ASSUME TypeOK, BackhaulBootstrapReady
    PROVE  /\ \A j \in IfIds : \/ ifs'[j] = ifs[j]
                               \/ /\ j = backhaul_if_id
                                  /\ ifs'[j] = [ifs[j] EXCEPT !.route = ifs'[j].route]
                                  /\ ifs'[j].route \in BOOLEAN
                                  /\ ifs'[j].route => ifs[j].route \/ ~settings.autonomous
                               \/ /\ j = net_6lowpan_id
                                  /\ \E q : ifs'[j] = InterfaceUp("lowpan", q)
<1>1. PICK added \in {~settings.autonomous,
                      ~settings.autonomous /\ "route_add" \notin MayFail} :
        LET stack == [ifs EXCEPT ![backhaul_if_id].route = @ \/ added] IN
        IF MeshMayStart /\ HasGlobalAddress(backhaul_if_id)
        THEN start_6lowpan(stack)
        ELSE ifs' = stack /\ UNCHANGED meshVars
  BY DEF BackhaulBootstrapReady
<1> DEFINE stack == [ifs EXCEPT ![backhaul_if_id].route = @ \/ added]
<1>2. backhaul_if_id \in IfIds
  BY BackhaulEvent
<1>3. ifs' = stack \/ \E q : ifs' = [stack EXCEPT ![net_6lowpan_id] = InterfaceUp("lowpan", q)]
  <2>1. CASE start_6lowpan(stack)
    BY <2>1 DEF start_6lowpan
  <2>2. QED
    BY <1>1, <2>1
<1>4. PICK b \in BOOLEAN : b = (ifs[backhaul_if_id].route \/ added)
  OBVIOUS
<1>5. stack = [ifs EXCEPT ![backhaul_if_id] = [ifs[backhaul_if_id] EXCEPT !.route = b]]
  BY <1>4
<1>6. /\ \A j \in IfIds : j # backhaul_if_id => stack[j] = ifs[j]
      /\ stack[backhaul_if_id] = [ifs[backhaul_if_id] EXCEPT !.route = b]
      /\ stack[backhaul_if_id].route = b
      /\ stack \in [IfIds -> Interface]
  <2> DEFINE old == ifs[backhaul_if_id]
             new == [old EXCEPT !.route = b]
  <2>1. old \in Interface /\ ifs \in [IfIds -> Interface]
    BY <1>2 DEF TypeOK
  <2>2. new \in Interface /\ new.route = b
    BY <2>1 DEF Interface
  <2>3. stack = [ifs EXCEPT ![backhaul_if_id] = new]
    BY <1>5
  <2> HIDE DEF old, stack
  <2>4. /\ \A j \in IfIds : j # backhaul_if_id => stack[j] = ifs[j]
        /\ stack[backhaul_if_id] = new
        /\ stack \in [IfIds -> Interface]
    BY <1>2, <2>1, <2>2, <2>3
  <2>5. QED
    BY <2>2, <2>4 DEF old
<1>7. b => ifs[backhaul_if_id].route \/ ~settings.autonomous
  BY <1>1, <1>4
<1> HIDE DEF stack
<1>8. \A j \in IfIds : ifs'[j] = stack[j]
        \/ (j = net_6lowpan_id /\ \E q : ifs'[j] = InterfaceUp("lowpan", q))
  BY <1>3, <1>6
<1>9. ASSUME NEW j \in IfIds, ifs'[j] = stack[j], j = backhaul_if_id
      PROVE  /\ ifs'[j] = [ifs[j] EXCEPT !.route = ifs'[j].route]
             /\ ifs'[j].route \in BOOLEAN
             /\ ifs'[j].route => ifs[j].route \/ ~settings.autonomous
  <2>1. ifs'[j].route = b /\ ifs'[j] = [ifs[j] EXCEPT !.route = b]
    BY <1>6, <1>9
  <2>2. QED
    BY <1>7, <1>9, <2>1
<1>10. QED
  BY <1>6, <1>8, <1>9

LEMMA BackhaulReadyBackhaul ==
    ASSUME TypeOK, BackhaulInv, BackhaulBootstrapReady PROVE BackhaulInv'
<1> USE DEF BackhaulBootstrapReady, BackhaulInv, taskletVars
<1>1. StartedInv'
  BY DEF StartedInv
<1>2. BackhaulStateAgrees'
  BY BackhaulEvent DEF BackhaulStateAgrees
<1>3. backhaul_if_id \in IfIds /\ backhaul_if_id # net_6lowpan_id
  BY BackhaulEvent DEF KindInv
<1>4. \A j \in IfIds :
        /\ ifs'[j].kind = ifs[j].kind
        /\ ifs'[j].gp # Unspecified => ifs'[j].state = "ready"
        /\ ifs'[j].kind = "eth" => ifs'[j].state = ifs[j].state
        /\ ifs'[j].route => ifs[j].route \/ (j = backhaul_if_id /\ ~settings.autonomous)
  <2> SUFFICES ASSUME NEW j \in IfIds
               PROVE  /\ ifs'[j].kind = ifs[j].kind
                      /\ ifs'[j].gp # Unspecified => ifs'[j].state = "ready"
                      /\ ifs'[j].kind = "eth" => ifs'[j].state = ifs[j].state
                      /\ ifs'[j].route => ifs[j].route
                            \/ (j = backhaul_if_id /\ ~settings.autonomous)
    OBVIOUS
  <2>1. CASE ifs'[j] = ifs[j]
    BY <2>1 DEF KindInv
  <2>2. CASE /\ j = backhaul_if_id
             /\ ifs'[j] = [ifs[j] EXCEPT !.route = ifs'[j].route]
             /\ ifs'[j].route => ifs[j].route \/ ~settings.autonomous
    <3>1. ifs'[j].kind = ifs[j].kind /\ ifs'[j].gp = ifs[j].gp
          /\ ifs'[j].state = ifs[j].state
      BY <2>2 DEF TypeOK, Interface
    <3>2. QED
      BY <2>2, <3>1 DEF KindInv
  <2>3. CASE j = net_6lowpan_id /\ \E q : ifs'[j] = InterfaceUp("lowpan", q)
    BY <2>3 DEF KindInv, InterfaceUp, Idle
  <2>4. QED
    BY <2>1, <2>2, <2>3, BackhaulReadyEffect
<1>5. KindInv'
  BY <1>3, <1>4 DEF KindInv
<1>6. NoOrphanInterface'
  BY <1>3, <1>4 DEF NoOrphanInterface, KindInv
<1>7. QED
  BY <1>1, <1>2, <1>5, <1>6

LEMMA StackBackhaul ==
    ASSUME TypeOK, BackhaulInv, NEW i \in IfIds, Stack(i) PROVE BackhaulInv'
<1> USE DEF BackhaulInv, Stack
<1>1. UNCHANGED <<driverVars, ownVars>> /\ appq' = appq
  BY DEF BootstrapReady, BootstrapFailed, ConnectionLost
<1>2. StartedInv' /\ BackhaulStateAgrees'
  BY <1>1 DEF StartedInv, BackhaulStateAgrees, driverVars, ownVars,
     taskletVars, backhaulVars, meshVars
<1>3. PICK new \in Interface :
        /\ new.kind = ifs[i].kind /\ new.route = ifs[i].route
        /\ ifs[i].state # "idle"
        /\ new.gp # Unspecified => new.state = "ready"
        /\ ifs' = [ifs EXCEPT ![i] = new]
  <2> DEFINE old == ifs[i]
  <2>1. old \in Interface
    BY DEF TypeOK
  <2>2. old.gp # Unspecified => old.state = "ready"
    BY DEF KindInv
  <2>3. CASE BootstrapReady(i)
    <3>1. PICK gp \in AnyPrefix :
            /\ old.state = "bootstrap"
            /\ ifs' = [ifs EXCEPT ![i] = [old EXCEPT !.state = "ready", !.gp = gp]]
      BY <2>1, <2>3 DEF BootstrapReady, TypeOK, Interface
    <3> [old EXCEPT !.state = "ready", !.gp = gp] \in Interface
      BY <2>1 DEF Interface
    <3> WITNESS [old EXCEPT !.state = "ready", !.gp = gp] \in Interface
    <3>2. QED
      BY <2>1, <3>1 DEF Interface
  <2>4. CASE BootstrapFailed(i)
    <3>1. /\ old.state = "bootstrap"
          /\ ifs' = [ifs EXCEPT ![i] = [old EXCEPT !.state = "idle"]]
      BY <2>4 DEF BootstrapFailed
    <3> [old EXCEPT !.state = "idle"] \in Interface
      BY <2>1 DEF Interface
    <3> WITNESS [old EXCEPT !.state = "idle"] \in Interface
    <3>2. QED
      BY <2>1, <2>2, <3>1 DEF Interface
  <2>5. CASE ConnectionLost(i)
    <3>1. /\ old.state = "ready"
          /\ ifs' = [ifs EXCEPT ![i] =
                        [old EXCEPT !.state = "bootstrap", !.gp = Unspecified]]
      BY <2>5 DEF ConnectionLost
    <3> [old EXCEPT !.state = "bootstrap", !.gp = Unspecified] \in Interface
      BY <2>1, Constants DEF Interface
    <3> WITNESS [old EXCEPT !.state = "bootstrap", !.gp = Unspecified] \in Interface
    <3>2. QED
      BY <2>1, <3>1, Constants DEF Interface
  <2>6. QED
    BY <2>3, <2>4, <2>5
<1>4. /\ ifs'[i] = new
      /\ \A j \in IfIds : j # i => ifs'[j] = ifs[j]
  BY <1>3 DEF TypeOK
<1>5. KindInv' /\ NoOrphanInterface'
  BY <1>1, <1>3, <1>4
  DEF KindInv, NoOrphanInterface, ownVars, taskletVars, backhaulVars
<1>6. QED
  BY <1>2, <1>5

LEMMA NextBackhaul == TypeOK /\ BackhaulInv /\ [Next]_vars => BackhaulInv'
<1> SUFFICES ASSUME TypeOK, BackhaulInv, [Next]_vars PROVE BackhaulInv'
  OBVIOUS
<1>0. ASSUME /\ UNCHANGED <<ifs, backhaul_if_id, net_backhaul_state,
                            net_6lowpan_id, settings>>
             /\ StartedInv'
      PROVE  BackhaulInv'
  BY <1>0 DEF BackhaulInv, KindInv, BackhaulStateAgrees, NoOrphanInterface
<1> USE DEF taskletVars, backhaulVars, meshVars, driverVars, eventVars
<1>1. CASE border_router_tasklet_start
  BY <1>1, StartBackhaul
<1>2. CASE TaskletInit
  BY <1>0, <1>2 DEF TaskletInit, StartedInv
<1>3. CASE TaskletExit
  BY <1>0, <1>3 DEF TaskletExit, StartedInv, BackhaulInv
<1>4. CASE PhyDriverReady
  BY <1>4, PhyDriverReadyBackhaul
<1>5. CASE PhyDown
  BY <1>5, PhyDownBackhaul
<1>6. CASE BackhaulBootstrapReady
  BY <1>6, BackhaulReadyBackhaul
<1>7. CASE MeshBootstrapReady
  BY <1>0, <1>7 DEF MeshBootstrapReady, StartedInv
<1>8. CASE OtherStatus
  BY <1>0, <1>8 DEF OtherStatus, StartedInv
<1>9. CASE SystemTimer
  BY <1>0, <1>9 DEF SystemTimer, StartedInv
<1>10. CASE Driver_LinkReport
  BY <1>0, <1>10 DEF Driver_LinkReport, LinkReport, StartedInv, BackhaulInv, ownVars
<1>11. ASSUME NEW i \in IfIds, Stack(i) PROVE BackhaulInv'
  BY <1>11, StackBackhaul
<1>12. CASE Timer
  BY <1>0, <1>12 DEF Timer, TimerFires, StartedInv, BackhaulInv, ownVars
<1>13. CASE UNCHANGED vars
  BY <1>0, <1>13 DEF vars, StartedInv, BackhaulInv
<1>14. QED
  BY <1>1, <1>2, <1>3, <1>4, <1>5, <1>6, <1>7, <1>8, <1>9, <1>10, <1>11,
     <1>12, <1>13 DEF Next, Handler

LEMMA BackhaulInvariant == Spec => [](TypeOK /\ BackhaulInv)
<1>1. TypeOK /\ BackhaulInv /\ [Next]_vars => (TypeOK /\ BackhaulInv)'
  BY NextType, NextBackhaul
<1>2. QED
  BY <1>1, InitType, InitBackhaul, PTL DEF Spec

\* The tasklet believes its backhaul is bootstrapping or connected exactly
\* while it holds the id of an interface, whatever fails and whatever the
\* driver reports.
THEOREM BackhaulStateCorrect == Spec => []BackhaulStateAgrees
BY BackhaulInvariant, PTL DEF BackhaulInv

\* The stack never runs an Ethernet interface, nor routes over one, that the
\* tasklet has forgotten.
THEOREM NoOrphan == Spec => []NoOrphanInterface
BY BackhaulInvariant, PTL DEF BackhaulInv

-----------------------------------------------------------------------------
(* The mesh: what start_6lowpan leaves behind, and when it runs.           *)

\* The steps that can touch the mesh.
LEMMA MeshSteps ==
    ASSUME [Next]_vars
    PROVE  \/ UNCHANGED <<meshVars, settings>>
           \/ border_router_tasklet_start
           \/ TaskletInit
           \/ BackhaulBootstrapReady
           \/ MeshBootstrapReady
<1>1. ASSUME NEW i \in IfIds, Stack(i) PROVE UNCHANGED <<meshVars, settings>>
  BY <1>1 DEF Stack, ownVars, taskletVars
<1>2. CASE TaskletExit \/ PhyDriverReady \/ PhyDown \/ OtherStatus
           \/ SystemTimer \/ Driver_LinkReport \/ Timer \/ UNCHANGED vars
  BY <1>2 DEF TaskletExit, PhyDriverReady, PhyDown, OtherStatus, SystemTimer,
     Driver_LinkReport, Timer, vars, ownVars, taskletVars, meshVars
<1>3. QED
  BY <1>1, <1>2 DEF Next, Handler

\* READY of the backhaul leaves the mesh alone or runs start_6lowpan, with the
\* prefix the backhaul has in the stack.
LEMMA MeshStartEffect ==
    ASSUME TypeOK, BackhaulBootstrapReady
    PROVE  \/ UNCHANGED meshVars
           \/ /\ MeshMayStart /\ HasGlobalAddress(backhaul_if_id)
              /\ \E n \in 0..7 : \E rplOk, p :
                    /\ p = ifs[backhaul_if_id].gp
                    /\ "rpl_dodag_init" \notin MayFail => rplOk = TRUE
                    /\ lowpan_nd_prefix' = NewPrefix(n, p)
                    /\ DODAG_ID' = NewDodag(n, p)
                    /\ mesh' = MeshAfter(n, rplOk, NewPrefix(n, p), NewDodag(n, p))
                    /\ net_6lowpan_state' = StateAfterStart(n)
<1>1. PICK added : LET stack == [ifs EXCEPT ![backhaul_if_id].route = @ \/ added] IN
        IF MeshMayStart /\ HasGlobalAddress(backhaul_if_id)
        THEN start_6lowpan(stack)
        ELSE ifs' = stack /\ UNCHANGED meshVars
  BY DEF BackhaulBootstrapReady
<1> DEFINE stack == [ifs EXCEPT ![backhaul_if_id].route = @ \/ added]
<1>2. stack[backhaul_if_id].gp = ifs[backhaul_if_id].gp
  <2>1. backhaul_if_id \in IfIds /\ ifs[backhaul_if_id] \in Interface
    BY BackhaulEvent DEF TypeOK
  <2>2. stack[backhaul_if_id] =
          [ifs[backhaul_if_id] EXCEPT !.route = ifs[backhaul_if_id].route \/ added]
    BY <2>1 DEF TypeOK
  <2>3. QED
    BY <2>1, <2>2 DEF Interface
<1>3. CASE start_6lowpan(stack) /\ MeshMayStart /\ HasGlobalAddress(backhaul_if_id)
  BY <1>2, <1>3 DEF start_6lowpan
<1>4. QED
  BY <1>1, <1>3

\* The fields of the mesh after the first n calls.
LEMMA MeshAfterFields ==
    ASSUME TypeOK, NEW n \in 0..7, NEW rplOk, NEW prefix, NEW dodag,
           NEW m, m = MeshAfter(n, rplOk, prefix, dodag)
    PROVE  /\ m.calls = mesh.calls \cup ((1..n) \cap RequiredCalls)
           /\ m.security = IF n >= SECURITY_MODE THEN settings.security
                                                 ELSE mesh.security
           /\ m.prefix  = IF n >= BR_INIT THEN prefix ELSE mesh.prefix
           /\ m.context = IF n >= CONTEXT_UPDATE THEN dodag ELSE mesh.context
           /\ m.up <=> (mesh.up \/ n = INTERFACE_UP)
<1>1. mesh \in Mesh
  BY DEF TypeOK
<1>2. QED
  BY <1>1 DEF MeshAfter, Mesh, RequiredCalls

LEMMA InitMeshInv == Init => MeshInv
BY DEF Init, MeshInv, MeshStartedOnce, MeshFullyConfigured, InitMesh,
   RequiredCalls, PHY_NOT_READY, BOOTSTRAP_ACTIVE

LEMMA StartMeshInv ==
    ASSUME BackhaulInv, MeshInv, border_router_tasklet_start PROVE MeshInv'
<1>1. mesh' = InitMesh /\ net_6lowpan_state' = PHY_NOT_READY
  BY DEF border_router_tasklet_start, BackhaulInv, StartedInv
<1>2. lowpan_nd_prefix' = DODAG_ID'
  BY DEF border_router_tasklet_start, load_config, MeshInv
<1>3. QED
  BY <1>1, <1>2 DEF MeshInv, MeshStartedOnce, MeshFullyConfigured, InitMesh,
     PHY_NOT_READY, BOOTSTRAP_ACTIVE

LEMMA TaskletInitMeshInv ==
    ASSUME BackhaulInv, MeshInv, TaskletInit PROVE MeshInv'
<1>1. mesh' = InitMesh /\ net_6lowpan_state' \in {PHY_NOT_READY, IDLE_STATE}
  BY DEF TaskletInit, BackhaulInv, StartedInv
<1>2. lowpan_nd_prefix' = DODAG_ID'
  BY DEF TaskletInit, MeshInv
<1>3. QED
  BY <1>1, <1>2 DEF MeshInv, MeshStartedOnce, MeshFullyConfigured, InitMesh,
     PHY_NOT_READY, IDLE_STATE, BOOTSTRAP_ACTIVE

LEMMA MeshReadyMeshInv ==
    ASSUME TypeOK, MeshInv, MeshBootstrapReady PROVE MeshInv'
<1>1. /\ mesh'.calls = mesh.calls /\ mesh'.security = mesh.security
      /\ mesh'.prefix = mesh.prefix /\ mesh'.context = mesh.context
      /\ mesh'.up = mesh.up
  BY DEF MeshBootstrapReady, TypeOK, Mesh
<1>2. net_6lowpan_state' = CONNECTED
      /\ UNCHANGED <<settings, lowpan_nd_prefix, DODAG_ID>>
  BY DEF MeshBootstrapReady, taskletVars
<1>3. QED
  BY <1>1, <1>2 DEF MeshInv, MeshStartedOnce, MeshFullyConfigured,
     RequiredCalls, UsesPana, CONNECTED, BOOTSTRAP_ACTIVE

\* The step that matters: an attempt to start the mesh.  The mesh was not up,
\* and it is up afterwards only if all the calls were made, with one prefix.
LEMMA BackhaulReadyMeshInv ==
    ASSUME TypeOK, MeshInv, BackhaulBootstrapReady PROVE MeshInv'
<1>1. settings' = settings
  BY DEF BackhaulBootstrapReady, taskletVars
<1>2. CASE UNCHANGED meshVars
  BY <1>1, <1>2 DEF meshVars, MeshInv, MeshStartedOnce, MeshFullyConfigured,
     RequiredCalls, UsesPana
<1>3. ASSUME MeshMayStart, NEW n \in 0..7, NEW rplOk, NEW p,
             lowpan_nd_prefix' = NewPrefix(n, p),
             DODAG_ID' = NewDodag(n, p),
             mesh' = MeshAfter(n, rplOk, NewPrefix(n, p), NewDodag(n, p)),
             net_6lowpan_state' = StateAfterStart(n)
      PROVE  MeshInv'
  <2>1. ~mesh.up
    BY <1>3 DEF MeshMayStart, MeshInv, MeshStartedOnce, IDLE_STATE,
       BOOTSTRAP_ACTIVE, CONNECTED
  <2>2. /\ mesh'.calls = mesh.calls \cup ((1..n) \cap RequiredCalls)
        /\ mesh'.security = IF n >= SECURITY_MODE THEN settings.security
                                                  ELSE mesh.security
        /\ mesh'.prefix  = IF n >= BR_INIT THEN lowpan_nd_prefix' ELSE mesh.prefix
        /\ mesh'.context = IF n >= CONTEXT_UPDATE THEN DODAG_ID' ELSE mesh.context
        /\ mesh'.up <=> n = INTERFACE_UP
    BY <1>3, <2>1, MeshAfterFields
  <2>3. RequiredCalls' = RequiredCalls
    BY <1>1 DEF RequiredCalls, UsesPana
  <2>4. mesh'.calls \subseteq RequiredCalls
    BY <2>2 DEF MeshInv
  <2>5. n = INTERFACE_UP => mesh'.calls = RequiredCalls
    <3>1. (1..7) \cap RequiredCalls = RequiredCalls
      BY DEF RequiredCalls
    <3>2. QED
      BY <2>2, <2>4, <3>1 DEF INTERFACE_UP
  <2>6. lowpan_nd_prefix' = DODAG_ID'
    BY <1>3 DEF NewPrefix, NewDodag, MeshInv
  <2>7. MeshStartedOnce'
    BY <1>3, <2>2 DEF MeshStartedOnce, StateAfterStart, MeshMayStart,
       IDLE_STATE, BOOTSTRAP_ACTIVE
  <2>8. MeshFullyConfigured'
    BY <1>1, <2>2, <2>3, <2>5, <2>6
    DEF MeshFullyConfigured, INTERFACE_UP, SECURITY_MODE, BR_INIT, CONTEXT_UPDATE
  <2>9. QED
    BY <2>3, <2>4, <2>6, <2>7, <2>8 DEF MeshInv
<1>4. QED
  BY <1>2, <1>3, MeshStartEffect

LEMMA NextMeshInv ==
    TypeOK /\ BackhaulInv /\ MeshInv /\ [Next]_vars => MeshInv'
<1> SUFFICES ASSUME TypeOK, BackhaulInv, MeshInv, [Next]_vars PROVE MeshInv'
  OBVIOUS
<1>1. CASE UNCHANGED <<meshVars, settings>>
  BY <1>1 DEF meshVars, MeshInv, MeshStartedOnce, MeshFullyConfigured,
     RequiredCalls, UsesPana
<1>2. QED
  BY <1>1, MeshSteps, StartMeshInv, TaskletInitMeshInv, BackhaulReadyMeshInv,
     MeshReadyMeshInv

IInv == TypeOK /\ BackhaulInv /\ MeshInv

LEMMA Invariance == Spec => []IInv
<1>1. Init => IInv
  BY InitType, InitBackhaul, InitMeshInv DEF IInv
<1>2. IInv /\ [Next]_vars => IInv'
  BY NextType, NextBackhaul, NextMeshInv DEF IInv
<1>3. QED
  BY <1>1, <1>2, PTL DEF Spec

\* A mesh that is up was configured completely and with one prefix, however
\* many attempts of start_6lowpan failed before, and at whatever call.
THEOREM MeshConfigured == Spec => []MeshFullyConfigured
BY Invariance, PTL DEF IInv, MeshInv

\* A mesh that is up is never in the state from which it would be started, and
\* is marked as bootstrapping only once it is up.
THEOREM MeshStarted == Spec => []MeshStartedOnce
BY Invariance, PTL DEF IInv, MeshInv

\* Nothing reconfigures a mesh that is up.
THEOREM MeshFrozen == Spec => MeshConfigFrozen
<1> DEFINE Frozen ==
      mesh.up => UNCHANGED <<ConfigOf(mesh), lowpan_nd_prefix, DODAG_ID>>
<1>1. IInv /\ [Next]_vars => Frozen
  <2> SUFFICES ASSUME IInv, [Next]_vars, mesh.up
               PROVE  UNCHANGED <<ConfigOf(mesh), lowpan_nd_prefix, DODAG_ID>>
    OBVIOUS
  <2> USE DEF IInv, ConfigOf
  <2>1. CASE UNCHANGED <<meshVars, settings>>
    BY <2>1 DEF meshVars
  <2>2. CASE border_router_tasklet_start \/ TaskletInit
    BY <2>2 DEF border_router_tasklet_start, TaskletInit, BackhaulInv,
       StartedInv, InitMesh
  <2>3. CASE MeshBootstrapReady
    BY <2>3 DEF MeshBootstrapReady, TypeOK, Mesh
  <2>4. CASE BackhaulBootstrapReady
    <3>1. ~MeshMayStart
      BY DEF MeshMayStart, MeshInv, MeshStartedOnce, IDLE_STATE,
         BOOTSTRAP_ACTIVE, CONNECTED
    <3>2. QED
      BY <2>4, <3>1, MeshStartEffect DEF meshVars
  <2>5. QED
    BY <2>1, <2>2, <2>3, <2>4, MeshSteps
<1>2. QED
  BY <1>1, Invariance, PTL DEF Spec, MeshConfigFrozen

\* The attempt that brings the mesh up is past the configuration of RPL.
LEMMA BackhaulReadyRpl ==
    ASSUME "rpl_dodag_init" \notin MayFail, IInv, MeshHasRpl,
           BackhaulBootstrapReady
    PROVE  MeshHasRpl'
<1> USE DEF IInv
<1>1. CASE UNCHANGED meshVars
  BY <1>1 DEF meshVars, MeshHasRpl
<1>2. ASSUME MeshMayStart, NEW n \in 0..7, NEW p,
             DODAG_ID' = NewDodag(n, p),
             mesh' = MeshAfter(n, TRUE, NewPrefix(n, p), NewDodag(n, p))
      PROVE  MeshHasRpl'
  <2>1. ~mesh.up
    BY <1>2 DEF MeshMayStart, MeshInv, MeshStartedOnce, IDLE_STATE,
       BOOTSTRAP_ACTIVE, CONNECTED
  <2>2. RplConfigured(n, TRUE) <=> n >= CONTEXT_UPDATE
    BY DEF RplConfigured
  <2>3. /\ mesh'.dodag = IF n >= CONTEXT_UPDATE THEN DODAG_ID' ELSE mesh.dodag
        /\ mesh'.up <=> n = INTERFACE_UP
    BY <1>2, <2>1, <2>2 DEF MeshAfter, TypeOK, Mesh
  <2>4. QED
    BY <2>3 DEF MeshHasRpl, INTERFACE_UP, CONTEXT_UPDATE
<1>3. QED
  BY <1>1, <1>2, MeshStartEffect

\* Where arm_nwk_6lowpan_rpl_dodag_init does not fail (its result is ignored),
\* a mesh that is up has a DODAG with the id of the border router: the other
\* calls may all fail, at any attempt, and no later prefix changes the id.
THEOREM MeshRpl ==
    ASSUME "rpl_dodag_init" \notin MayFail
    PROVE  Spec => []MeshHasRpl
<1>1. Init => MeshHasRpl
  BY DEF Init, MeshHasRpl, InitMesh
<1>2. IInv /\ MeshHasRpl /\ [Next]_vars => MeshHasRpl'
  <2> SUFFICES ASSUME IInv, MeshHasRpl, [Next]_vars PROVE MeshHasRpl'
    OBVIOUS
  <2>1. CASE UNCHANGED <<meshVars, settings>>
    BY <2>1 DEF meshVars, MeshHasRpl
  <2>2. CASE border_router_tasklet_start \/ TaskletInit
    BY <2>2 DEF border_router_tasklet_start, TaskletInit, IInv, BackhaulInv,
       StartedInv, InitMesh, MeshHasRpl
  <2>3. CASE MeshBootstrapReady
    <3>1. mesh'.up = mesh.up /\ mesh'.dodag = mesh.dodag /\ DODAG_ID' = DODAG_ID
      BY <2>3 DEF MeshBootstrapReady, IInv, TypeOK, Mesh
    <3>2. QED
      BY <3>1 DEF MeshHasRpl
  <2>4. QED
    BY <2>1, <2>2, <2>3, MeshSteps, BackhaulReadyRpl
<1>3. QED
  BY <1>1, <1>2, Invariance, PTL DEF Spec

\* The mesh comes up only on a backhaul that is connected: the step that brings
\* it up found a global address, and an address is in use only while ready.
THEOREM MeshStartsConnected == Spec => MeshStartsOnBackhaul
<1> DEFINE Starts ==
      ~mesh.up /\ mesh'.up =>
          /\ net_backhaul_state' = CONNECTED
          /\ backhaul_if_id \in IfIds
          /\ ifs[backhaul_if_id].state = "ready"
          /\ ifs[backhaul_if_id].gp # Unspecified
          /\ settings.from_backhaul => mesh'.prefix = ifs[backhaul_if_id].gp
<1>1. IInv /\ [Next]_vars => Starts
  <2> SUFFICES ASSUME IInv, [Next]_vars, ~mesh.up, mesh'.up
               PROVE  /\ net_backhaul_state' = CONNECTED
                      /\ backhaul_if_id \in IfIds
                      /\ ifs[backhaul_if_id].state = "ready"
                      /\ ifs[backhaul_if_id].gp # Unspecified
                      /\ settings.from_backhaul =>
                            mesh'.prefix = ifs[backhaul_if_id].gp
    OBVIOUS
  <2> USE DEF IInv
  <2>1. ~UNCHANGED <<meshVars, settings>>
    BY DEF meshVars
  <2>2. ~border_router_tasklet_start /\ ~TaskletInit
    BY DEF border_router_tasklet_start, TaskletInit
  <2>3. ~MeshBootstrapReady
    BY DEF MeshBootstrapReady, TypeOK, Mesh
  <2>4. BackhaulBootstrapReady
    BY <2>1, <2>2, <2>3, MeshSteps
  <2>5. net_backhaul_state' = CONNECTED /\ backhaul_if_id \in IfIds
    BY <2>4, BackhaulEvent DEF BackhaulBootstrapReady
  <2>6. HasGlobalAddress(backhaul_if_id) /\
        \E n \in 0..7 : \E rplOk, p :
            /\ p = ifs[backhaul_if_id].gp
            /\ mesh' = MeshAfter(n, rplOk, NewPrefix(n, p), NewDodag(n, p))
    BY <2>4, MeshStartEffect DEF meshVars
  <2>7. ifs[backhaul_if_id].state = "ready"
    BY <2>5, <2>6 DEF HasGlobalAddress, BackhaulInv, KindInv
  <2>8. ASSUME settings.from_backhaul, NEW n \in 0..7, NEW rplOk, NEW p,
               mesh' = MeshAfter(n, rplOk, NewPrefix(n, p), NewDodag(n, p))
        PROVE  mesh'.prefix = p
    <3>1. n = INTERFACE_UP /\ mesh'.prefix = NewPrefix(n, p)
      BY <2>8, MeshAfterFields DEF INTERFACE_UP, BR_INIT
    <3>2. QED
      BY <2>8, <3>1 DEF NewPrefix, CopiesPrefix, INTERFACE_UP, SECURITY_MODE
  <2>9. QED
    BY <2>5, <2>6, <2>7, <2>8 DEF HasGlobalAddress
<1>2. QED
  BY <1>1, Invariance, PTL DEF Spec, MeshStartsOnBackhaul

-----------------------------------------------------------------------------
(* The link: what is queued tells what the driver last reported.           *)

LEMMA PhyDriverReadyLink ==
    ASSUME TypeOK, LinkInv, PhyDriverReady PROVE LinkInv'
<1>1. /\ tasklet = "running" /\ UNCHANGED link
      /\ appq # <<>> /\ Head(appq) = Report(TRUE) /\ appq' = Tail(appq)
  BY DEF PhyDriverReady, driverVars, Receive, Report
<1>2. NewestTellsLink' /\ (appq' = <<>> => link' = "up")
  BY <1>1, ReportHandled DEF LinkInv, TypeOK
<1>3. "ethernet_init" \notin MayFail => backhaul_if_id' \in IfIds
  BY <1>1 DEF LinkInv, PhyDriverReady, EthernetUp, EthernetInitFails,
     ReadyForInterface, InitIds
<1>4. QED
  BY <1>1, <1>2, <1>3 DEF LinkInv, LinkViewConverges

LEMMA PhyDownLink == ASSUME TypeOK, LinkInv, PhyDown PROVE LinkInv'
<1>1. /\ tasklet = "running" /\ UNCHANGED link
      /\ appq # <<>> /\ Head(appq) = Report(FALSE) /\ appq' = Tail(appq)
  BY DEF PhyDown, driverVars, Receive, Report
<1>2. NewestTellsLink' /\ (appq' = <<>> => link' # "up")
  BY <1>1, ReportHandled DEF LinkInv, TypeOK
<1>3. backhaul_if_id' = -1
  BY DEF PhyDown, NothingToTakeDown
<1>4. QED
  BY <1>1, <1>2, <1>3 DEF LinkInv, LinkViewConverges

LEMMA LinkReportLink ==
    ASSUME "event_send" \notin MayFail, TypeOK, LinkInv, Driver_LinkReport
    PROVE  LinkInv'
<1>1. UNCHANGED <<tasklet, backhaul_if_id>>
  BY DEF Driver_LinkReport, ownVars, taskletVars, backhaulVars
<1>2. appq' # <<>> /\ NewestTellsLink'
  BY LinkReported DEF Driver_LinkReport, TypeOK
<1>3. QED
  BY <1>1, <1>2 DEF LinkInv, LinkViewConverges

LEMMA TaskletInitLink ==
    ASSUME "event_send" \notin MayFail, TypeOK, BackhaulInv, TaskletInit
    PROVE  LinkInv'
<1>1. /\ appq = <<>> /\ link = "down" /\ backhaul_if_id' = -1
      /\ backhaul_driver_init
  BY DEF BackhaulInv, StartedInv, TaskletInit, backhaulVars
<1>2. NewestTellsLink' /\ (appq' = <<>> => link' = "down")
  BY <1>1, DriverStarted
<1>3. QED
  BY <1>1, <1>2 DEF LinkInv, LinkViewConverges

LEMMA NextLink ==
    ASSUME "event_send" \notin MayFail, IInv, LinkInv, [Next]_vars
    PROVE  LinkInv'
<1> USE DEF IInv
<1>1. ASSUME UNCHANGED <<appq, link, backhaul_if_id, tasklet>> PROVE LinkInv'
  BY <1>1 DEF LinkInv, NewestTellsLink, LinkViewConverges
<1>2. ASSUME tasklet' # "running" PROVE LinkInv'
  BY <1>2 DEF LinkInv, LinkViewConverges
<1>3. CASE BackhaulBootstrapReady \/ MeshBootstrapReady \/ OtherStatus
           \/ SystemTimer \/ UNCHANGED vars
  BY <1>1, <1>3 DEF BackhaulBootstrapReady, MeshBootstrapReady, OtherStatus,
     SystemTimer, vars, driverVars, taskletVars, backhaulVars
<1>4. CASE Timer
  BY <1>1, <1>4 DEF Timer, TimerFires, driverVars, ownVars, taskletVars,
     backhaulVars
<1>5. ASSUME NEW i \in IfIds, Stack(i) PROVE LinkInv'
  BY <1>1, <1>5 DEF Stack, BootstrapReady, BootstrapFailed, ConnectionLost,
     driverVars, ownVars, taskletVars, backhaulVars
<1>6. CASE border_router_tasklet_start \/ TaskletExit
  BY <1>2, <1>6 DEF border_router_tasklet_start, TaskletExit
<1>7. QED
  BY <1>3, <1>4, <1>5, <1>6, PhyDriverReadyLink, PhyDownLink, LinkReportLink,
     TaskletInitLink DEF Next, Handler

\* With no event lost, a tasklet that has handled every report has followed the
\* link, whatever else failed.
THEOREM LinkFollowed ==
    ASSUME "event_send" \notin MayFail
    PROVE  Spec => []LinkViewConverges
<1>1. Init => LinkInv
  BY DEF Init, LinkInv
<1>2. IInv /\ LinkInv /\ [Next]_vars => LinkInv'
  BY NextLink
<1>3. LinkInv => LinkViewConverges
  BY DEF LinkInv, LinkViewConverges
<1>4. QED
  BY <1>1, <1>2, <1>3, Invariance, PTL DEF Spec

-----------------------------------------------------------------------------
(* The service: each step of the tasklet is a step of it, or a stutter.    *)

ServiceStep == [Service!ServiceNext]_(Service!svcVars)

\* What the service does not see: steps that keep the backhaul's id and state,
\* and whether the mesh is up.
LEMMA ServiceStutters ==
    ASSUME UNCHANGED <<backhaul_if_id, net_backhaul_state>>, mesh'.up = mesh.up
    PROVE  ServiceStep
BY DEF ServiceStep, Service!svcVars, serviceBackhaul, serviceMesh

LEMMA StackStutters ==
    ASSUME NEW i \in IfIds, Stack(i) PROVE ServiceStep
BY ServiceStutters DEF Stack, ownVars, backhaulVars, meshVars

LEMMA MeshReadyStutters == ASSUME TypeOK, MeshBootstrapReady PROVE ServiceStep
<1>1. mesh'.up = mesh.up
  BY DEF MeshBootstrapReady, TypeOK, Mesh
<1>2. QED
  BY <1>1, ServiceStutters DEF MeshBootstrapReady, backhaulVars

\* A link that comes up starts the backhaul, unless there is one already or the
\* interface could not be initialised.
LEMMA PhyDriverReadyStep ==
    ASSUME TypeOK, BackhaulStateAgrees, PhyDriverReady PROVE ServiceStep
<1>1. mesh' = mesh
  BY DEF PhyDriverReady, meshVars
<1>2. CASE backhaul_if_id' = backhaul_if_id /\ net_backhaul_state' = ReadyState
  <2>1. CASE backhaul_if_id \in IfIds
    <3>1. net_backhaul_state' = net_backhaul_state
      BY <1>2, <2>1 DEF BackhaulStateAgrees, ReadyState, PHY_NOT_READY,
         BOOTSTRAP_ACTIVE, CONNECTED
    <3>2. QED
      BY <1>1, <1>2, <3>1, ServiceStutters
  <2>2. CASE backhaul_if_id \notin IfIds
    BY <1>1, <1>2, <2>2
    DEF ServiceStep, Service!svcVars, serviceBackhaul, serviceMesh
  <2>3. QED
    BY <2>1, <2>2
<1>3. CASE /\ ReadyForInterface /\ backhaul_if_id' \in IfIds
           /\ net_backhaul_state' = BOOTSTRAP_ACTIVE
  BY <1>1, <1>3, Constants
  DEF ServiceStep, Service!svcVars, Service!ServiceNext, Service!BackhaulStarts,
      serviceBackhaul, serviceMesh, ReadyForInterface, BOOTSTRAP_ACTIVE, CONNECTED
<1>4. CASE /\ ReadyForInterface /\ backhaul_if_id' \in FailCodes
  BY <1>1, <1>4, Constants
  DEF ServiceStep, Service!svcVars, serviceBackhaul, serviceMesh,
      ReadyForInterface
<1>5. QED
  BY <1>2, <1>3, <1>4
  DEF PhyDriverReady, EthernetUp, EthernetInitFails, InitIds

LEMMA PhyDownStep == ASSUME TypeOK, PhyDown PROVE ServiceStep
<1>1. mesh' = mesh
  BY DEF PhyDown, meshVars
<1>2. CASE UNCHANGED <<backhaul_if_id, net_backhaul_state>>
  BY <1>1, <1>2, ServiceStutters
<1>3. CASE backhaul_if_id' = -1
  BY <1>1, <1>3, Constants
  DEF ServiceStep, Service!svcVars, Service!ServiceNext, Service!BackhaulStops,
      serviceBackhaul, serviceMesh
<1>4. QED
  BY <1>2, <1>3 DEF PhyDown

\* READY connects the backhaul, and may start a mesh that was off.
LEMMA BackhaulReadyStep ==
    ASSUME IInv, BackhaulBootstrapReady PROVE ServiceStep
<1>1. backhaul_if_id \in IfIds
  BY BackhaulEvent DEF IInv
<1>2. UNCHANGED backhaul_if_id /\ net_backhaul_state' = CONNECTED
  BY DEF BackhaulBootstrapReady
<1>3. serviceBackhaul # "down" /\ serviceBackhaul' = "connected"
  BY <1>1, <1>2 DEF serviceBackhaul
<1>4. mesh.up => mesh'.up
  <2>1. ASSUME mesh.up PROVE ~MeshMayStart
    BY <2>1 DEF IInv, MeshInv, MeshStartedOnce, MeshMayStart, IDLE_STATE,
       BOOTSTRAP_ACTIVE, CONNECTED
  <2>2. QED
    BY <2>1, MeshStartEffect DEF IInv, meshVars
<1>5. serviceMesh' = serviceMesh \/ (serviceMesh = "off" /\ serviceMesh' = "on")
  BY <1>4 DEF serviceMesh
<1>6. QED
  BY <1>3, <1>5 DEF ServiceStep, Service!svcVars, Service!ServiceNext,
     Service!BackhaulConnects

LEMMA NextStep == ASSUME IInv, [Next]_vars PROVE ServiceStep
<1>1. CASE TaskletInit \/ TaskletExit \/ border_router_tasklet_start
           \/ OtherStatus \/ SystemTimer \/ Driver_LinkReport \/ Timer
           \/ UNCHANGED vars
  <2>1. UNCHANGED <<backhaul_if_id, net_backhaul_state, mesh>>
    BY <1>1 DEF TaskletInit, TaskletExit, border_router_tasklet_start,
       OtherStatus, SystemTimer, Driver_LinkReport, Timer, vars, ownVars,
       backhaulVars, meshVars
  <2>2. QED
    BY <2>1, ServiceStutters
<1>2. QED
  BY <1>1, StackStutters, MeshReadyStutters, PhyDriverReadyStep, PhyDownStep,
     BackhaulReadyStep DEF IInv, BackhaulInv, Next, Handler

\* The tasklet implements the border router service: whatever fails, and in
\* whatever order events come, the backhaul goes down -> bootstrapping ->
\* connected -> down, and the mesh starts once, as the backhaul connects.
THEOREM Refinement == Spec => RefinesService
<1>1. Init => Service!ServiceInit
  BY Constants DEF Init, Service!ServiceInit, serviceBackhaul, serviceMesh, InitMesh
<1>2. IInv /\ [Next]_vars => [Service!ServiceNext]_(Service!svcVars)
  BY NextStep DEF ServiceStep
<1>3. QED
  BY <1>1, <1>2, Invariance, PTL DEF Spec, RefinesService, Service!ServiceSpec
=============================================================================
