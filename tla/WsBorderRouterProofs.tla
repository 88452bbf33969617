------------------------- MODULE WsBorderRouterProofs -------------------------
(***************************************************************************)
(* What holds of WsBorderRouter for every number of interfaces, every      *)
(* failure, every configuration of the mesh and both kinds of build.       *)
(***************************************************************************)
EXTENDS WsBorderRouter, StackLemmas, MetricLemmas

-----------------------------------------------------------------------------
(* The inductive invariant.                                                *)

\* Until the tasklet is initialised there is at most the idle interface of the
\* mesh, and before border_router_tasklet_start not even that.
StartedInv ==
    /\ tasklet \in {"off", "created", "exited"} =>
          /\ appq = <<>> /\ link = "down" /\ ~status_cb
          /\ net_id = -1 /\ bbr = InitHandler /\ mesh = NoMesh
          /\ \A i \in IfIds :
                /\ ifs[i] \in {Idle("free"), Idle("lowpan")}
                /\ metric[i] = Unset
    /\ tasklet = "off" => ws_id = -1

\* The ids of the handler name interfaces of the right kind, and a mesh that is
\* up has an interface.
KindInv ==
    /\ net_id \in IfIds => ifs[net_id].kind = "eth"
    /\ ws_id \in IfIds => ifs[ws_id].kind = "lowpan"
    /\ mesh.up => ws_id \in IfIds

\* The BBR serves the two interfaces whenever there are two.
BbrInv == ServesBoth(ws_br_handler) => bbr = ws_br_handler

\* A mesh that is up has had every call; a failed one halts the program where
\* assertions do.
MeshInv ==
    /\ mesh.up => mesh.calls = CallsUpTo(Len(CallOrder))
    /\ asserts /\ tasklet = "running" /\ mesh.bootstrap => mesh.up

IInv ==
    TypeOK /\ StartedInv /\ KindInv /\ BbrInv /\ MeshInv /\ NoOrphanInterface

\* With no event lost, the newest report in the queue tells the link's state,
\* an empty queue means that the tasklet has caught up with it, and a failure
\* code is kept as an id only where a failed init lets the program go on.
LinkInv ==
    tasklet = "running" =>
        /\ NewestTellsLink /\ LinkViewConverges
        /\ asserts \/ "ethernet_init" \notin MayFail => net_id \in IfIds \cup {-1}

Ready(id) == [id |-> id, status |-> "READY"]

\* An interface that is ready has got what its READY handler gives it, or its
\* READY is still to be handled.
ReadyInv ==
    tasklet = "running" =>
        /\ BackhaulReady =>
              \/ /\ metric[net_id] = HighPriority
                 /\ ~Autonomous => ifs[net_id].route
              \/ InQueue(Ready(net_id), nwkq)
        /\ MeshReady =>
              metric[ws_id] = MESH_METRIC \/ InQueue(Ready(ws_id), nwkq)

BbrHandlers == [ws_interface_id : IfIds, net_interface_id : IfIds] \cup {InitHandler}
MeshRecords == [bootstrap : BOOLEAN, calls : SUBSET WsCalls, up : BOOLEAN]

-----------------------------------------------------------------------------
(* The configuration calls of the mesh.                                    *)

LEMMA Calls == Len(CallOrder) = 8 /\ DOMAIN CallOrder = 1..8
BY DEF CallOrder

LEMMA CallsAreCalls ==
    ASSUME NEW n \in 0..8 PROVE CallsUpTo(n) \subseteq WsCalls
BY Calls DEF CallsUpTo, WsCalls

\* Every call of the order that is to be made is among the calls made.
LEMMA CallMade ==
    ASSUME NEW i \in 1..8, IsMade(CallOrder[i])
    PROVE  CallOrder[i] \in CallsUpTo(Len(CallOrder))
BY Calls DEF CallsUpTo

\* Each option that has a meaning brings a call that carries it.
LEMMA OptionReaches ==
    ASSUME ws_conf \subseteq WsOptions, mesh.calls = CallsUpTo(Len(CallOrder)),
           NEW option \in ws_conf, Selected(option)
    PROVE  Reaches(option)
<1>1. /\ CallOrder[2] = "unicast_channel_function"
      /\ CallOrder[3] = "broadcast_channel_function"
      /\ CallOrder[4] = "timing" /\ CallOrder[5] = "domain_set"
      /\ CallOrder[6] = "gtk_set" /\ CallOrder[7] = "certificate_chain_set"
  BY DEF CallOrder
<1>2. CASE option \in UcOptions \ {"uc_dwell_interval"}
  <2>1. "uc_channel_function" \in ws_conf
    BY <1>2 DEF UcOptions, Selected
  <2>2. IsMade("unicast_channel_function")
    BY <2>1 DEF IsMade, Triggers
  <2>3. "unicast_channel_function" \in mesh.calls
    BY <1>1, <2>2, CallMade
  <2>4. option \in Carries["unicast_channel_function"]
    BY <1>2 DEF Carries
  <2>5. QED
    BY <2>3, <2>4 DEF Reaches
<1>3. CASE option \in BcOptions
  <2>1. \E trigger \in BcOptions \ {"bc_fixed_channel"} : trigger \in ws_conf
    BY <1>3 DEF BcOptions, Selected
  <2>2. IsMade("broadcast_channel_function")
    BY <2>1 DEF IsMade, Triggers
  <2>3. "broadcast_channel_function" \in mesh.calls
    BY <1>1, <2>2, CallMade
  <2>4. option \in Carries["broadcast_channel_function"]
    BY <1>3 DEF Carries
  <2>5. QED
    BY <2>3, <2>4 DEF Reaches
<1>4. CASE option = "uc_dwell_interval"
  <2>1. IsMade("timing")
    BY <1>4 DEF IsMade, Triggers
  <2>2. "timing" \in mesh.calls
    BY <1>1, <2>1, CallMade
  <2>3. option \in Carries["timing"]
    BY <1>4 DEF Carries
  <2>4. QED
    BY <2>2, <2>3 DEF Reaches
<1>5. CASE option \in DomainOptions
  <2>1. IsMade("domain_set")
    BY <1>5 DEF IsMade, Triggers
  <2>2. "domain_set" \in mesh.calls
    BY <1>1, <2>1, CallMade
  <2>3. option \in Carries["domain_set"]
    BY <1>5 DEF Carries
  <2>4. QED
    BY <2>2, <2>3 DEF Reaches
<1>6. CASE option = "gtk0"
  <2>1. IsMade("gtk_set")
    BY <1>6 DEF IsMade, Triggers
  <2>2. "gtk_set" \in mesh.calls
    BY <1>1, <2>1, CallMade
  <2>3. option \in Carries["gtk_set"]
    BY <1>6 DEF Carries
  <2>4. QED
    BY <2>2, <2>3 DEF Reaches
<1>7. CASE option = "certificate_header"
  <2>1. IsMade("certificate_chain_set")
    BY <1>7 DEF IsMade, Triggers
  <2>2. "certificate_chain_set" \in mesh.calls
    BY <1>1, <2>1, CallMade
  <2>3. option \in Carries["certificate_chain_set"]
    BY <1>7 DEF Carries
  <2>4. QED
    BY <2>2, <2>3 DEF Reaches
<1>8. QED
  BY <1>2, <1>3, <1>4, <1>5, <1>6, <1>7 DEF WsOptions, UcOptions, BuildOptions

-----------------------------------------------------------------------------
(* The handler's ids.                                                      *)

\* The interfaces among the ids are those that are not negative.
LEMMA Known == \A id \in Ids : (id > -1 <=> id \in IfIds) /\ -1 \in Ids
BY InterfaceIds DEF Ids

\* Storing the ids keeps the types, and the BBR serves the two if there are two.
LEMMA HandlerSet ==
    ASSUME NEW handler \in Handler, bbr \in BbrHandlers, SetHandler(handler)
    PROVE  /\ ws_br_handler' = handler /\ bbr' \in BbrHandlers
           /\ ws_id' = handler.ws_interface_id /\ net_id' = handler.net_interface_id
           /\ BbrInv'
<1>1. ws_br_handler' = handler
      /\ (ServesBoth(handler) => bbr' = handler)
      /\ (~ServesBoth(handler) => bbr' = bbr)
  BY DEF SetHandler
<1>2. ServesBoth(handler) => handler \in BbrHandlers
  <2>1. /\ handler.ws_interface_id \in Ids /\ handler.net_interface_id \in Ids
        /\ handler = [ws_interface_id |-> handler.ws_interface_id,
                      net_interface_id |-> handler.net_interface_id]
    BY DEF Handler
  <2>2. ServesBoth(handler) =>
           handler.ws_interface_id \in IfIds /\ handler.net_interface_id \in IfIds
    BY <2>1, Known DEF ServesBoth
  <2>3. QED
    BY <2>1, <2>2 DEF BbrHandlers
<1>3. BbrInv'
  BY <1>1 DEF BbrInv, ServesBoth
<1>4. QED
  BY <1>1, <1>2, <1>3 DEF ws_id, net_id

-----------------------------------------------------------------------------
(* Every action preserves the invariant.                                   *)

LEMMA InitInv == Init => IInv
<1> SUFFICES ASSUME Init PROVE IInv
  OBVIOUS
<1>1. Idle("free") \in Interface
  BY NewInterface, InterfaceIds DEF AnyPrefix
<1>2. /\ ifs \in [IfIds -> Interface] /\ \A i \in IfIds : ifs[i] = Idle("free")
      /\ metric \in [IfIds -> Metrics] /\ \A i \in IfIds : metric[i] = Unset
  BY <1>1, MetricStarts DEF Init, StackInit
<1>3. /\ appq = <<>> /\ nwkq = <<>> /\ timer = "off"
      /\ link = "down" /\ status_cb = FALSE
      /\ asserts \in Builds /\ ws_conf \in WsConfigs /\ tasklet = "off"
      /\ ws_br_handler = InitHandler /\ bbr = InitHandler /\ mesh = NoMesh
  BY DEF Init, EventOSInit, DriverInit
<1>4. /\ ws_id = -1 /\ net_id = -1
      /\ ws_br_handler \in Handler /\ bbr \in BbrHandlers
      /\ mesh \in MeshRecords /\ ~mesh.up /\ ~mesh.bootstrap
  BY <1>3, Known, InterfaceIds
  DEF InitHandler, NoMesh, Handler, Ids, BbrHandlers, MeshRecords, ws_id, net_id
<1>5. TypeOK
  <2>1. appq \in Seq(AppEvents) /\ nwkq \in Seq(Events)
    BY <1>3
  <2>2. QED
    BY <1>2, <1>3, <1>4, <2>1 DEF TypeOK, BbrHandlers, MeshRecords, Metrics
<1>6. StartedInv /\ KindInv
  BY <1>2, <1>3, <1>4, InterfaceIds DEF StartedInv, KindInv
<1>7. BbrInv /\ MeshInv
  BY <1>3, <1>4 DEF BbrInv, MeshInv
<1>8. NoOrphanInterface
  BY <1>2 DEF NoOrphanInterface, Idle
<1>9. QED
  BY <1>5, <1>6, <1>7, <1>8 DEF IInv

\* Steps that keep the interfaces and all that is the tasklet's own.
LEMMA QuietInv ==
    ASSUME IInv, UNCHANGED <<ifs, wsVars>>,
           appq' \in Seq(AppEvents), nwkq' \in Seq(Events),
           timer' \in {"off", "armed", "fired"},
           link' \in {"up", "down"}, status_cb' \in BOOLEAN,
           StartedInv'
    PROVE  IInv'
<1>1. UNCHANGED <<ifs, asserts, ws_conf, tasklet, ws_br_handler, bbr, metric,
                  mesh, ws_id, net_id>>
  BY DEF wsVars, ws_id, net_id
<1>2. TypeOK'
  BY <1>1 DEF IInv, TypeOK
<1>3. KindInv' /\ NoOrphanInterface'
  BY <1>1 DEF IInv, KindInv, NoOrphanInterface
<1>4. BbrInv' /\ MeshInv'
  BY <1>1 DEF IInv, BbrInv, MeshInv, ServesBoth, CallsUpTo, IsMade
<1>5. QED
  BY <1>2, <1>3, <1>4 DEF IInv

\* wisun_rf_init leaves at most an idle interface for the mesh.
LEMMA StartInv == ASSUME IInv, border_router_tasklet_start PROVE IInv'
<1>1. /\ UNCHANGED <<appq, nwkq, timer, link, status_cb, asserts, ws_conf,
                     metric, mesh>>
      /\ tasklet = "off" /\ wisun_rf_init
  BY DEF border_router_tasklet_start, eventVars, driverVars, fixed
<1>2. /\ TypeOK /\ bbr = InitHandler /\ mesh = NoMesh
      /\ appq = <<>> /\ link = "down" /\ ~status_cb
      /\ \A i \in IfIds : ifs[i] \in {Idle("free"), Idle("lowpan")}
      /\ \A i \in IfIds : metric[i] = Unset
  BY <1>1 DEF IInv, StartedInv
<1>3. ~mesh.up /\ ~mesh.bootstrap
  BY <1>2 DEF NoMesh
<1>4. PICK id \in Ids :
        /\ SetHandler([InitHandler EXCEPT !.ws_interface_id = id])
        /\ tasklet' \in {"created", "halted"}
        /\ \/ id \in IfIds /\ ifs' = [ifs EXCEPT ![id] = Idle("lowpan")]
           \/ id \notin IfIds /\ ifs' = ifs
  <2>1. CASE \E id \in InitIds("lowpan") :
                /\ ifs' = [ifs EXCEPT ![id] = Idle("lowpan")]
                /\ SetHandler([InitHandler EXCEPT !.ws_interface_id = id])
                /\ tasklet' = "created"
    BY <2>1 DEF InitIds, Ids
  <2>2. CASE \E code \in FailCodes :
                /\ SetHandler([InitHandler EXCEPT !.ws_interface_id = code])
                /\ tasklet' = "created" /\ UNCHANGED ifs
    BY <2>2, InterfaceIds DEF Ids
  <2>3. CASE /\ SetHandler(InitHandler)
             /\ tasklet' \in {"created", "halted"} /\ UNCHANGED ifs
    <3>1. InitHandler = [InitHandler EXCEPT !.ws_interface_id = -1]
      BY DEF InitHandler
    <3>2. QED
      BY <2>3, <3>1, InterfaceIds DEF Ids
  <2>4. QED
    BY <1>1, <2>1, <2>2, <2>3 DEF wisun_rf_init
<1> DEFINE handler == [InitHandler EXCEPT !.ws_interface_id = id]
<1>5. /\ handler \in Handler
      /\ handler.ws_interface_id = id /\ handler.net_interface_id = -1
  BY Known DEF InitHandler, Handler
<1>6. SetHandler(handler)
  BY <1>4
<1> HIDE DEF handler
<1>7. /\ ws_br_handler' \in Handler /\ bbr' \in BbrHandlers
      /\ ws_id' = id /\ net_id' = -1 /\ BbrInv'
  BY <1>2, <1>5, <1>6, HandlerSet DEF TypeOK, BbrHandlers
<1>8. bbr' = InitHandler
  BY <1>2, <1>5, <1>6 DEF SetHandler, ServesBoth
<1>9. /\ ifs' \in [IfIds -> Interface]
      /\ \A i \in IfIds : ifs'[i] \in {Idle("free"), Idle("lowpan")}
      /\ id \in IfIds => ifs'[id] = Idle("lowpan")
  <2>1. CASE id \in IfIds /\ ifs' = [ifs EXCEPT ![id] = Idle("lowpan")]
    <3>1. Idle("lowpan") \in Interface
      BY NewInterface, InterfaceIds DEF AnyPrefix
    <3>2. /\ ifs' \in [IfIds -> Interface] /\ ifs'[id] = Idle("lowpan")
          /\ \A j \in IfIds : j # id => ifs'[j] = ifs[j]
      BY <1>2, <2>1, <3>1, Replaced DEF TypeOK
    <3>3. QED
      BY <1>2, <3>2
  <2>2. CASE id \notin IfIds /\ ifs' = ifs
    BY <1>2, <2>2 DEF TypeOK
  <2>3. QED
    BY <1>4, <2>1, <2>2
<1>10. TypeOK'
  BY <1>1, <1>2, <1>4, <1>7, <1>9 DEF TypeOK, BbrHandlers
<1>11. StartedInv' /\ KindInv'
  BY <1>1, <1>2, <1>3, <1>4, <1>7, <1>8, <1>9, InterfaceIds
  DEF StartedInv, KindInv, Idle
<1>12. MeshInv' /\ NoOrphanInterface'
  BY <1>1, <1>3, <1>9 DEF MeshInv, NoOrphanInterface, Idle
<1>13. QED
  BY <1>7, <1>10, <1>11, <1>12 DEF IInv

\* The mesh: its interface is started with every call made, or it is not and
\* the program ends where assertions are on.
LEMMA MeshEffect ==
    ASSUME TypeOK, mesh = NoMesh, mesh_network_up
    PROVE  /\ tasklet' \in {"running", "halted"}
           /\ mesh' \in MeshRecords
           /\ asserts /\ tasklet' = "running" /\ mesh'.bootstrap => mesh'.up
           /\ \/ ~mesh'.up /\ ifs' = ifs
              \/ /\ mesh'.up /\ ws_id \in IfIds
                 /\ mesh'.calls = CallsUpTo(Len(CallOrder))
                 /\ ifs' = [ifs EXCEPT ![ws_id] = InterfaceUp("lowpan", Unspecified)]
<1>1. CASE /\ ws_id \in IfIds
           /\ mesh' = [bootstrap |-> TRUE, calls |-> CallsUpTo(Len(CallOrder)),
                       up |-> TRUE]
           /\ ifs' = [ifs EXCEPT ![ws_id] = InterfaceUp("lowpan", Unspecified)]
           /\ tasklet' = "running"
  <2>1. CallsUpTo(Len(CallOrder)) \subseteq WsCalls
    BY Calls, CallsAreCalls
  <2>2. QED
    BY <1>1, <2>1 DEF MeshRecords
<1>2. ASSUME NEW i \in DOMAIN CallOrder, UNCHANGED ifs, tasklet' = AfterAssert,
             mesh' = [bootstrap |-> TRUE, calls |-> CallsUpTo(i - 1), up |-> FALSE]
      PROVE  /\ tasklet' \in {"running", "halted"}
             /\ mesh' \in MeshRecords
             /\ asserts /\ tasklet' = "running" /\ mesh'.bootstrap => mesh'.up
             /\ ~mesh'.up /\ ifs' = ifs
  <2>1. i - 1 \in 0..8
    BY Calls
  <2>2. CallsUpTo(i - 1) \subseteq WsCalls
    BY <2>1, CallsAreCalls
  <2>3. QED
    BY <1>2, <2>2 DEF MeshRecords, AfterAssert
<1>3. CASE tasklet' = "running" /\ UNCHANGED <<ifs, mesh>>
  BY <1>3 DEF TypeOK, MeshRecords, NoMesh
<1>4. QED
  BY <1>1, <1>2, <1>3 DEF mesh_network_up, wisun_interface_up

LEMMA TaskletInitInv == ASSUME IInv, TaskletInit PROVE IInv'
<1>1. /\ TypeOK /\ appq = <<>> /\ link = "down" /\ net_id = -1 /\ mesh = NoMesh
      /\ \A i \in IfIds : ifs[i] \in {Idle("free"), Idle("lowpan")}
  BY DEF IInv, StartedInv, TaskletInit
<1>2. /\ appq' \in Seq(AppEvents) /\ link' \in {"up", "down"}
      /\ status_cb' \in BOOLEAN /\ timer' \in {"off", "armed", "fired"}
      /\ UNCHANGED <<nwkq, asserts, ws_conf, ws_br_handler, bbr, metric>>
  BY <1>1, DriverStarted DEF TaskletInit, TypeOK, fixed,
     eventOS_event_timer_request
<1>3. /\ tasklet' \in {"running", "halted"}
      /\ mesh' \in MeshRecords
      /\ asserts /\ tasklet' = "running" /\ mesh'.bootstrap => mesh'.up
      /\ \/ ~mesh'.up /\ ifs' = ifs
         \/ /\ mesh'.up /\ ws_id \in IfIds
            /\ mesh'.calls = CallsUpTo(Len(CallOrder))
            /\ ifs' = [ifs EXCEPT ![ws_id] = InterfaceUp("lowpan", Unspecified)]
  BY <1>1, MeshEffect DEF TaskletInit
<1>4. ws_id' = ws_id /\ net_id' = net_id
  BY <1>2 DEF ws_id, net_id
<1>5. /\ ifs' \in [IfIds -> Interface]
      /\ \A i \in IfIds : ifs'[i].kind # "eth"
      /\ ws_id \in IfIds => ifs'[ws_id].kind = "lowpan"
  <2>1. \A i \in IfIds : ifs[i].kind # "eth"
    BY <1>1 DEF Idle
  <2>2. CASE ~mesh'.up /\ ifs' = ifs
    BY <1>1, <2>1, <2>2 DEF TypeOK, IInv, KindInv
  <2>3. CASE /\ ws_id \in IfIds
             /\ ifs' = [ifs EXCEPT ![ws_id] = InterfaceUp("lowpan", Unspecified)]
    <3>1. /\ InterfaceUp("lowpan", Unspecified) \in Interface
          /\ InterfaceUp("lowpan", Unspecified).kind = "lowpan"
      BY NewInterface, InterfaceIds DEF InterfaceUp, Idle
    <3>2. /\ ifs' \in [IfIds -> Interface]
          /\ ifs'[ws_id].kind = "lowpan"
          /\ \A j \in IfIds : j # ws_id => ifs'[j] = ifs[j]
      BY <1>1, <2>3, <3>1, Replaced DEF TypeOK
    <3>3. QED
      BY <2>1, <3>2
  <2>4. QED
    BY <1>3, <2>2, <2>3
<1>6. TypeOK'
  BY <1>1, <1>2, <1>3, <1>5 DEF TypeOK, MeshRecords
<1>7. StartedInv' /\ KindInv'
  BY <1>1, <1>3, <1>4, <1>5, InterfaceIds DEF StartedInv, KindInv
<1>8. BbrInv' /\ NoOrphanInterface'
  BY <1>2, <1>5 DEF IInv, BbrInv, ServesBoth, NoOrphanInterface
<1>9. MeshInv'
  BY <1>2, <1>3 DEF MeshInv, CallsUpTo, IsMade
<1>10. QED
  BY <1>6, <1>7, <1>8, <1>9 DEF IInv

-----------------------------------------------------------------------------
(* The backhaul's interface comes and goes.                                *)

\* What the two ways of backhaul_interface_up come to: a new interface of its
\* own that is not ready, with no metric yet; or a failure code for an id.
HandlerStored ==
    /\ ws_br_handler' \in Handler /\ bbr' \in BbrHandlers
    /\ ws_id' = ws_id /\ BbrInv'

NewBackhaul(id) ==
    /\ id \in IfIds /\ id # ws_id
    /\ net_id = -1 /\ net_id' = id
    /\ ifs' \in [IfIds -> Interface] /\ metric' \in [IfIds -> Metrics]
    /\ ifs'[id].kind = "eth" /\ ifs'[id].state # "ready"
    /\ metric'[id] = Unset
    /\ \A j \in IfIds : j # id => ifs'[j] = ifs[j] /\ metric'[j] = metric[j]
    /\ tasklet' = "running"
    /\ HandlerStored

NoBackhaul ==
    /\ net_id = -1 /\ net_id' \in FailCodes
    /\ "ethernet_init" \in MayFail
    /\ UNCHANGED <<ifs, metric>>
    /\ tasklet' = AfterAssert
    /\ HandlerStored

LEMMA NetIdStored ==
    ASSUME TypeOK, NEW id \in Ids,
           SetHandler([ws_br_handler EXCEPT !.net_interface_id = id])
    PROVE  HandlerStored /\ net_id' = id
<1> DEFINE handler == [ws_br_handler EXCEPT !.net_interface_id = id]
<1>1. /\ handler \in Handler
      /\ handler.ws_interface_id = ws_id /\ handler.net_interface_id = id
  BY DEF TypeOK, Handler, ws_id
<1>2. SetHandler(handler) /\ bbr \in BbrHandlers
  BY DEF TypeOK, BbrHandlers
<1> HIDE DEF handler
<1>3. QED
  BY <1>1, <1>2, HandlerSet DEF HandlerStored

LEMMA EthernetUpEffect ==
    ASSUME IInv, tasklet' = "running", MayInitialise,
           NEW id \in InitIds("eth"), EthernetUp(id)
    PROVE  NewBackhaul(id)
<1>1. /\ TypeOK /\ metric \in [IfIds -> Metrics]
      /\ id \in IfIds /\ id # ws_id /\ id \in Ids
  BY DEF IInv, TypeOK, Metrics, KindInv, InitIds, Ids
<1>2. HandlerStored /\ net_id' = id
  BY <1>1, NetIdStored DEF EthernetUp
<1>3. PICK new \in Interface :
        /\ new.kind = "eth" /\ new.state # "ready"
        /\ ifs' = [ifs EXCEPT ![id] = new]
  <2>1. BackhaulAddress \in AnyPrefix \cup {Learned}
    BY WsAssumption DEF BackhaulAddress
  <2>2. /\ InterfaceUp("eth", BackhaulAddress) \in Interface
        /\ InterfaceUp("eth", BackhaulAddress).kind = "eth"
        /\ InterfaceUp("eth", BackhaulAddress).state # "ready"
        /\ [Idle("eth") EXCEPT !.cfg = BackhaulAddress] \in Interface
        /\ [Idle("eth") EXCEPT !.cfg = BackhaulAddress].kind = "eth"
        /\ [Idle("eth") EXCEPT !.cfg = BackhaulAddress].state # "ready"
    BY <2>1, NewInterface DEF InterfaceUp, Idle
  <2>3. QED
    BY <2>2 DEF EthernetUp
<1>4. /\ ifs' \in [IfIds -> Interface] /\ ifs'[id] = new
      /\ \A j \in IfIds : j # id => ifs'[j] = ifs[j]
  BY <1>1, <1>3, Replaced DEF TypeOK
<1>5. /\ metric' \in [IfIds -> Metrics] /\ metric'[id] = Unset
      /\ \A j \in IfIds : j # id => metric'[j] = metric[j]
  BY <1>1 DEF EthernetUp, Metrics
<1>6. QED
  BY <1>1, <1>2, <1>3, <1>4, <1>5 DEF NewBackhaul, MayInitialise

LEMMA PhyDriverReadyEffect ==
    ASSUME IInv, PhyDriverReady
    PROVE  /\ UNCHANGED <<nwkq, timer, link, status_cb, asserts, ws_conf, mesh>>
           /\ tasklet = "running"
           /\ appq' \in Seq(AppEvents)
           /\ \/ /\ UNCHANGED <<tasklet, ifs, ws_br_handler, bbr, metric,
                                ws_id, net_id>>
                 /\ net_id # -1
              \/ \E id \in IfIds : NewBackhaul(id)
              \/ NoBackhaul
<1>1. /\ UNCHANGED <<nwkq, timer, link, status_cb, asserts, ws_conf, mesh>>
      /\ tasklet = "running"
      /\ appq' \in Seq(AppEvents)
  BY Taken DEF IInv, TypeOK, PhyDriverReady, Receive, driverVars, fixed
<1>2. CASE ~MayInitialise /\ UNCHANGED <<tasklet, ifs, ws_br_handler, bbr, metric>>
  BY <1>1, <1>2 DEF MayInitialise, ws_id, net_id
<1>3. ASSUME MayInitialise, NEW id \in InitIds("eth"), EthernetUp(id), UNCHANGED tasklet
      PROVE  id \in IfIds /\ NewBackhaul(id)
  BY <1>1, <1>3, EthernetUpEffect DEF InitIds
<1>4. CASE MayInitialise /\ EthernetInitFails
  <2>1. PICK code \in FailCodes :
          SetHandler([ws_br_handler EXCEPT !.net_interface_id = code])
    BY <1>4 DEF EthernetInitFails
  <2>2. HandlerStored /\ net_id' = code
    BY <2>1, NetIdStored DEF IInv, Ids
  <2>3. QED
    BY <1>1, <1>4, <2>2 DEF NoBackhaul, EthernetInitFails, MayInitialise
<1>5. QED
  BY <1>1, <1>2, <1>3, <1>4 DEF PhyDriverReady

LEMMA PhyDriverReadyInv == ASSUME IInv, PhyDriverReady PROVE IInv'
<1>1. /\ TypeOK
      /\ UNCHANGED <<nwkq, timer, link, status_cb, asserts, ws_conf, mesh>>
      /\ tasklet = "running"
      /\ appq' \in Seq(AppEvents)
  BY PhyDriverReadyEffect DEF IInv
<1>2. CASE UNCHANGED <<tasklet, ifs, ws_br_handler, bbr, metric, ws_id, net_id>>
  <2>1. StartedInv'
    BY <1>1, <1>2 DEF StartedInv
  <2>2. QED
    BY <1>1, <1>2, <2>1, QuietInv DEF TypeOK, wsVars
<1>3. ASSUME NEW id \in IfIds, NewBackhaul(id) PROVE IInv'
  <2>1. TypeOK' /\ StartedInv'
    BY <1>1, <1>3
    DEF NewBackhaul, HandlerStored, TypeOK, StartedInv, BbrHandlers, Metrics, Events
  <2>2. KindInv'
    BY <1>1, <1>3 DEF IInv, NewBackhaul, HandlerStored, KindInv
  <2>3. BbrInv' /\ MeshInv'
    BY <1>1, <1>3 DEF IInv, NewBackhaul, HandlerStored, MeshInv, CallsUpTo, IsMade
  <2>4. NoOrphanInterface'
    BY <1>3, InterfaceIds DEF IInv, NewBackhaul, HandlerStored, NoOrphanInterface
  <2>5. QED
    BY <2>1, <2>2, <2>3, <2>4 DEF IInv
<1>4. CASE NoBackhaul
  <2>1. tasklet' \in {"running", "halted"} /\ net_id' \notin IfIds
    BY <1>4, InterfaceIds DEF NoBackhaul, AfterAssert
  <2>2. TypeOK' /\ StartedInv'
    BY <1>1, <1>4, <2>1
    DEF NoBackhaul, HandlerStored, TypeOK, StartedInv, BbrHandlers
  <2>3. KindInv'
    BY <1>1, <1>4, <2>1 DEF IInv, NoBackhaul, HandlerStored, KindInv
  <2>4. BbrInv' /\ MeshInv'
    BY <1>1, <1>4, <2>1
    DEF IInv, NoBackhaul, HandlerStored, MeshInv, CallsUpTo, IsMade
  <2>5. NoOrphanInterface'
    BY <1>4, InterfaceIds DEF IInv, NoBackhaul, HandlerStored, NoOrphanInterface
  <2>6. QED
    BY <2>2, <2>3, <2>4, <2>5 DEF IInv
<1>5. QED
  BY <1>2, <1>3, <1>4, PhyDriverReadyEffect

\* backhaul_interface_down: the id is forgotten, and the interface it named, if
\* any, is idle without a route.
LEMMA PhyDownEffect ==
    ASSUME IInv, PhyDown
    PROVE  /\ UNCHANGED <<timer, link, status_cb, asserts, ws_conf, tasklet, bbr,
                          metric, mesh, ws_id>>
           /\ tasklet = "running"
           /\ appq' \in Seq(AppEvents) /\ nwkq' \in Seq(Events)
           /\ net_id' = -1 /\ ws_br_handler' \in Handler
           /\ ifs' \in [IfIds -> Interface]
           /\ \A j \in IfIds : j # net_id => ifs'[j] = ifs[j]
           /\ net_id \in IfIds => ifs'[net_id] = Idle(ifs[net_id].kind)
           /\ \A event : InQueue(event, nwkq) => InQueue(event, nwkq')
<1>1. /\ TypeOK /\ tasklet = "running"
      /\ UNCHANGED <<timer, link, status_cb, asserts, ws_conf, tasklet, bbr, metric, mesh>>
      /\ appq' \in Seq(AppEvents)
  BY Taken DEF IInv, TypeOK, PhyDown, Receive, driverVars, fixed
<1>2. CASE net_id = -1 /\ UNCHANGED <<ifs, nwkq, ws_br_handler>>
  BY <1>1, <1>2, InterfaceIds DEF TypeOK, ws_id, net_id
<1>3. CASE TakeDown(net_id) /\ ws_br_handler' = HandlerAfterDown
  <2>1. /\ ws_br_handler' \in Handler /\ ws_id' = ws_id /\ net_id' = -1
    BY <1>1, <1>3, Known, InterfaceIds
    DEF HandlerAfterDown, TypeOK, Handler, ws_id, net_id, Ids
  <2>2. CASE net_id \in IfIds
    <3>1. arm_nwk_interface_down(net_id)
      BY <1>3, <2>2 DEF TakeDown
    <3>2. /\ ifs' \in [IfIds -> Interface]
          /\ ifs'[net_id] = Idle(ifs[net_id].kind)
          /\ \A j \in IfIds : j # net_id => ifs'[j] = ifs[j]
          /\ nwkq' \in Seq(Events)
          /\ \A event : InQueue(event, nwkq) => InQueue(event, nwkq')
      BY <1>1, <2>2, <3>1, TakenDown DEF TypeOK, Events, StackEvents
    <3>3. QED
      BY <1>1, <2>1, <3>2
  <2>3. CASE net_id \notin IfIds
    BY <1>1, <1>3, <2>1, <2>3 DEF TakeDown, TypeOK
  <2>4. QED
    BY <2>2, <2>3
<1>4. QED
  BY <1>2, <1>3 DEF PhyDown

LEMMA PhyDownInv == ASSUME IInv, PhyDown PROVE IInv'
<1>1. /\ TypeOK
      /\ UNCHANGED <<timer, link, status_cb, asserts, ws_conf, tasklet, bbr,
                     metric, mesh, ws_id>>
      /\ tasklet = "running"
      /\ appq' \in Seq(AppEvents) /\ nwkq' \in Seq(Events)
      /\ net_id' = -1 /\ ws_br_handler' \in Handler
      /\ ifs' \in [IfIds -> Interface]
      /\ \A j \in IfIds : j # net_id => ifs'[j] = ifs[j]
      /\ net_id \in IfIds => ifs'[net_id] = Idle(ifs[net_id].kind)
  BY PhyDownEffect DEF IInv
<1>2. TypeOK' /\ StartedInv'
  BY <1>1 DEF TypeOK, StartedInv
<1>3. \A j \in IfIds : ifs'[j].kind = ifs[j].kind
  BY <1>1 DEF Idle
<1>4. KindInv'
  BY <1>1, <1>3, InterfaceIds DEF IInv, KindInv
<1>5. BbrInv' /\ MeshInv'
  <2>1. ~ServesBoth(ws_br_handler)'
    BY <1>1 DEF ServesBoth, net_id
  <2>2. QED
    BY <1>1, <2>1 DEF IInv, BbrInv, MeshInv, CallsUpTo, IsMade
<1>6. NoOrphanInterface'
  BY <1>1 DEF IInv, NoOrphanInterface, Idle
<1>7. QED
  BY <1>2, <1>4, <1>5, <1>6 DEF IInv

-----------------------------------------------------------------------------
(* The events of the stack.                                                *)

\* What every handler of an event keeps, and what it does to the queue.
EventHandled ==
    /\ tasklet = "running"
    /\ UNCHANGED <<appq, timer, link, status_cb, asserts, ws_conf, tasklet,
                   ws_br_handler, bbr, mesh, ws_id, net_id>>
    /\ nwkq' \in Seq(Events) /\ Head(nwkq) \in Events
    /\ \A event : InQueue(event, nwkq) /\ event # Head(nwkq) => InQueue(event, nwkq')

LEMMA StatusHandled ==
    ASSUME nwkq \in Seq(Events), NEW status, ReceiveStatus(status)
    PROVE  /\ nwkq' \in Seq(Events) /\ Head(nwkq) \in Events
           /\ Head(nwkq) = [id |-> Head(nwkq).id, status |-> status]
           /\ \A event : InQueue(event, nwkq) /\ event # Head(nwkq) => InQueue(event, nwkq')
<1>1. /\ nwkq' \in Seq(Events) /\ Head(nwkq) \in Events
      /\ \A event : InQueue(event, nwkq) /\ event # Head(nwkq) => InQueue(event, nwkq')
  BY Taken DEF ReceiveStatus
<1>2. Head(nwkq) = [id |-> Head(nwkq).id, status |-> Head(nwkq).status]
  BY <1>1 DEF Events
<1>3. QED
  BY <1>1, <1>2 DEF ReceiveStatus

\* READY of the backhaul: its metric and its route, as far as those succeed.
LEMMA BackhaulReadyEffect ==
    ASSUME IInv, BackhaulBootstrapReady
    PROVE  /\ EventHandled /\ net_id \in IfIds /\ Head(nwkq) = Ready(net_id)
           /\ metric' \in [IfIds -> Metrics] /\ ifs' \in [IfIds -> Interface]
           /\ \A j \in IfIds : j # net_id => metric'[j] = metric[j] /\ ifs'[j] = ifs[j]
           /\ metric'[net_id] \in {HighPriority, metric[net_id]}
           /\ "set_metric" \notin MayFail => metric'[net_id] = HighPriority
           /\ ifs'[net_id].kind = ifs[net_id].kind
           /\ ifs'[net_id].state = ifs[net_id].state
           /\ "route_add" \notin MayFail /\ ~Autonomous => ifs'[net_id].route
<1>1. /\ TypeOK /\ tasklet = "running" /\ ReceiveStatus("READY")
      /\ Head(nwkq).id = net_id
      /\ UNCHANGED <<appq, timer, link, status_cb, asserts, ws_conf, tasklet,
                     ws_br_handler, bbr, mesh, ws_id, net_id>>
  BY DEF IInv, BackhaulBootstrapReady, IsBackhaul, driverVars, fixed, ws_id, net_id
<1>2. EventHandled /\ Head(nwkq) = Ready(net_id) /\ Head(nwkq) \in Events
  BY <1>1, StatusHandled DEF TypeOK, EventHandled, Ready
<1>3. net_id \in IfIds
  BY <1>1, <1>2 DEF Events
<1>4. /\ metric' \in [IfIds -> Metrics]
      /\ \A j \in IfIds : j # net_id => metric'[j] = metric[j]
      /\ metric'[net_id] \in {HighPriority, metric[net_id]}
      /\ "set_metric" \notin MayFail => metric'[net_id] = HighPriority
  BY <1>1, <1>3, MetricSet DEF TypeOK, Metrics, BackhaulBootstrapReady
<1>5. PICK added \in BOOLEAN :
        /\ ifs' = [ifs EXCEPT ![net_id].route = @ \/ added]
        /\ "route_add" \notin MayFail /\ ~Autonomous => added
  BY WsAssumption DEF BackhaulBootstrapReady
<1>6. /\ ifs' \in [IfIds -> Interface]
      /\ ifs'[net_id].route <=> (ifs[net_id].route \/ added)
      /\ ifs'[net_id].kind = ifs[net_id].kind
      /\ ifs'[net_id].state = ifs[net_id].state
      /\ \A j \in IfIds : j # net_id => ifs'[j] = ifs[j]
  BY <1>1, <1>3, <1>5, Routed DEF TypeOK
<1>7. "route_add" \notin MayFail /\ ~Autonomous => ifs'[net_id].route
  BY <1>5, <1>6
<1>8. QED
  BY <1>2, <1>3, <1>4, <1>6, <1>7

\* READY of any other id: the metric of the mesh, if that succeeds.
LEMMA WisunReadyEffect ==
    ASSUME IInv, WisunBootstrapReady
    PROVE  /\ EventHandled /\ ifs' = ifs /\ Head(nwkq).id # net_id
           /\ metric' \in [IfIds -> Metrics]
           /\ \A j \in IfIds : j # ws_id => metric'[j] = metric[j]
           /\ ws_id \in IfIds /\ "set_metric" \notin MayFail =>
                 metric'[ws_id] = MESH_METRIC
<1>1. /\ TypeOK /\ tasklet = "running" /\ ReceiveStatus("READY")
      /\ Head(nwkq).id # net_id /\ ifs' = ifs
      /\ UNCHANGED <<appq, timer, link, status_cb, asserts, ws_conf, tasklet,
                     ws_br_handler, bbr, mesh, ws_id, net_id>>
  BY DEF IInv, WisunBootstrapReady, IsBackhaul, driverVars, fixed, ws_id, net_id
<1>2. EventHandled
  BY <1>1, StatusHandled DEF TypeOK, EventHandled
<1>3. /\ metric' \in [IfIds -> Metrics]
      /\ \A j \in IfIds : j # ws_id => metric'[j] = metric[j]
      /\ ws_id \in IfIds /\ "set_metric" \notin MayFail => metric'[ws_id] = MESH_METRIC
  BY <1>1, MetricSet DEF TypeOK, Metrics, WisunBootstrapReady
<1>4. QED
  BY <1>1, <1>2, <1>3

LEMMA OtherStatusEffect ==
    ASSUME IInv, OtherStatus
    PROVE  /\ EventHandled /\ ifs' = ifs /\ metric' = metric
           /\ \A id : Head(nwkq) # Ready(id)
<1>1. /\ TypeOK /\ tasklet = "running" /\ ifs' = ifs /\ metric' = metric
      /\ UNCHANGED <<appq, timer, link, status_cb, asserts, ws_conf, tasklet,
                     ws_br_handler, bbr, mesh, ws_id, net_id>>
  BY DEF IInv, OtherStatus, driverVars, wsVars, ws_id, net_id
<1>2. PICK status \in Statuses \ {"READY"} : ReceiveStatus(status)
  BY DEF OtherStatus
<1>3. EventHandled /\ Head(nwkq).status # "READY"
  BY <1>1, <1>2, StatusHandled DEF TypeOK, EventHandled, ReceiveStatus
<1>4. ASSUME NEW id PROVE Head(nwkq) # Ready(id)
  BY <1>3 DEF Ready
<1>5. QED
  BY <1>1, <1>3, <1>4

\* A handler of an event that keeps the kinds, and makes no route but the
\* backhaul's, preserves the invariant.
LEMMA EventInv ==
    ASSUME IInv, EventHandled,
           metric' \in [IfIds -> Metrics], ifs' \in [IfIds -> Interface],
           \A j \in IfIds : ifs'[j].kind = ifs[j].kind,
           \A j \in IfIds : ifs'[j] = ifs[j] \/ j = net_id
    PROVE  IInv'
<1>1. TypeOK' /\ StartedInv'
  BY DEF IInv, TypeOK, EventHandled, Metrics, StartedInv
<1>2. KindInv' /\ NoOrphanInterface'
  <2>1. net_id \in IfIds => net_id # ws_id
    BY DEF IInv, KindInv
  <2>2. QED
    BY <2>1 DEF IInv, KindInv, EventHandled, NoOrphanInterface
<1>3. BbrInv' /\ MeshInv'
  BY DEF IInv, EventHandled, BbrInv, MeshInv, ServesBoth, CallsUpTo, IsMade
<1>4. QED
  BY <1>1, <1>2, <1>3 DEF IInv

LEMMA BackhaulReadyInv == ASSUME IInv, BackhaulBootstrapReady PROVE IInv'
<1>1. /\ EventHandled
      /\ metric' \in [IfIds -> Metrics] /\ ifs' \in [IfIds -> Interface]
      /\ \A j \in IfIds : j # net_id => ifs'[j] = ifs[j]
      /\ ifs'[net_id].kind = ifs[net_id].kind
  BY BackhaulReadyEffect
<1>2. \A j \in IfIds : ifs'[j].kind = ifs[j].kind
  BY <1>1
<1>3. QED
  BY <1>1, <1>2, EventInv

LEMMA WisunReadyInv == ASSUME IInv, WisunBootstrapReady PROVE IInv'
<1>1. EventHandled /\ ifs' = ifs /\ metric' \in [IfIds -> Metrics]
  BY WisunReadyEffect
<1>2. QED
  BY <1>1, EventInv DEF IInv, TypeOK

LEMMA OtherStatusInv == ASSUME IInv, OtherStatus PROVE IInv'
<1>1. EventHandled /\ ifs' = ifs /\ metric' = metric
  BY OtherStatusEffect
<1>2. QED
  BY <1>1, EventInv DEF IInv, TypeOK, Metrics

-----------------------------------------------------------------------------
(* The rest of the actions.                                                *)

LEMMA SystemTimerInv == ASSUME IInv, SystemTimer PROVE IInv'
<1>1. /\ UNCHANGED <<ifs, wsVars, appq, nwkq, link, status_cb>>
      /\ timer' \in {"off", "armed", "fired"} /\ tasklet' = "running"
  BY DEF SystemTimer, eventOS_event_timer_request, driverVars, wsVars
<1>2. StartedInv'
  BY <1>1 DEF StartedInv
<1>3. QED
  BY <1>1, <1>2, QuietInv DEF IInv, TypeOK

\* The driver reports only once the tasklet runs: before it has no callback.
LEMMA LinkReportInv == ASSUME IInv, Driver_LinkReport PROVE IInv'
<1>1. /\ UNCHANGED <<ifs, wsVars, nwkq, timer, status_cb>>
      /\ link' \in {"up", "down"} /\ appq' \in Seq(AppEvents)
  BY LinkReported DEF IInv, TypeOK, Driver_LinkReport
<1>2. tasklet \in {"running", "halted"} /\ tasklet' = tasklet
  BY DEF IInv, TypeOK, StartedInv, Driver_LinkReport, LinkReport, wsVars
<1>3. StartedInv'
  BY <1>2 DEF StartedInv
<1>4. QED
  BY <1>1, <1>3, QuietInv DEF IInv, TypeOK

\* What the stack does to an interface on its own.
LEMMA StackEffect ==
    ASSUME IInv, NEW i \in IfIds, Stack(i)
    PROVE  /\ UNCHANGED <<appq, timer, link, status_cb, asserts, ws_conf, tasklet,
                          ws_br_handler, bbr, metric, mesh, ws_id, net_id>>
           /\ ifs[i].state # "idle"
           /\ ifs' \in [IfIds -> Interface]
           /\ \A j \in IfIds : ifs'[j].kind = ifs[j].kind /\ ifs'[j].route = ifs[j].route
           /\ \A j \in IfIds : j # i => ifs'[j] = ifs[j]
           /\ nwkq' \in Seq(Events)
           /\ \A event : InQueue(event, nwkq) => InQueue(event, nwkq')
           /\ ifs'[i].state = "ready" => InQueue(Ready(i), nwkq')
<1>1. /\ TypeOK /\ nwkq \in Seq(StackEvents)
      /\ UNCHANGED <<link, status_cb, asserts, ws_conf, tasklet,
                     ws_br_handler, bbr, metric, mesh, ws_id, net_id>>
  BY DEF IInv, TypeOK, Events, StackEvents, Stack, driverVars, wsVars, ws_id, net_id
<1>2. /\ UNCHANGED <<appq, timer>>
      /\ ifs[i].state # "idle"
      /\ ifs' \in [IfIds -> Interface]
      /\ ifs'[i].kind = ifs[i].kind /\ ifs'[i].route = ifs[i].route
      /\ \A j \in IfIds : j # i => ifs'[j] = ifs[j]
      /\ \E status \in Statuses :
            /\ nwkq' = Append(nwkq, [id |-> i, status |-> status])
            /\ ifs'[i].state = "ready" => status = "READY"
  BY <1>1, StackMoves DEF TypeOK, Stack
<1>3. PICK status \in Statuses :
        /\ nwkq' = Append(nwkq, [id |-> i, status |-> status])
        /\ ifs'[i].state = "ready" => status = "READY"
  BY <1>2
<1>4. /\ nwkq' \in Seq(Events)
      /\ InQueue([id |-> i, status |-> status], nwkq')
      /\ \A event : InQueue(event, nwkq) => InQueue(event, nwkq')
  BY <1>1, <1>3, Posted DEF Events, StackEvents
<1>5. QED
  BY <1>1, <1>2, <1>3, <1>4 DEF Ready

LEMMA StackInv == ASSUME IInv, NEW i \in IfIds, Stack(i) PROVE IInv'
<1>1. /\ UNCHANGED <<appq, timer, link, status_cb, asserts, ws_conf, tasklet,
                     ws_br_handler, bbr, metric, mesh, ws_id, net_id>>
      /\ ifs[i].state # "idle"
      /\ ifs' \in [IfIds -> Interface]
      /\ \A j \in IfIds : ifs'[j].kind = ifs[j].kind /\ ifs'[j].route = ifs[j].route
      /\ \A j \in IfIds : j # i => ifs'[j] = ifs[j]
      /\ nwkq' \in Seq(Events)
  BY StackEffect
<1>2. TypeOK'
  BY <1>1 DEF IInv, TypeOK
<1>3. StartedInv'
  <2>1. tasklet \notin {"off", "created", "exited"}
    BY <1>1 DEF IInv, StartedInv, Idle
  <2>2. QED
    BY <1>1, <2>1 DEF StartedInv
<1>4. KindInv' /\ NoOrphanInterface'
  BY <1>1 DEF IInv, KindInv, NoOrphanInterface
<1>5. BbrInv' /\ MeshInv'
  BY <1>1 DEF IInv, BbrInv, MeshInv, ServesBoth, CallsUpTo, IsMade
<1>6. QED
  BY <1>2, <1>3, <1>4, <1>5 DEF IInv

LEMMA TimerInv == ASSUME IInv, Timer PROVE IInv'
<1>1. /\ UNCHANGED <<ifs, wsVars, appq, nwkq, link, status_cb>>
      /\ timer' \in {"off", "armed", "fired"}
  BY DEF Timer, TimerFires, driverVars
<1>2. StartedInv'
  BY <1>1 DEF IInv, StartedInv, wsVars, ws_id, net_id
<1>3. QED
  BY <1>1, <1>2, QuietInv DEF IInv, TypeOK

LEMMA TaskletExitInv == ASSUME IInv, TaskletExit PROVE IInv'
<1>1. /\ UNCHANGED <<appq, nwkq, timer, link, status_cb, ifs, asserts, ws_conf,
                     ws_br_handler, bbr, metric, mesh, ws_id, net_id>>
      /\ tasklet = "created" /\ tasklet' = "exited"
  BY DEF TaskletExit, eventVars, driverVars, fixed, ws_id, net_id
<1>2. TypeOK' /\ StartedInv'
  BY <1>1 DEF IInv, TypeOK, StartedInv
<1>3. KindInv' /\ NoOrphanInterface'
  BY <1>1 DEF IInv, KindInv, NoOrphanInterface
<1>4. BbrInv' /\ MeshInv'
  BY <1>1 DEF IInv, BbrInv, MeshInv, ServesBoth, CallsUpTo, IsMade
<1>5. QED
  BY <1>2, <1>3, <1>4 DEF IInv

LEMMA StutterInv == ASSUME IInv, UNCHANGED vars PROVE IInv'
<1>1. StartedInv'
  BY DEF vars, wsVars, IInv, StartedInv, ws_id, net_id
<1>2. QED
  BY <1>1, QuietInv DEF vars, IInv, TypeOK

LEMMA Inductive == IInv /\ [Next]_vars => IInv'
BY StartInv, TaskletInitInv, TaskletExitInv, PhyDriverReadyInv, PhyDownInv,
   BackhaulReadyInv, WisunReadyInv, OtherStatusInv, SystemTimerInv,
   LinkReportInv, StackInv, TimerInv, StutterInv
DEF Next

LEMMA Invariance == Spec => []IInv
BY InitInv, Inductive, PTL DEF Spec

-----------------------------------------------------------------------------
(* Safety.                                                                 *)

\* Every variable has its type: ws_br_handler holds interfaces or results of a
\* failed init call, and the BBR is only ever given interfaces.
THEOREM TypeCorrect == Spec => []TypeOK
<1>1. IInv => TypeOK
  BY DEF IInv
<1>2. QED
  BY <1>1, Invariance, PTL

\* An Ethernet interface that runs or routes is the one net_interface_id names,
\* and is not the mesh: no failure code that backhaul_interface_up stores, and
\* no late event, ever hides one.
THEOREM NoOrphan == Spec => []NoOrphanInterface
<1>1. IInv => NoOrphanInterface
  BY DEF IInv
<1>2. QED
  BY <1>1, Invariance, PTL

\* A mesh that is up was given every option of the build that has a meaning
\* (wisun_interface_up), for each of the combinations of the options; and
\* where assertions halt the program no mesh stays half configured.
THEOREM MeshConfigured == Spec => []MeshMatchesConfig
<1>1. IInv => MeshMatchesConfig
  <2>1. ASSUME IInv, mesh.up, NEW option \in ws_conf, Selected(option)
        PROVE  Reaches(option)
    <3>1. ws_conf \subseteq WsOptions
      BY <2>1, WsAssumption DEF IInv, TypeOK
    <3>2. mesh.calls = CallsUpTo(Len(CallOrder))
      BY <2>1 DEF IInv, MeshInv
    <3>3. QED
      BY <2>1, <3>1, <3>2, OptionReaches
  <2>2. QED
    BY <2>1 DEF IInv, MeshInv, MeshMatchesConfig
<1>2. QED
  BY <1>1, Invariance, PTL

-----------------------------------------------------------------------------
(* The link is followed.                                                   *)

LEMMA LinkStep ==
    ASSUME "event_send" \notin MayFail, IInv, LinkInv, [Next]_vars
    PROVE  LinkInv'
<1> SUFFICES ASSUME tasklet' = "running"
             PROVE  /\ NewestTellsLink' /\ LinkViewConverges'
                    /\ asserts' \/ "ethernet_init" \notin MayFail =>
                          net_id' \in IfIds \cup {-1}
  BY DEF LinkInv
<1> appq \in Seq(AppEvents)
  BY DEF IInv, TypeOK
<1>1. CASE PhyDriverReady
  <2>1. NewestTellsLink' /\ (appq' = <<>> => link' = "up")
    BY <1>1, ReportHandled
    DEF LinkInv, PhyDriverReady, Receive, Report, driverVars
  <2>2. link' = "up" => link' # "down"
    OBVIOUS
  <2>3. ASSUME asserts' \/ "ethernet_init" \notin MayFail PROVE net_id' \in IfIds
    <3>1. asserts' = asserts /\ tasklet = "running"
      BY <1>1, PhyDriverReadyEffect
    <3>2. CASE net_id' = net_id /\ net_id # -1
      BY <2>3, <3>1, <3>2 DEF LinkInv
    <3>3. CASE \E id \in IfIds : NewBackhaul(id)
      BY <3>3 DEF NewBackhaul
    <3>4. CASE NoBackhaul
      BY <2>3, <3>1, <3>4 DEF NoBackhaul, AfterAssert
    <3>5. QED
      BY <1>1, <3>2, <3>3, <3>4, PhyDriverReadyEffect
  <2>4. QED
    BY <2>1, <2>2, <2>3, InterfaceIds DEF LinkViewConverges
<1>2. CASE PhyDown
  <2>1. NewestTellsLink' /\ (appq' = <<>> => link' # "up")
    BY <1>2, ReportHandled DEF LinkInv, PhyDown, Receive, Report, driverVars
  <2>2. net_id' = -1
    BY <1>2, PhyDownEffect
  <2>3. QED
    BY <2>1, <2>2 DEF LinkViewConverges
<1>3. CASE Driver_LinkReport
  <2>1. appq' # <<>> /\ NewestTellsLink'
    BY <1>3, LinkReported DEF Driver_LinkReport
  <2>2. UNCHANGED <<asserts, tasklet, net_id>>
    BY <1>3 DEF Driver_LinkReport, wsVars, net_id
  <2>3. QED
    BY <2>1, <2>2 DEF LinkInv, LinkViewConverges
<1>4. CASE TaskletInit
  <2>1. appq = <<>> /\ link = "down" /\ net_id = -1
    BY <1>4 DEF IInv, StartedInv, TaskletInit
  <2>2. NewestTellsLink' /\ (appq' = <<>> => link' = "down")
    BY <1>4, <2>1, DriverStarted DEF TaskletInit
  <2>3. net_id' = -1
    BY <1>4, <2>1 DEF TaskletInit, net_id
  <2>4. QED
    BY <2>2, <2>3 DEF LinkViewConverges
<1>5. CASE border_router_tasklet_start \/ TaskletExit
  BY <1>5 DEF border_router_tasklet_start, wisun_rf_init, TaskletExit
<1>6. CASE BackhaulBootstrapReady \/ WisunBootstrapReady \/ OtherStatus
  <2>1. EventHandled /\ link' = link
    BY <1>6, BackhaulReadyEffect, WisunReadyEffect, OtherStatusEffect
    DEF EventHandled
  <2>2. QED
    BY <2>1 DEF EventHandled, LinkInv, NewestTellsLink, LinkViewConverges
<1>7. CASE SystemTimer \/ (\E i \in IfIds : Stack(i)) \/ Timer \/ UNCHANGED vars
  <2>1. UNCHANGED <<link, appq, asserts, tasklet, net_id>>
    BY <1>7 DEF SystemTimer, Stack, BootstrapReady, BootstrapFailed,
       ConnectionLost, Timer, TimerFires, vars, wsVars, driverVars, net_id
  <2>2. QED
    BY <2>1 DEF LinkInv, NewestTellsLink, LinkViewConverges
<1>8. QED
  BY <1>1, <1>2, <1>3, <1>4, <1>5, <1>6, <1>7 DEF Next

\* Where eventOS_event_send does not fail, a tasklet that has handled every
\* report of the driver has followed the link: neither an id nor the failure
\* code of an earlier init (backhaul_interface_up) outlives a link that is
\* down, so the next report tries again.
THEOREM LinkFollowed ==
    ASSUME "event_send" \notin MayFail
    PROVE  Spec => []LinkViewConverges
<1>1. Init => LinkInv
  BY DEF Init, LinkInv
<1>2. IInv /\ LinkInv /\ [Next]_vars => LinkInv'
  BY LinkStep
<1>3. LinkInv => LinkViewConverges
  BY DEF LinkInv, LinkViewConverges
<1>4. QED
  BY <1>1, <1>2, <1>3, Invariance, PTL DEF Spec

-----------------------------------------------------------------------------
(* What is ready is in service.                                            *)

LEMMA ReadyStep ==
    ASSUME "set_metric" \notin MayFail, "route_add" \notin MayFail,
           IInv, ReadyInv, [Next]_vars
    PROVE  ReadyInv'
<1> SUFFICES ASSUME tasklet' = "running" PROVE ReadyInv'
  BY DEF ReadyInv
<1> DEFINE Served == /\ metric[net_id] = HighPriority
                     /\ ~Autonomous => ifs[net_id].route
           BackhaulPart == BackhaulReady => Served \/ InQueue(Ready(net_id), nwkq)
           MeshPart == MeshReady => metric[ws_id] = MESH_METRIC
                                    \/ InQueue(Ready(ws_id), nwkq)
<1>1. (tasklet = "running" => BackhaulPart /\ MeshPart)
      /\ (BackhaulPart' /\ MeshPart' => ReadyInv')
  BY DEF ReadyInv
<1>2. /\ mesh.up => ws_id \in IfIds
      /\ net_id \in IfIds => net_id # ws_id
  BY DEF IInv, KindInv
<1>3. CASE PhyDriverReady
  <2>1. UNCHANGED <<nwkq, mesh>> /\ tasklet = "running"
    BY <1>3, PhyDriverReadyEffect
  <2>2. CASE UNCHANGED <<tasklet, ifs, ws_br_handler, bbr, metric, ws_id, net_id>>
    BY <1>1, <2>1, <2>2 DEF BackhaulReady, HasBackhaul, MeshReady
  <2>3. ASSUME NEW id \in IfIds, NewBackhaul(id) PROVE ReadyInv'
    <3>1. ~BackhaulReady'
      BY <2>3 DEF BackhaulReady, HasBackhaul, NewBackhaul
    <3>2. MeshPart'
      BY <1>1, <1>2, <2>1, <2>3 DEF MeshReady, NewBackhaul, HandlerStored
    <3>3. QED
      BY <1>1, <3>1, <3>2
  <2>4. CASE NoBackhaul
    <3>1. ~BackhaulReady'
      BY <2>4, InterfaceIds DEF BackhaulReady, HasBackhaul, NoBackhaul
    <3>2. MeshPart'
      BY <1>1, <2>1, <2>4 DEF MeshReady, NoBackhaul, HandlerStored
    <3>3. QED
      BY <1>1, <3>1, <3>2
  <2>5. QED
    BY <1>3, <2>2, <2>3, <2>4, PhyDriverReadyEffect
<1>4. CASE PhyDown
  <2>1. ~BackhaulReady'
    BY <1>4, PhyDownEffect, InterfaceIds DEF BackhaulReady, HasBackhaul
  <2>2. /\ tasklet = "running" /\ UNCHANGED <<mesh, metric, ws_id>>
        /\ \A j \in IfIds : j # net_id => ifs'[j] = ifs[j]
        /\ InQueue(Ready(ws_id), nwkq) => InQueue(Ready(ws_id), nwkq')
    BY <1>4, PhyDownEffect
  <2>3. MeshReady' => MeshReady
    BY <1>2, <2>2 DEF MeshReady
  <2>4. MeshPart'
    BY <1>1, <2>2, <2>3
  <2>5. QED
    BY <1>1, <2>1, <2>4
<1>5. CASE BackhaulBootstrapReady
  <2>1. EventHandled /\ net_id \in IfIds /\ Head(nwkq) = Ready(net_id)
    BY <1>5, BackhaulReadyEffect
  <2>2. BackhaulPart'
    BY <1>5, <2>1, BackhaulReadyEffect DEF EventHandled
  <2>3. Ready(ws_id) # Head(nwkq)
    BY <1>2, <2>1 DEF Ready
  <2>4. MeshReady' => MeshReady /\ metric'[ws_id] = metric[ws_id]
    BY <1>2, <1>5, <2>1, BackhaulReadyEffect DEF MeshReady, EventHandled
  <2>5. MeshPart'
    BY <1>1, <2>1, <2>3, <2>4 DEF EventHandled
  <2>6. QED
    BY <1>1, <2>2, <2>5
<1>6. CASE WisunBootstrapReady
  <2>1. EventHandled /\ ifs' = ifs /\ Head(nwkq).id # net_id
    BY <1>6, WisunReadyEffect
  <2>2. MeshPart'
    BY <1>2, <1>6, <2>1, WisunReadyEffect DEF MeshReady, EventHandled
  <2>3. Ready(net_id) # Head(nwkq)
    BY <2>1 DEF Ready
  <2>4. BackhaulReady' => BackhaulReady /\ metric'[net_id] = metric[net_id]
    BY <1>2, <1>6, <2>1, WisunReadyEffect DEF BackhaulReady, HasBackhaul, EventHandled
  <2>5. BackhaulPart'
    BY <1>1, <2>1, <2>3, <2>4 DEF EventHandled
  <2>6. QED
    BY <1>1, <2>2, <2>5
<1>7. CASE OtherStatus
  <2>1. /\ EventHandled /\ ifs' = ifs /\ metric' = metric
        /\ \A id : Head(nwkq) # Ready(id)
    BY <1>7, OtherStatusEffect
  <2>2. /\ InQueue(Ready(net_id), nwkq) => InQueue(Ready(net_id), nwkq')
        /\ InQueue(Ready(ws_id), nwkq) => InQueue(Ready(ws_id), nwkq')
    BY <2>1 DEF EventHandled
  <2>3. QED
    BY <1>1, <2>1, <2>2
    DEF EventHandled, BackhaulReady, HasBackhaul, MeshReady
<1>8. ASSUME NEW i \in IfIds, Stack(i) PROVE ReadyInv'
  <2>1. /\ UNCHANGED <<tasklet, metric, mesh, ws_id, net_id>>
        /\ \A j \in IfIds : ifs'[j].route = ifs[j].route
        /\ \A j \in IfIds : j # i => ifs'[j] = ifs[j]
        /\ \A event : InQueue(event, nwkq) => InQueue(event, nwkq')
        /\ ifs'[i].state = "ready" => InQueue(Ready(i), nwkq')
    BY <1>8, StackEffect
  <2>2. BackhaulPart'
    BY <1>1, <2>1 DEF BackhaulReady, HasBackhaul
  <2>3. MeshPart'
    BY <1>1, <1>2, <2>1 DEF MeshReady
  <2>4. QED
    BY <1>1, <2>2, <2>3
<1>9. CASE TaskletInit
  <2>1. mesh = NoMesh /\ net_id = -1
    BY <1>9 DEF IInv, StartedInv, TaskletInit
  <2>2. net_id' = net_id /\ ws_id' = ws_id
    BY <1>9 DEF TaskletInit, net_id, ws_id
  <2>3. ~BackhaulReady'
    BY <2>1, <2>2, InterfaceIds DEF BackhaulReady, HasBackhaul
  <2>4. ~MeshReady'
    <3>1. CASE ~mesh'.up
      BY <3>1 DEF MeshReady
    <3>2. CASE /\ ws_id \in IfIds
               /\ ifs' = [ifs EXCEPT ![ws_id] = InterfaceUp("lowpan", Unspecified)]
      <4>1. ifs'[ws_id] = InterfaceUp("lowpan", Unspecified)
        BY <3>2 DEF IInv, TypeOK
      <4>2. QED
        BY <2>2, <4>1 DEF MeshReady, InterfaceUp, Idle
    <3>3. QED
      BY <1>9, <2>1, <3>1, <3>2, MeshEffect DEF IInv, TaskletInit
  <2>5. QED
    BY <1>1, <2>3, <2>4
<1>10. CASE border_router_tasklet_start \/ TaskletExit
  BY <1>10 DEF border_router_tasklet_start, wisun_rf_init, TaskletExit
<1>11. CASE SystemTimer \/ Driver_LinkReport \/ Timer \/ UNCHANGED vars
  <2>1. UNCHANGED <<tasklet, ifs, metric, mesh, ws_id, net_id, nwkq>>
    BY <1>11 DEF SystemTimer, Driver_LinkReport, LinkReport, Timer, TimerFires,
       vars, wsVars, ws_id, net_id
  <2>2. QED
    BY <1>1, <2>1 DEF BackhaulReady, HasBackhaul, MeshReady
<1>12. QED
  BY <1>3, <1>4, <1>5, <1>6, <1>7, <1>8, <1>9, <1>10, <1>11 DEF Next

\* Where the stack accepts metrics and routes: once its events are handled, a
\* bootstrapped backhaul has the priority over the mesh, its route and the BBR,
\* and a bootstrapped mesh its low metric (network_interface_event_handler and
\* mesh_network_status_handler), whatever stale events of earlier backhauls came
\* between and on whichever id they came.
THEOREM InServiceOnceReady ==
    ASSUME "set_metric" \notin MayFail, "route_add" \notin MayFail
    PROVE  Spec => []ReadyIsInService
<1>1. Init => ReadyInv
  BY DEF Init, ReadyInv
<1>2. IInv /\ ReadyInv /\ [Next]_vars => ReadyInv'
  BY ReadyStep
<1>3. IInv /\ ReadyInv => ReadyIsInService
  <2>1. SUFFICES ASSUME IInv, ReadyInv, tasklet = "running", nwkq = <<>>
                 PROVE  /\ BackhaulReady => InService
                        /\ MeshReady => metric[ws_id] = MESH_METRIC
    BY DEF ReadyIsInService
  <2>2. \A event : ~InQueue(event, nwkq)
    BY <2>1 DEF InQueue
  <2>3. HasBackhaul /\ ws_id > -1 => bbr = ws_br_handler
    BY <2>1, InterfaceIds DEF HasBackhaul, IInv, BbrInv, ServesBoth, ws_id, net_id
  <2>4. QED
    BY <2>1, <2>2, <2>3 DEF ReadyInv, InService, BackhaulReady
<1>4. QED
  BY <1>1, <1>2, <1>3, Invariance, PTL DEF Spec

-----------------------------------------------------------------------------
(* The service.                                                            *)

ServiceStep == [Service!ServiceNext]_(Service!svcVars)

LEMMA ServiceStutters ==
    ASSUME serviceBackhaul' = serviceBackhaul, mesh'.up = mesh.up
    PROVE  ServiceStep
BY DEF ServiceStep, Service!svcVars

LEMMA NextStep == ASSUME IInv, [Next]_vars PROVE ServiceStep
<1>1. net_id \in IfIds => net_id # ws_id
  BY DEF IInv, KindInv
<1>2. CASE PhyDriverReady
  <2>1. mesh' = mesh
    BY <1>2, PhyDriverReadyEffect
  <2>2. CASE UNCHANGED <<metric, net_id>>
    BY <2>1, <2>2, ServiceStutters DEF serviceBackhaul, HasBackhaul
  <2>3. ASSUME NEW id \in IfIds, NewBackhaul(id) PROVE ServiceStep
    <3>1. serviceBackhaul = "down"
      BY <2>3, InterfaceIds DEF serviceBackhaul, HasBackhaul, NewBackhaul
    <3>2. serviceBackhaul' = "bootstrapping"
      BY <2>3 DEF serviceBackhaul, HasBackhaul, NewBackhaul, Unset, HighPriority
    <3>3. QED
      BY <2>1, <3>1, <3>2 DEF ServiceStep, Service!ServiceNext,
         Service!BackhaulStarts
  <2>4. CASE NoBackhaul
    <3>1. serviceBackhaul' = serviceBackhaul
      BY <2>4, InterfaceIds DEF NoBackhaul, serviceBackhaul, HasBackhaul
    <3>2. QED
      BY <2>1, <3>1, ServiceStutters
  <2>5. QED
    BY <1>2, <2>2, <2>3, <2>4, PhyDriverReadyEffect
<1>3. CASE PhyDown
  <2>1. serviceBackhaul' = "down" /\ mesh' = mesh
    BY <1>3, PhyDownEffect, InterfaceIds DEF serviceBackhaul, HasBackhaul
  <2>2. QED
    BY <2>1 DEF ServiceStep, Service!svcVars, Service!ServiceNext,
       Service!BackhaulStops
<1>4. CASE BackhaulBootstrapReady
  <2>1. /\ net_id \in IfIds /\ net_id' = net_id /\ mesh' = mesh
        /\ metric'[net_id] \in {HighPriority, metric[net_id]}
    BY <1>4, BackhaulReadyEffect DEF EventHandled
  <2>2. serviceBackhaul # "down" /\ serviceBackhaul' \in {"connected", serviceBackhaul}
    BY <2>1 DEF serviceBackhaul, HasBackhaul
  <2>3. QED
    BY <2>1, <2>2 DEF ServiceStep, Service!svcVars, Service!ServiceNext,
       Service!BackhaulConnects
<1>5. CASE WisunBootstrapReady
  <2>1. /\ net_id' = net_id /\ mesh' = mesh
        /\ net_id \in IfIds => metric'[net_id] = metric[net_id]
    BY <1>1, <1>5, WisunReadyEffect DEF EventHandled
  <2>2. QED
    BY <2>1, ServiceStutters DEF serviceBackhaul, HasBackhaul
<1>6. CASE TaskletInit
  <2>1. mesh = NoMesh /\ UNCHANGED <<metric, net_id>>
    BY <1>6 DEF IInv, StartedInv, TaskletInit, net_id
  <2>2. serviceBackhaul' = serviceBackhaul /\ ~mesh.up
    BY <2>1 DEF serviceBackhaul, HasBackhaul, NoMesh
  <2>3. QED
    BY <2>2 DEF ServiceStep, Service!svcVars, Service!ServiceNext,
       Service!MeshStartsAlone
<1>7. CASE border_router_tasklet_start
  <2>1. UNCHANGED <<metric, mesh>> /\ net_id = -1
    BY <1>7 DEF IInv, StartedInv, border_router_tasklet_start
  <2>2. net_id' = -1
    <3>1. \/ ws_br_handler' = InitHandler
          \/ \E id : ws_br_handler' = [InitHandler EXCEPT !.ws_interface_id = id]
      BY <1>7 DEF border_router_tasklet_start, wisun_rf_init, SetHandler
    <3>2. QED
      BY <3>1 DEF InitHandler, net_id
  <2>3. serviceBackhaul' = serviceBackhaul
    BY <2>1, <2>2, InterfaceIds DEF serviceBackhaul, HasBackhaul
  <2>4. QED
    BY <2>1, <2>3, ServiceStutters
<1>8. CASE \/ TaskletExit \/ OtherStatus \/ SystemTimer \/ Driver_LinkReport
           \/ (\E i \in IfIds : Stack(i)) \/ Timer \/ UNCHANGED vars
  <2>1. UNCHANGED <<metric, mesh, net_id>>
    BY <1>8 DEF TaskletExit, OtherStatus, SystemTimer, Driver_LinkReport, Stack,
       Timer, vars, wsVars, net_id
  <2>2. QED
    BY <2>1, ServiceStutters DEF serviceBackhaul, HasBackhaul
<1>9. QED
  BY <1>2, <1>3, <1>4, <1>5, <1>6, <1>7, <1>8 DEF Next

\* The tasklet implements the border router service: whatever fails, and in
\* whatever order events come, the backhaul goes down -> bootstrapping ->
\* connected -> down, and the mesh, which does not wait for it, starts once.
THEOREM Refinement == Spec => RefinesService
<1>1. Init => Service!ServiceInit
  BY InterfaceIds DEF Init, InitHandler, NoMesh, net_id, HasBackhaul,
     Service!ServiceInit, serviceBackhaul
<1>2. IInv /\ [Next]_vars => [Service!ServiceNext]_(Service!svcVars)
  BY NextStep DEF ServiceStep
<1>3. QED
  BY <1>1, <1>2, Invariance, PTL DEF Spec, RefinesService, Service!ServiceSpec
=============================================================================
