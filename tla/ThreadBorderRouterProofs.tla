----------------------- MODULE ThreadBorderRouterProofs -----------------------
(***************************************************************************)
(* What holds of ThreadBorderRouter for every number of interfaces, every  *)
(* failure and both kinds of build.                                        *)
(***************************************************************************)
EXTENDS ThreadBorderRouter, StackLemmas, MetricLemmas

-----------------------------------------------------------------------------
(* The inductive invariant.                                                *)

\* Until the tasklet is initialised nothing has happened.
StartedInv ==
    tasklet \in {"off", "created", "exited"} =>
        /\ appq = <<>> /\ link = "down" /\ ~status_cb
        /\ thread_br_handler = InitHandler /\ bbr = NotStarted
        /\ ~mesh_up
        /\ \A i \in IfIds : ifs[i] = Idle("free")

\* The ids of the handler name interfaces of the right kind, and a mesh that is
\* up has an interface.
KindInv ==
    /\ eth_id \in IfIds => ifs[eth_id].kind = "eth"
    /\ thread_id \in IfIds => ifs[thread_id].kind = "lowpan"
    /\ mesh_up => thread_id \in IfIds

IInv ==
    /\ TypeOK /\ StartedInv /\ KindInv
    /\ BbrServesCurrentPair /\ NoOrphanInterface

\* With no event lost, the newest report in the queue tells the link's state,
\* and an empty queue means that the tasklet has caught up with it.
LinkInv == tasklet = "running" => NewestTellsLink /\ LinkViewConverges

Ready(id) == [id |-> id, status |-> "READY"]

\* An interface that is ready has got what its READY handler gives it, or its
\* READY is still to be handled.
ReadyInv ==
    tasklet = "running" =>
        /\ BackhaulReady => InService \/ InQueue(Ready(eth_id), nwkq)
        /\ MeshReady =>
              metric[thread_id] = MESH_METRIC \/ InQueue(Ready(thread_id), nwkq)

Handlers == [thread_interface_id : IfIds \cup {-1},
             eth_interface_id : IfIds \cup {-1},
             eth_connection_ready : BOOLEAN,
             thread_connection_ready : BOOLEAN]
Pairs == [thread : IfIds \cup {-1}, eth : IfIds \cup {-1}]

-----------------------------------------------------------------------------
(* The connection handler.                                                 *)

\* The common end of the id setters keeps the types, and the BBR serves the
\* new pair.
LEMMA HandlerSet ==
    ASSUME NEW handler \in Handlers, bbr \in Pairs, SetHandler(handler)
    PROVE  /\ thread_br_handler' = handler /\ bbr' \in Pairs
           /\ thread_id' > -1 /\ eth_id' > -1 =>
                 bbr' = [thread |-> thread_id', eth |-> eth_id']
<1>1. /\ handler.thread_interface_id \in IfIds \cup {-1}
      /\ handler.eth_interface_id \in IfIds \cup {-1}
  BY DEF Handlers
<1>2. QED
  BY <1>1 DEF SetHandler, Pairs, thread_id, eth_id

\* What each operation of the handler does to its fields.
LEMMA ThreadIdSet ==
    ASSUME TypeOK, NEW id \in IfIds, thread_interface_id_set(id)
    PROVE  /\ thread_br_handler' \in Handlers /\ bbr' \in Pairs
           /\ thread_id' = id /\ eth_id' = eth_id
           /\ thread_br_handler'.eth_connection_ready = thread_br_handler.eth_connection_ready
           /\ thread_id' > -1 /\ eth_id' > -1 =>
                 bbr' = [thread |-> thread_id', eth |-> eth_id']
<1> DEFINE h == [thread_br_handler EXCEPT !.thread_interface_id = id]
<1>1. thread_br_handler \in Handlers /\ bbr \in Pairs
  BY DEF TypeOK, Handlers, Pairs
<1>2. h \in Handlers /\ SetHandler(h)
  BY <1>1, InterfaceIds DEF thread_interface_id_set, Handlers
<1>3. thread_id' = thread_br_handler'.thread_interface_id
      /\ eth_id' = thread_br_handler'.eth_interface_id
  BY DEF thread_id, eth_id
<1>4. h.thread_interface_id = id /\ h.eth_interface_id = eth_id
      /\ h.eth_connection_ready = thread_br_handler.eth_connection_ready
  BY <1>1 DEF Handlers, thread_id, eth_id
<1> HIDE DEF h
<1>5. QED
  BY <1>1, <1>2, <1>3, <1>4, HandlerSet

LEMMA EthIdSet ==
    ASSUME TypeOK, NEW id \in IfIds, eth_interface_id_set(id)
    PROVE  /\ thread_br_handler' \in Handlers /\ bbr' \in Pairs
           /\ thread_id' = thread_id /\ eth_id' = id
           /\ thread_br_handler'.eth_connection_ready = thread_br_handler.eth_connection_ready
           /\ thread_id' > -1 /\ eth_id' > -1 =>
                 bbr' = [thread |-> thread_id', eth |-> eth_id']
<1> DEFINE h == [thread_br_handler EXCEPT !.eth_interface_id = id]
<1>1. thread_br_handler \in Handlers /\ bbr \in Pairs
  BY DEF TypeOK, Handlers, Pairs
<1>2. h \in Handlers /\ SetHandler(h)
  BY <1>1, InterfaceIds DEF eth_interface_id_set, Handlers
<1>3. thread_id' = thread_br_handler'.thread_interface_id
      /\ eth_id' = thread_br_handler'.eth_interface_id
  BY DEF thread_id, eth_id
<1>4. h.thread_interface_id = thread_id /\ h.eth_interface_id = id
      /\ h.eth_connection_ready = thread_br_handler.eth_connection_ready
  BY <1>1 DEF Handlers, thread_id, eth_id
<1> HIDE DEF h
<1>5. QED
  BY <1>1, <1>2, <1>3, <1>4, HandlerSet

LEMMA EthGone ==
    ASSUME TypeOK, eth_interface_gone
    PROVE  /\ thread_br_handler' \in Handlers /\ bbr' \in Pairs
           /\ thread_id' = thread_id /\ eth_id' = -1
           /\ ~thread_br_handler'.eth_connection_ready
<1> DEFINE h == [thread_br_handler EXCEPT !.eth_interface_id = -1,
                                        !.eth_connection_ready = FALSE]
<1>1. thread_br_handler \in Handlers /\ bbr \in Pairs
  BY DEF TypeOK, Handlers, Pairs
<1>2. h \in Handlers /\ SetHandler(h)
  BY <1>1, InterfaceIds DEF eth_interface_gone, Handlers
<1>3. thread_id' = thread_br_handler'.thread_interface_id
      /\ eth_id' = thread_br_handler'.eth_interface_id
  BY DEF thread_id, eth_id
<1>4. h.thread_interface_id = thread_id /\ h.eth_interface_id = -1
      /\ ~h.eth_connection_ready
  BY <1>1 DEF Handlers, thread_id, eth_id
<1> HIDE DEF h
<1>5. QED
  BY <1>1, <1>2, <1>3, <1>4, HandlerSet

\* The two connection updates keep the ids and the BBR.
LEMMA ConnectionUpdated ==
    ASSUME TypeOK, NEW b \in BOOLEAN,
           thread_connection_update(b) \/ ethernet_connection_update(b)
    PROVE  /\ thread_br_handler' \in Handlers /\ bbr' = bbr
           /\ thread_id' = thread_id /\ eth_id' = eth_id
           /\ thread_connection_update(b) =>
                 thread_br_handler'.eth_connection_ready = thread_br_handler.eth_connection_ready
           /\ ethernet_connection_update(b) =>
                 thread_br_handler'.eth_connection_ready = b
<1>1. thread_br_handler \in Handlers
  BY DEF TypeOK, Handlers
<1>2. QED
  BY <1>1 DEF thread_connection_update, ethernet_connection_update, Handlers,
     thread_id, eth_id

-----------------------------------------------------------------------------
(* Every action preserves the invariant.                                   *)

LEMMA InitInv == Init => IInv
<1> SUFFICES ASSUME Init PROVE IInv
  OBVIOUS
<1>1. Idle("free") \in Interface
  BY NewInterface, InterfaceIds DEF AnyPrefix
<1>2. /\ ifs \in [IfIds -> Interface] /\ \A i \in IfIds : ifs[i] = Idle("free")
      /\ metric \in [IfIds -> Metrics]
  BY <1>1, MetricStarts DEF Init, StackInit
<1>3. /\ appq = <<>> /\ nwkq = <<>> /\ timer = "off"
      /\ link = "down" /\ status_cb = FALSE
      /\ thread_br_handler = InitHandler /\ bbr = NotStarted
      /\ asserts \in Builds /\ tasklet = "off" /\ ~api /\ api \in BOOLEAN
      /\ ~mesh_up /\ mesh_up \in BOOLEAN
  BY DEF Init, EventOSInit, DriverInit
<1>4. thread_id = -1 /\ eth_id = -1 /\ ~thread_br_handler.eth_connection_ready
  BY <1>3 DEF thread_id, eth_id, InitHandler
<1>5. TypeOK
  <2>1. thread_br_handler \in Handlers /\ bbr \in Pairs
    BY <1>3 DEF Handlers, Pairs, InitHandler, NotStarted
  <2>2. appq \in Seq(AppEvents) /\ nwkq \in Seq(Events)
    BY <1>3
  <2>3. QED
    BY <1>2, <1>3, <2>1, <2>2 DEF TypeOK, Handlers, Pairs
<1>6. StartedInv /\ KindInv /\ NoOrphanInterface
  BY <1>2, <1>3, <1>4, InterfaceIds DEF StartedInv, KindInv, NoOrphanInterface, Idle
<1>7. BbrServesCurrentPair
  BY <1>3, <1>4 DEF BbrServesCurrentPair
<1>8. QED
  BY <1>5, <1>6, <1>7 DEF IInv

\* Steps that keep the interfaces, the handler and the tasklet's own state.
LEMMA QuietInv ==
    ASSUME IInv, UNCHANGED <<ifs, metric, connVars, meshVars>>,
           appq' \in Seq(AppEvents), nwkq' \in Seq(Events),
           timer' \in {"off", "armed", "fired"},
           link' \in {"up", "down"}, status_cb' \in BOOLEAN,
           StartedInv'
    PROVE  IInv'
<1>1. TypeOK' /\ KindInv' /\ NoOrphanInterface'
  BY DEF IInv, TypeOK, KindInv, NoOrphanInterface, connVars, meshVars,
     thread_id, eth_id
<1>2. BbrServesCurrentPair'
  BY DEF IInv, BbrServesCurrentPair, connVars, meshVars,
     thread_id, eth_id
<1>3. QED
  BY <1>1, <1>2 DEF IInv

LEMMA StartInv == ASSUME IInv, border_router_tasklet_start PROVE IInv'
<1>1. UNCHANGED <<appq, nwkq, timer, link, status_cb, ifs, metric,
                  thread_br_handler, bbr, asserts, mesh_up>>
  BY DEF border_router_tasklet_start, eventVars, driverVars, connVars
<1>2. /\ tasklet' \in {"created", "halted"} /\ api' \in BOOLEAN
  BY DEF border_router_tasklet_start
<1>3. TypeOK'
  BY <1>1, <1>2 DEF IInv, TypeOK
<1>4. StartedInv' /\ KindInv' /\ NoOrphanInterface'
  BY <1>1, <1>2 DEF IInv, StartedInv, KindInv, NoOrphanInterface,
     border_router_tasklet_start, thread_id, eth_id
<1>5. BbrServesCurrentPair'
  BY <1>1, <1>2 DEF IInv, BbrServesCurrentPair, thread_id, eth_id
<1>6. QED
  BY <1>3, <1>4, <1>5 DEF IInv

\* The mesh's interface: a new one of its kind, and the handler told of it or
\* not.
LEMMA MeshInterfaceEffect ==
    ASSUME TypeOK, thread_br_handler = InitHandler, bbr = NotStarted,
           NEW id \in IfIds, MeshInterface(id)
    PROVE  /\ ifs' \in [IfIds -> Interface]
           /\ ifs'[id].kind = "lowpan"
           /\ \A j \in IfIds : j # id => ifs'[j] = ifs[j]
           /\ thread_br_handler' \in Handlers /\ bbr' \in Pairs
           /\ eth_id' = -1 /\ thread_id' \in {id, -1}
           /\ ~thread_br_handler'.eth_connection_ready
           /\ mesh_up' \in {mesh_up, TRUE}
           /\ mesh_up' => mesh_up \/ (thread_id' = id /\ ifs'[id].state = "bootstrap")
           /\ tasklet' \in {"running", "halted"}
<1>1. eth_id = -1 /\ thread_id = -1 /\ ~thread_br_handler.eth_connection_ready
      /\ thread_br_handler \in Handlers /\ bbr \in Pairs
  BY DEF eth_id, thread_id, InitHandler, NotStarted, Handlers, Pairs
<1>2. PICK new \in Interface :
        new.kind = "lowpan" /\ ifs' = [ifs EXCEPT ![id] = new]
  <2>1. /\ Idle("lowpan") \in Interface /\ Idle("lowpan").kind = "lowpan"
        /\ InterfaceUp("lowpan", Unspecified) \in Interface
        /\ InterfaceUp("lowpan", Unspecified).kind = "lowpan"
    BY NewInterface, InterfaceIds DEF Idle, InterfaceUp
  <2>2. QED
    BY <2>1 DEF MeshInterface
<1>3. /\ ifs' \in [IfIds -> Interface] /\ ifs'[id] = new
      /\ \A j \in IfIds : j # id => ifs'[j] = ifs[j]
  BY <1>2, Replaced DEF TypeOK
<1>4. tasklet' \in {"running", "halted"} /\ mesh_up' \in {mesh_up, TRUE}
  BY DEF MeshInterface, AfterAssert
<1>5. mesh_up' => mesh_up \/ (thread_interface_id_set(id) /\ ifs'[id].state = "bootstrap")
  BY <1>3 DEF MeshInterface, InterfaceUp, Idle
<1>6. CASE thread_interface_id_set(id)
  <2>1. /\ thread_br_handler' \in Handlers /\ bbr' \in Pairs
        /\ eth_id' = -1 /\ thread_id' = id
        /\ ~thread_br_handler'.eth_connection_ready
    BY <1>1, <1>6, ThreadIdSet
  <2>2. QED
    BY <1>2, <1>3, <1>4, <1>5, <2>1
<1>7. CASE UNCHANGED connVars /\ UNCHANGED mesh_up
  BY <1>1, <1>2, <1>3, <1>4, <1>7 DEF connVars, thread_id, eth_id
<1>8. QED
  BY <1>6, <1>7 DEF MeshInterface

LEMMA TaskletInitInv == ASSUME IInv, TaskletInit PROVE IInv'
<1>1. /\ TypeOK /\ appq = <<>> /\ link = "down" /\ ~mesh_up
      /\ thread_br_handler = InitHandler /\ bbr = NotStarted
      /\ \A i \in IfIds : ifs[i].kind = "free"
  BY DEF IInv, StartedInv, TaskletInit, Idle
<1>2. /\ appq' \in Seq(AppEvents) /\ link' \in {"up", "down"}
      /\ status_cb' \in BOOLEAN /\ timer' \in {"off", "armed", "fired"}
      /\ UNCHANGED <<nwkq, metric, asserts, api>>
  BY <1>1, DriverStarted DEF TaskletInit, TypeOK, eventOS_event_timer_request
<1>3. CASE /\ ~api \/ "lowpan_init" \in MayFail
           /\ tasklet' = AfterAssert
           /\ UNCHANGED <<ifs, mesh_up, connVars>>
  <2>1. thread_id' = -1 /\ eth_id' = -1 /\ thread_br_handler' = InitHandler
        /\ bbr' = bbr /\ ~thread_br_handler'.eth_connection_ready
    BY <1>1, <1>3 DEF connVars, thread_id, eth_id, InitHandler
  <2>2. TypeOK'
    BY <1>1, <1>2, <1>3 DEF TypeOK, AfterAssert, connVars
  <2>3. StartedInv' /\ KindInv' /\ NoOrphanInterface'
    BY <1>1, <1>3, <2>1, InterfaceIds
    DEF StartedInv, KindInv, NoOrphanInterface, AfterAssert
  <2>4. BbrServesCurrentPair'
    BY <1>1, <1>2, <1>3, <2>1 DEF BbrServesCurrentPair, AfterAssert
  <2>5. QED
    BY <2>2, <2>3, <2>4 DEF IInv
<1>4. ASSUME NEW id \in InitIds("lowpan"), api, MeshInterface(id) PROVE IInv'
  <2>1. id \in IfIds
    BY DEF InitIds
  <2>2. /\ ifs' \in [IfIds -> Interface]
        /\ ifs'[id].kind = "lowpan"
        /\ \A j \in IfIds : j # id => ifs'[j] = ifs[j]
        /\ thread_br_handler' \in Handlers /\ bbr' \in Pairs
        /\ eth_id' = -1 /\ thread_id' \in {id, -1}
        /\ ~thread_br_handler'.eth_connection_ready
        /\ mesh_up' \in {mesh_up, TRUE} /\ (mesh_up' => mesh_up \/ thread_id' = id)
        /\ tasklet' \in {"running", "halted"}
    BY <1>1, <1>4, <2>1, MeshInterfaceEffect
  <2>3. TypeOK'
    BY <1>1, <1>2, <2>2 DEF TypeOK, Handlers, Pairs, Events
  <2>4. StartedInv' /\ KindInv' /\ NoOrphanInterface'
    BY <1>1, <2>1, <2>2, InterfaceIds DEF StartedInv, KindInv, NoOrphanInterface
  <2>5. BbrServesCurrentPair'
    BY <1>2, <1>4, <2>2 DEF BbrServesCurrentPair
  <2>6. QED
    BY <2>3, <2>4, <2>5 DEF IInv
<1>5. QED
  BY <1>3, <1>4 DEF TaskletInit, mesh_network_up

\* A new backhaul interface: no other one runs, and it is not the mesh's.
LEMMA PhyDriverReadyInv == ASSUME IInv, PhyDriverReady PROVE IInv'
<1>1. /\ TypeOK /\ tasklet = "running"
      /\ UNCHANGED <<nwkq, timer, link, status_cb, asserts, api, mesh_up>>
      /\ appq' \in Seq(AppEvents)
  BY Taken DEF IInv, TypeOK, PhyDriverReady, Receive, driverVars
<1>2. CASE UNCHANGED <<tasklet, ifs, metric, connVars>>
  <2>1. StartedInv'
    BY <1>1, <1>2 DEF StartedInv
  <2>2. QED
    BY <1>1, <1>2, <2>1, QuietInv DEF meshVars, TypeOK
<1>3. ASSUME NoInterface, NEW id \in InitIds("eth"), EthernetUp(id), UNCHANGED tasklet
      PROVE  IInv'
  <2>1. id \in IfIds /\ id # thread_id
    BY <1>3 DEF InitIds, IInv, KindInv
  <2>2. /\ thread_br_handler' \in Handlers /\ bbr' \in Pairs
        /\ thread_id' = thread_id /\ eth_id' = id
        /\ thread_id' > -1 /\ eth_id' > -1 =>
              bbr' = [thread |-> thread_id', eth |-> eth_id']
    BY <1>1, <1>3, <2>1, EthIdSet DEF EthernetUp
  <2>3. PICK new \in Interface :
          new.kind = "eth" /\ ifs' = [ifs EXCEPT ![id] = new]
    <3>1. BackhaulAddress \in AnyPrefix \cup {Learned}
      BY ThreadAssumption DEF BackhaulAddress
    <3>2. /\ InterfaceUp("eth", BackhaulAddress) \in Interface
          /\ InterfaceUp("eth", BackhaulAddress).kind = "eth"
          /\ [Idle("eth") EXCEPT !.cfg = BackhaulAddress] \in Interface
          /\ [Idle("eth") EXCEPT !.cfg = BackhaulAddress].kind = "eth"
      BY <3>1, NewInterface DEF InterfaceUp, Idle
    <3>3. QED
      BY <1>3, <3>2 DEF EthernetUp
  <2>4. /\ ifs' \in [IfIds -> Interface] /\ ifs'[id].kind = "eth"
        /\ \A j \in IfIds : j # id => ifs'[j] = ifs[j]
    BY <1>1, <2>1, <2>3, Replaced DEF TypeOK
  <2>5. metric' \in [IfIds -> Metrics]
    BY <1>1, <1>3, <2>1 DEF TypeOK, EthernetUp, Metrics
  <2>6. TypeOK' /\ StartedInv'
    BY <1>1, <1>3, <2>2, <2>4, <2>5 DEF TypeOK, Handlers, Pairs, Events, StartedInv
  <2>7. KindInv'
    BY <1>1, <2>1, <2>2, <2>4 DEF IInv, KindInv
  <2>8. NoOrphanInterface'
    BY <1>3, <2>1, <2>2, <2>4, InterfaceIds DEF IInv, NoOrphanInterface, NoInterface
  <2>9. BbrServesCurrentPair'
    BY <1>1, <1>3, <2>1, <2>2, InterfaceIds DEF IInv, BbrServesCurrentPair
  <2>10. QED
    BY <2>6, <2>7, <2>8, <2>9 DEF IInv
<1>4. CASE EthernetInitFails /\ UNCHANGED <<ifs, metric>>
  <2>1. thread_id' = thread_id /\ eth_id' = eth_id
        /\ thread_br_handler' = thread_br_handler /\ bbr' = bbr
        /\ tasklet' \in {"running", "halted"}
    BY <1>4 DEF EthernetInitFails, AfterAssert, connVars, thread_id, eth_id
  <2>2. TypeOK' /\ StartedInv'
    BY <1>1, <1>4, <2>1 DEF TypeOK, StartedInv
  <2>3. KindInv' /\ NoOrphanInterface'
    BY <1>1, <1>4, <2>1 DEF IInv, KindInv, NoOrphanInterface
  <2>4. BbrServesCurrentPair'
    BY <1>1, <2>1 DEF IInv, BbrServesCurrentPair
  <2>5. QED
    BY <2>2, <2>3, <2>4 DEF IInv
<1>5. QED
  BY <1>2, <1>3, <1>4 DEF PhyDriverReady

\* The interface the handler knew is the only one that could run or route.
LEMMA PhyDownInv == ASSUME IInv, PhyDown PROVE IInv'
<1>1. /\ TypeOK /\ tasklet = "running"
      /\ UNCHANGED <<timer, link, status_cb, metric, asserts, tasklet, api, mesh_up>>
      /\ appq' \in Seq(AppEvents)
  BY Taken DEF IInv, TypeOK, PhyDown, Receive, driverVars, meshVars
<1>2. StartedInv'
  BY <1>1 DEF StartedInv
<1>3. CASE UNCHANGED <<ifs, nwkq, connVars>>
  BY <1>1, <1>2, <1>3, QuietInv DEF meshVars, TypeOK
<1>4. CASE ~NoInterface /\ TakeDown(eth_id) /\ eth_interface_gone
  <2>1. eth_id \in IfIds
    BY <1>1, <1>4 DEF TypeOK, eth_id, NoInterface
  <2>2. /\ ifs' \in [IfIds -> Interface]
        /\ ifs'[eth_id] = Idle(ifs[eth_id].kind)
        /\ \A j \in IfIds : j # eth_id => ifs'[j] = ifs[j]
        /\ nwkq' \in Seq(Events)
    BY <1>1, <1>4, <2>1, TakenDown DEF TakeDown, TypeOK, Events, StackEvents
  <2>3. /\ thread_br_handler' \in Handlers /\ bbr' \in Pairs
        /\ thread_id' = thread_id /\ eth_id' = -1
        /\ ~thread_br_handler'.eth_connection_ready
    BY <1>1, <1>4, EthGone
  <2>4. \A j \in IfIds : ifs'[j].kind = ifs[j].kind
    BY <2>2 DEF Idle
  <2>5. TypeOK'
    BY <1>1, <2>2, <2>3 DEF TypeOK, Handlers, Pairs
  <2>6. KindInv'
    BY <1>1, <2>3, <2>4, InterfaceIds DEF IInv, KindInv
  <2>7. NoOrphanInterface'
    <3>1. ifs'[eth_id].state = "idle" /\ ~ifs'[eth_id].route
      BY <2>2 DEF Idle
    <3>2. \A j \in IfIds : j # eth_id => ifs'[j] = ifs[j]
      BY <2>2
    <3>3. QED
      BY <3>1, <3>2 DEF IInv, NoOrphanInterface
  <2>8. BbrServesCurrentPair'
    BY <1>1, <2>3 DEF IInv, BbrServesCurrentPair
  <2>9. QED
    BY <1>2, <2>5, <2>6, <2>7, <2>8 DEF IInv
<1>5. QED
  BY <1>3, <1>4 DEF PhyDown

\* An event of the stack is taken; its id is an interface.
LEMMA StatusReceived ==
    ASSUME nwkq \in Seq(Events), ReceiveStatus
    PROVE  nwkq' \in Seq(Events) /\ Head(nwkq).id \in IfIds
<1>1. nwkq' \in Seq(Events) /\ Head(nwkq) \in Events
  BY Taken DEF ReceiveStatus
<1>2. QED
  BY <1>1 DEF Events

LEMMA EthernetReadyInv == ASSUME IInv, EthernetReady PROVE IInv'
<1>1. /\ TypeOK /\ tasklet = "running"
      /\ UNCHANGED <<appq, timer, link, status_cb, asserts, tasklet, api, mesh_up>>
      /\ nwkq' \in Seq(Events) /\ eth_id \in IfIds
  BY StatusReceived
  DEF IInv, TypeOK, EthernetReady, IsBackhaul, driverVars, meshVars
<1>2. PICK added \in BOOLEAN : ifs' = [ifs EXCEPT ![eth_id].route = @ \/ added]
  BY ThreadAssumption DEF EthernetReady
<1>3. /\ ifs' \in [IfIds -> Interface]
      /\ ifs'[eth_id].kind = ifs[eth_id].kind
      /\ \A j \in IfIds : j # eth_id => ifs'[j] = ifs[j]
  BY <1>1, <1>2, Routed DEF TypeOK
<1>4. /\ thread_br_handler' \in Handlers /\ bbr' = bbr
      /\ thread_id' = thread_id /\ eth_id' = eth_id
      /\ metric' \in [IfIds -> Metrics]
  BY <1>1, ConnectionUpdated, MetricSet DEF EthernetReady, TypeOK, Metrics
<1>5. TypeOK' /\ StartedInv' /\ KindInv'
  BY <1>1, <1>3, <1>4 DEF IInv, TypeOK, Handlers, StartedInv, KindInv
<1>6. NoOrphanInterface'
  BY <1>1, <1>3, <1>4 DEF IInv, NoOrphanInterface, KindInv
<1>7. BbrServesCurrentPair'
  BY <1>1, <1>4, InterfaceIds DEF IInv, BbrServesCurrentPair
<1>8. QED
  BY <1>5, <1>6, <1>7 DEF IInv

LEMMA EthernetOtherStatusInv == ASSUME IInv, EthernetOtherStatus PROVE IInv'
<1>1. /\ TypeOK /\ UNCHANGED <<ifs, metric, connVars, meshVars>> /\ tasklet' = "running"
      /\ UNCHANGED <<appq, timer, link, status_cb>>
      /\ nwkq' \in Seq(Events)
  BY StatusReceived DEF IInv, TypeOK, EthernetOtherStatus, driverVars, meshVars
<1>2. StartedInv'
  BY <1>1 DEF StartedInv
<1>3. QED
  BY <1>1, <1>2, QuietInv DEF TypeOK

LEMMA ThreadInterfaceEventInv == ASSUME IInv, thread_interface_event PROVE IInv'
<1>1. /\ TypeOK /\ tasklet = "running"
      /\ UNCHANGED <<appq, timer, link, status_cb, ifs, asserts, tasklet, api, mesh_up>>
      /\ nwkq' \in Seq(Events)
  BY StatusReceived
  DEF IInv, TypeOK, thread_interface_event, driverVars, meshVars
<1>2. /\ thread_br_handler' \in Handlers /\ bbr' = bbr
      /\ thread_id' = thread_id /\ eth_id' = eth_id
      /\ thread_br_handler'.eth_connection_ready = thread_br_handler.eth_connection_ready
      /\ metric' \in [IfIds -> Metrics]
  BY <1>1, ConnectionUpdated, MetricSet DEF thread_interface_event, TypeOK, Metrics
<1>3. TypeOK' /\ StartedInv' /\ KindInv' /\ NoOrphanInterface'
  BY <1>1, <1>2
  DEF IInv, TypeOK, Handlers, StartedInv, KindInv, NoOrphanInterface
<1>4. BbrServesCurrentPair'
  BY <1>1, <1>2 DEF IInv, BbrServesCurrentPair
<1>5. QED
  BY <1>3, <1>4 DEF IInv

LEMMA SystemTimerInv == ASSUME IInv, SystemTimer PROVE IInv'
<1>1. /\ UNCHANGED <<ifs, metric, connVars, meshVars, appq, nwkq, link, status_cb>>
      /\ timer' \in {"off", "armed", "fired"} /\ tasklet' = "running"
  BY DEF SystemTimer, eventOS_event_timer_request, driverVars, meshVars
<1>2. StartedInv'
  BY <1>1 DEF StartedInv
<1>3. QED
  BY <1>1, <1>2, QuietInv DEF IInv, TypeOK

\* The driver reports only once the tasklet runs, since only then it has the
\* callback.
LEMMA LinkReportInv == ASSUME IInv, Driver_LinkReport PROVE IInv'
<1>1. /\ UNCHANGED <<ifs, metric, connVars, meshVars, nwkq, timer, status_cb>>
      /\ link' \in {"up", "down"} /\ appq' \in Seq(AppEvents)
  BY LinkReported DEF IInv, TypeOK, Driver_LinkReport, ownVars
<1>2. tasklet \in {"running", "halted"}
  BY DEF IInv, TypeOK, StartedInv, Driver_LinkReport, LinkReport
<1>3. StartedInv'
  BY <1>1, <1>2 DEF StartedInv, meshVars
<1>4. QED
  BY <1>1, <1>3, QuietInv DEF IInv, TypeOK

\* The stack moves an interface that is not idle; its kind and routes stay.
LEMMA StackInv ==
    ASSUME IInv, NEW i \in IfIds, Stack(i) PROVE IInv'
<1>1. /\ UNCHANGED <<appq, timer, link, status_cb, metric, asserts, tasklet, api, mesh_up,
                     thread_br_handler, bbr, thread_id, eth_id>>
      /\ TypeOK
  BY StackMoves
  DEF IInv, TypeOK, Events, StackEvents, Stack, ownVars, driverVars, connVars,
      meshVars, thread_id, eth_id
<1>2. /\ ifs[i].state # "idle"
      /\ ifs' \in [IfIds -> Interface]
      /\ ifs'[i].kind = ifs[i].kind
      /\ \A j \in IfIds : j # i => ifs'[j] = ifs[j]
      /\ \E status \in Statuses : nwkq' = Append(nwkq, [id |-> i, status |-> status])
  BY <1>1, StackMoves DEF TypeOK, Events, StackEvents, Stack
<1>3. nwkq' \in Seq(Events)
  BY <1>1, <1>2, Posted DEF TypeOK, Events, StackEvents
<1>4. TypeOK' /\ KindInv' /\ NoOrphanInterface'
  <2>1. TypeOK'
    BY <1>1, <1>2, <1>3 DEF TypeOK
  <2>2. \A j \in IfIds : ifs'[j].kind = ifs[j].kind
    BY <1>2
  <2>3. KindInv'
    BY <1>1, <2>2 DEF IInv, KindInv
  <2>4. NoOrphanInterface'
    <3>1. \A j \in IfIds : ifs'[j].route = ifs[j].route
      BY <1>1, <1>2, StackMoves DEF TypeOK, Events, StackEvents, Stack
    <3>2. QED
      BY <1>1, <1>2, <2>2, <3>1 DEF IInv, NoOrphanInterface
  <2>5. QED
    BY <2>1, <2>3, <2>4
<1>5. StartedInv'
  BY <1>1, <1>2 DEF IInv, StartedInv, Idle
<1>6. BbrServesCurrentPair'
  BY <1>1 DEF IInv, BbrServesCurrentPair
<1>7. QED
  BY <1>4, <1>5, <1>6 DEF IInv

LEMMA TimerInv == ASSUME IInv, Timer PROVE IInv'
<1>1. /\ UNCHANGED <<ifs, metric, connVars, meshVars, appq, nwkq, link, status_cb>>
      /\ timer' \in {"off", "armed", "fired"}
  BY DEF Timer, TimerFires, driverVars, ownVars
<1>2. StartedInv'
  BY <1>1 DEF IInv, StartedInv, connVars, meshVars
<1>3. QED
  BY <1>1, <1>2, QuietInv DEF IInv, TypeOK

LEMMA TaskletExitInv == ASSUME IInv, TaskletExit PROVE IInv'
<1>1. /\ UNCHANGED <<appq, nwkq, timer, link, status_cb, ifs, metric, thread_br_handler,
                     bbr, asserts, api, mesh_up, thread_id, eth_id>>
      /\ tasklet = "created" /\ tasklet' = "exited"
  BY DEF TaskletExit, eventVars, driverVars, connVars, thread_id, eth_id
<1>2. TypeOK' /\ StartedInv' /\ KindInv' /\ NoOrphanInterface'
  BY <1>1 DEF IInv, TypeOK, StartedInv, KindInv, NoOrphanInterface
<1>3. BbrServesCurrentPair'
  BY <1>1 DEF IInv, BbrServesCurrentPair
<1>4. QED
  BY <1>2, <1>3 DEF IInv

LEMMA StutterInv == ASSUME IInv, UNCHANGED vars PROVE IInv'
BY DEF vars, IInv, TypeOK, StartedInv, KindInv, BbrServesCurrentPair,
   NoOrphanInterface, thread_id, eth_id

LEMMA Inductive == IInv /\ [Next]_vars => IInv'
BY StartInv, TaskletInitInv, TaskletExitInv, PhyDriverReadyInv, PhyDownInv,
   EthernetReadyInv, EthernetOtherStatusInv, ThreadInterfaceEventInv,
   SystemTimerInv, LinkReportInv, StackInv, TimerInv, StutterInv
DEF Next

LEMMA Invariance == Spec => []IInv
BY InitInv, Inductive, PTL DEF Spec

-----------------------------------------------------------------------------
(* Safety.                                                                 *)

\* Every variable has its type; the ids of the connection handler are never
\* the failure code of an init call.
THEOREM TypeCorrect == Spec => []TypeOK
<1>1. IInv => TypeOK
  BY DEF IInv
<1>2. QED
  BY <1>1, Invariance, PTL

\* Whenever both interfaces are known the BBR was last started for exactly
\* them, and the backhaul is connected only with an interface
\* (thread_br_conn_handler.c): after any sequence of reports, events and
\* failures, and for any number of interface ids.
THEOREM BbrCorrect == Spec => []BbrServesCurrentPair
<1>1. IInv => BbrServesCurrentPair
  BY DEF IInv
<1>2. QED
  BY <1>1, Invariance, PTL

\* An Ethernet interface that runs or routes is the one that the connection
\* handler knows, and is not the mesh (backhaul_interface_up and _down).
THEOREM NoOrphan == Spec => []NoOrphanInterface
<1>1. IInv => NoOrphanInterface
  BY DEF IInv
<1>2. QED
  BY <1>1, Invariance, PTL

-----------------------------------------------------------------------------
(* The link is followed.                                                   *)

\* What a step may do to the backhaul's id and connection, with its cause.
BackhaulKept ==
    eth_id' = eth_id /\
    thread_br_handler'.eth_connection_ready = thread_br_handler.eth_connection_ready

LEMMA PhyDriverReadyEffect ==
    ASSUME IInv, PhyDriverReady
    PROVE  /\ thread_br_handler'.eth_connection_ready = thread_br_handler.eth_connection_ready
           /\ mesh_up' = mesh_up
           /\ \/ eth_id' = eth_id /\ (eth_id > -1 \/ (~asserts /\ "ethernet_init" \in MayFail)
                                     \/ tasklet' # "running")
              \/ eth_id = -1 /\ eth_id' \in IfIds
<1>1. TypeOK /\ eth_id \in IfIds \cup {-1}
  BY DEF IInv, TypeOK, eth_id
<1>2. CASE ~NoInterface /\ UNCHANGED connVars
  BY <1>1, <1>2, InterfaceIds DEF connVars, eth_id, NoInterface, PhyDriverReady
<1>3. ASSUME NoInterface, NEW id \in InitIds("eth"), EthernetUp(id)
      PROVE  /\ eth_id = -1 /\ eth_id' \in IfIds
             /\ thread_br_handler'.eth_connection_ready = thread_br_handler.eth_connection_ready
  <2>1. id \in IfIds
    BY DEF InitIds
  <2>2. QED
    BY <1>1, <1>3, <2>1, EthIdSet DEF EthernetUp, NoInterface
<1>4. CASE NoInterface /\ "ethernet_init" \in MayFail /\ EthernetInitFails
  BY <1>4 DEF EthernetInitFails, AfterAssert, connVars, eth_id, PhyDriverReady
<1>5. QED
  BY <1>2, <1>3, <1>4 DEF PhyDriverReady

LEMMA PhyDownEffect ==
    ASSUME IInv, PhyDown
    PROVE  /\ eth_id' = -1 /\ ~thread_br_handler'.eth_connection_ready
           /\ mesh_up' = mesh_up
           /\ eth_id = -1 => BackhaulKept
<1>1. mesh_up' = mesh_up
  BY DEF PhyDown, meshVars
<1>2. eth_id = -1 => ~thread_br_handler.eth_connection_ready
  BY DEF IInv, BbrServesCurrentPair
<1>3. CASE NoInterface /\ UNCHANGED connVars
  BY <1>1, <1>2, <1>3 DEF NoInterface, BackhaulKept, connVars, eth_id
<1>4. CASE ~NoInterface /\ eth_interface_gone
  BY <1>1, <1>4, EthGone DEF IInv, NoInterface
<1>5. QED
  BY <1>3, <1>4 DEF PhyDown

LEMMA EthernetReadyEffect ==
    ASSUME IInv, EthernetReady
    PROVE  /\ eth_id \in IfIds /\ eth_id' = eth_id
           /\ thread_br_handler'.eth_connection_ready
           /\ mesh_up' = mesh_up
<1>1. eth_id \in IfIds
  BY StatusReceived DEF IInv, TypeOK, EthernetReady, IsBackhaul
<1>2. QED
  BY <1>1, ConnectionUpdated DEF IInv, EthernetReady, meshVars

\* Every other step keeps the backhaul as the handler has it, and only the
\* start of the tasklet touches the mesh.
LEMMA OtherEffect ==
    ASSUME IInv,
           \/ border_router_tasklet_start \/ TaskletExit
           \/ EthernetOtherStatus \/ thread_interface_event \/ SystemTimer
           \/ Driver_LinkReport \/ (\E i \in IfIds : Stack(i)) \/ Timer
           \/ UNCHANGED vars
    PROVE  BackhaulKept /\ mesh_up' = mesh_up
<1>1. CASE thread_interface_event
  BY <1>1, ConnectionUpdated
  DEF IInv, thread_interface_event, BackhaulKept, meshVars
<1>2. CASE ~thread_interface_event
  BY <1>2 DEF BackhaulKept, border_router_tasklet_start, TaskletExit,
     EthernetOtherStatus, SystemTimer, Driver_LinkReport, Stack, Timer, vars,
     ownVars, meshVars, connVars, eth_id
<1>3. QED
  BY <1>1, <1>2

LEMMA TaskletInitEffect ==
    ASSUME IInv, TaskletInit
    PROVE  /\ eth_id = -1 /\ eth_id' = -1
           /\ ~thread_br_handler.eth_connection_ready
           /\ ~thread_br_handler'.eth_connection_ready
           /\ ~mesh_up /\ mesh_up' \in BOOLEAN
<1>1. /\ eth_id = -1 /\ ~thread_br_handler.eth_connection_ready /\ ~mesh_up
      /\ TypeOK /\ mesh_up \in BOOLEAN
      /\ thread_br_handler = InitHandler /\ bbr = NotStarted
  BY DEF IInv, TypeOK, StartedInv, TaskletInit, InitHandler, eth_id
<1>2. CASE UNCHANGED <<mesh_up, connVars>>
  BY <1>1, <1>2 DEF connVars, eth_id
<1>3. ASSUME NEW id \in InitIds("lowpan"), MeshInterface(id)
      PROVE  eth_id' = -1 /\ ~thread_br_handler'.eth_connection_ready
             /\ mesh_up' \in BOOLEAN
  BY <1>1, <1>3, MeshInterfaceEffect DEF InitIds
<1>4. QED
  BY <1>1, <1>2, <1>3 DEF TaskletInit, mesh_network_up

LEMMA LinkStep ==
    ASSUME "event_send" \notin MayFail, IInv, LinkInv, [Next]_vars
    PROVE  LinkInv'
<1> SUFFICES ASSUME tasklet' = "running"
             PROVE  NewestTellsLink' /\ LinkViewConverges'
  BY DEF LinkInv
<1> appq \in Seq(AppEvents)
  BY DEF IInv, TypeOK
<1>1. CASE PhyDriverReady
  <2>1. NewestTellsLink' /\ (appq' = <<>> => link' = "up")
    BY <1>1, ReportHandled
    DEF LinkInv, PhyDriverReady, Receive, Report, driverVars
  <2>2. link' = "up" => link' # "down"
    OBVIOUS
  <2>3. asserts' = asserts /\ tasklet' = "running"
    BY <1>1 DEF PhyDriverReady
  <2>4. asserts \/ "ethernet_init" \notin MayFail => eth_id' > -1
    BY <1>1, <2>3, PhyDriverReadyEffect, InterfaceIds
  <2>5. QED
    BY <2>1, <2>2, <2>3, <2>4 DEF LinkViewConverges
<1>2. CASE PhyDown
  <2>1. NewestTellsLink' /\ (appq' = <<>> => link' # "up")
    BY <1>2, ReportHandled DEF LinkInv, PhyDown, Receive, Report, driverVars
  <2>2. QED
    BY <1>2, <2>1, PhyDownEffect DEF LinkViewConverges
<1>3. CASE Driver_LinkReport
  BY <1>3, LinkReported DEF Driver_LinkReport, LinkViewConverges
<1>4. CASE TaskletInit
  <2>1. appq = <<>> /\ link = "down"
    BY <1>4 DEF IInv, StartedInv, TaskletInit
  <2>2. NewestTellsLink' /\ (appq' = <<>> => link' = "down")
    BY <1>4, <2>1, DriverStarted DEF TaskletInit
  <2>3. QED
    BY <1>4, <2>2, TaskletInitEffect DEF LinkViewConverges
<1>5. CASE border_router_tasklet_start \/ TaskletExit
  BY <1>5 DEF border_router_tasklet_start, TaskletExit
<1>6. CASE \/ EthernetReady \/ EthernetOtherStatus \/ thread_interface_event
           \/ SystemTimer \/ (\E i \in IfIds : Stack(i)) \/ Timer
           \/ UNCHANGED vars
  <2>1. eth_id' = eth_id
    BY <1>6, EthernetReadyEffect, OtherEffect DEF BackhaulKept
  <2>2. UNCHANGED <<link, appq, asserts, tasklet>>
    BY <1>6 DEF EthernetReady, EthernetOtherStatus, thread_interface_event,
       SystemTimer, Stack, BootstrapReady, BootstrapFailed, ConnectionLost,
       Timer, TimerFires, vars, ownVars, meshVars, driverVars
  <2>3. QED
    BY <2>1, <2>2 DEF LinkInv, NewestTellsLink, LinkViewConverges
<1>7. QED
  BY <1>1, <1>2, <1>3, <1>4, <1>5, <1>6 DEF Next

\* Where eventOS_event_send does not fail, a tasklet that has handled every
\* report of the driver has followed the link: its last report was the last
\* change, whatever reports came before and however they were queued
\* (borderrouter_backhaul_phy_status_cb, backhaul_interface_up and _down).
THEOREM LinkFollowed ==
    ASSUME "event_send" \notin MayFail
    PROVE  Spec => []LinkViewConverges
<1>1. Init => LinkInv
  BY DEF Init, LinkInv
<1>2. IInv /\ LinkInv /\ [Next]_vars => LinkInv'
  BY LinkStep
<1>3. LinkInv => LinkViewConverges
  BY DEF LinkInv, LinkViewConverges
<1>4. QED
  BY <1>1, <1>2, <1>3, Invariance, PTL DEF Spec

-----------------------------------------------------------------------------
(* What is ready is in service.                                            *)

\* Taking an event of the stack leaves the others.
EventTaken ==
    \A event : InQueue(event, nwkq) /\ event # Head(nwkq) => InQueue(event, nwkq')

LEMMA EventHandled ==
    ASSUME IInv, ReceiveStatus
    PROVE  /\ EventTaken
           /\ Head(nwkq) = [id |-> Head(nwkq).id, status |-> Head(nwkq).status]
<1>1. nwkq \in Seq(Events)
  BY DEF IInv, TypeOK
<1>2. Head(nwkq) \in Events /\ EventTaken
  BY <1>1, Taken DEF ReceiveStatus, EventTaken
<1>3. QED
  BY <1>2 DEF Events

\* A backhaul whose READY is handled is in service at once.
LEMMA EthernetReadyServes ==
    ASSUME "set_metric" \notin MayFail, "route_add" \notin MayFail,
           IInv, EthernetReady
    PROVE  /\ UNCHANGED <<tasklet, mesh_up, thread_id, eth_id>>
           /\ eth_id \in IfIds /\ Head(nwkq).id = eth_id
           /\ InService'
           /\ \A j \in IfIds : j # eth_id => ifs'[j] = ifs[j] /\ metric'[j] = metric[j]
<1>1. /\ TypeOK /\ UNCHANGED <<tasklet, mesh_up>>
      /\ eth_id \in IfIds /\ Head(nwkq).id = eth_id
  BY StatusReceived DEF IInv, TypeOK, EthernetReady, IsBackhaul, meshVars
<1>2. /\ thread_id' = thread_id /\ eth_id' = eth_id
      /\ thread_br_handler'.eth_connection_ready
  BY <1>1, ConnectionUpdated DEF EthernetReady
<1>3. /\ metric'[eth_id] = HighPriority
      /\ \A j \in IfIds : j # eth_id => metric'[j] = metric[j]
  BY <1>1, MetricSet DEF EthernetReady, TypeOK, Metrics
<1>4. /\ ~Autonomous => ifs'[eth_id].route
      /\ \A j \in IfIds : j # eth_id => ifs'[j] = ifs[j]
  <2>1. PICK added \in BOOLEAN :
          /\ ~Autonomous => added
          /\ ifs' = [ifs EXCEPT ![eth_id].route = @ \/ added]
    BY ThreadAssumption DEF EthernetReady
  <2>2. QED
    BY <1>1, <2>1, Routed DEF TypeOK
<1>5. QED
  BY <1>1, <1>2, <1>3, <1>4 DEF InService

LEMMA ReadyStep ==
    ASSUME "set_metric" \notin MayFail, "route_add" \notin MayFail,
           IInv, ReadyInv, [Next]_vars
    PROVE  ReadyInv'
<1> SUFFICES ASSUME tasklet' = "running" PROVE ReadyInv'
  BY DEF ReadyInv
<1> DEFINE BackhaulPart == BackhaulReady => InService \/ InQueue(Ready(eth_id), nwkq)
           MeshPart == MeshReady => metric[thread_id] = MESH_METRIC
                                    \/ InQueue(Ready(thread_id), nwkq)
<1>1. (tasklet = "running" => BackhaulPart /\ MeshPart)
      /\ (BackhaulPart' /\ MeshPart' => ReadyInv')
  BY DEF ReadyInv
<1>2. /\ mesh_up => thread_id \in IfIds
      /\ eth_id \in IfIds => eth_id # thread_id
  BY DEF IInv, KindInv
<1>3. CASE PhyDriverReady
  <2>1. UNCHANGED <<nwkq, mesh_up>> /\ tasklet = "running"
    BY <1>3 DEF PhyDriverReady
  <2>2. CASE UNCHANGED <<ifs, metric, connVars>>
    BY <1>1, <2>1, <2>2
    DEF BackhaulReady, MeshReady, InService, connVars, eth_id, thread_id
  <2>3. ASSUME NEW id \in InitIds("eth"), EthernetUp(id) PROVE ReadyInv'
    <3>1. id \in IfIds /\ id # thread_id
      BY <2>3 DEF InitIds, IInv, KindInv
    <3>2. eth_id' = id /\ thread_id' = thread_id
      BY <2>3, <3>1, EthIdSet DEF IInv, EthernetUp
    <3>3. ifs'[id].state # "ready"
      BY <2>3, <3>1 DEF IInv, TypeOK, EthernetUp, InterfaceUp, Idle
    <3>4. \A j \in IfIds : j # id => ifs'[j] = ifs[j] /\ metric'[j] = metric[j]
      BY <2>3, <3>1 DEF IInv, TypeOK, EthernetUp
    <3>5. MeshPart'
      BY <1>1, <1>2, <2>1, <3>1, <3>2, <3>4 DEF MeshReady
    <3>6. ~BackhaulReady'
      BY <3>2, <3>3 DEF BackhaulReady
    <3>7. QED
      BY <1>1, <3>5, <3>6
  <2>4. QED
    BY <1>3, <2>2, <2>3 DEF PhyDriverReady, EthernetInitFails
<1>4. CASE PhyDown
  <2>1. ~BackhaulReady'
    BY <1>4, PhyDownEffect, InterfaceIds DEF BackhaulReady
  <2>2. UNCHANGED <<mesh_up, metric, thread_id>> /\ tasklet = "running"
    <3>1. UNCHANGED <<mesh_up, metric>> /\ tasklet = "running"
      BY <1>4 DEF PhyDown, meshVars
    <3>2. thread_id' = thread_id
      BY <1>4, EthGone DEF IInv, PhyDown, connVars, thread_id
    <3>3. QED
      BY <3>1, <3>2
  <2>3. /\ thread_id \in IfIds => ifs'[thread_id] = ifs[thread_id]
        /\ \A event : InQueue(event, nwkq) => InQueue(event, nwkq')
    <3>1. CASE UNCHANGED <<ifs, nwkq>>
      BY <3>1
    <3>2. CASE ~NoInterface /\ TakeDown(eth_id)
      <4>1. eth_id \in IfIds /\ ifs \in [IfIds -> Interface] /\ nwkq \in Seq(StackEvents)
        BY <3>2 DEF IInv, TypeOK, eth_id, NoInterface, Events, StackEvents
      <4>2. QED
        BY <1>2, <3>2, <4>1, TakenDown DEF TakeDown
    <3>3. QED
      BY <1>4, <3>1, <3>2 DEF PhyDown
  <2>4. MeshPart'
    BY <1>1, <1>2, <2>2, <2>3 DEF MeshReady
  <2>5. QED
    BY <1>1, <2>1, <2>4
<1>5. CASE EthernetReady
  <2>1. /\ UNCHANGED <<tasklet, mesh_up, thread_id, eth_id>> /\ tasklet = "running"
        /\ eth_id \in IfIds /\ Head(nwkq).id = eth_id /\ InService'
        /\ \A j \in IfIds : j # eth_id => ifs'[j] = ifs[j] /\ metric'[j] = metric[j]
    BY <1>5, EthernetReadyServes DEF EthernetReady
  <2>2. EventTaken /\ Ready(thread_id) # Head(nwkq)
    BY <1>2, <1>5, <2>1, EventHandled DEF EthernetReady, Ready
  <2>3. MeshPart'
    BY <1>1, <1>2, <2>1, <2>2 DEF MeshReady, EventTaken
  <2>4. QED
    BY <1>1, <2>1, <2>3
<1>6. CASE EthernetOtherStatus
  <2>1. /\ UNCHANGED <<ifs, metric, connVars, mesh_up>> /\ tasklet = "running"
        /\ Head(nwkq).status # "READY"
    BY <1>6 DEF EthernetOtherStatus, meshVars
  <2>2. EventTaken /\ \A id : Ready(id) # Head(nwkq)
    BY <1>6, <2>1, EventHandled DEF EthernetOtherStatus, Ready
  <2>3. QED
    BY <1>1, <2>1, <2>2
    DEF EventTaken, BackhaulReady, MeshReady, InService, connVars, eth_id, thread_id
<1>7. CASE thread_interface_event
  <2>1. /\ UNCHANGED <<ifs, mesh_up>> /\ tasklet = "running"
        /\ Head(nwkq).id # eth_id
    BY <1>7 DEF thread_interface_event, IsBackhaul, meshVars
  <2>2. UNCHANGED <<thread_id, eth_id>>
        /\ thread_br_handler'.eth_connection_ready = thread_br_handler.eth_connection_ready
    BY <1>7, ConnectionUpdated DEF IInv, thread_interface_event
  <2>3. EventTaken
        /\ Head(nwkq) = [id |-> Head(nwkq).id, status |-> Head(nwkq).status]
    BY <1>7, EventHandled DEF thread_interface_event
  <2>4. \A j \in IfIds : j # thread_id => metric'[j] = metric[j]
    BY <1>7, MetricSet DEF IInv, TypeOK, thread_interface_event, Metrics
  <2>5. BackhaulPart'
    <3>1. Ready(eth_id) # Head(nwkq)
      BY <2>1 DEF Ready
    <3>2. BackhaulReady' => BackhaulReady /\ metric'[eth_id] = metric[eth_id]
      BY <1>2, <2>1, <2>2, <2>4 DEF BackhaulReady
    <3>3. QED
      BY <1>1, <2>1, <2>2, <2>3, <3>1, <3>2 DEF InService, EventTaken
  <2>6. MeshPart'
    <3>1. CASE Head(nwkq).status = "READY"
      BY <1>2, <1>7, <2>1, <2>2, <3>1, MetricSet
      DEF IInv, TypeOK, thread_interface_event, Metrics, MeshReady
    <3>2. CASE Head(nwkq).status # "READY"
      <4>1. metric' = metric /\ Ready(thread_id) # Head(nwkq)
        BY <1>7, <2>3, <3>2 DEF thread_interface_event, Ready
      <4>2. QED
        BY <1>1, <2>1, <2>2, <2>3, <4>1 DEF MeshReady, EventTaken
    <3>3. QED
      BY <3>1, <3>2
  <2>7. QED
    BY <1>1, <2>5, <2>6
<1>8. ASSUME NEW i \in IfIds, Stack(i) PROVE ReadyInv'
  <2>1. /\ UNCHANGED <<metric, thread_br_handler, mesh_up, tasklet, thread_id, eth_id>>
        /\ ifs \in [IfIds -> Interface] /\ nwkq \in Seq(StackEvents)
    BY <1>8 DEF IInv, TypeOK, Events, StackEvents, Stack, ownVars, connVars,
       meshVars, thread_id, eth_id
  <2>2. /\ ifs'[i].route = ifs[i].route
        /\ \A j \in IfIds : j # i => ifs'[j] = ifs[j]
        /\ \E status \in Statuses :
              /\ nwkq' = Append(nwkq, [id |-> i, status |-> status])
              /\ ifs'[i].state = "ready" => status = "READY"
    BY <1>8, <2>1, StackMoves DEF Stack
  <2>3. /\ \A event : InQueue(event, nwkq) => InQueue(event, nwkq')
        /\ ifs'[i].state = "ready" => InQueue(Ready(i), nwkq')
    BY <2>1, <2>2, Posted DEF Ready
  <2>4. BackhaulPart'
    BY <1>1, <2>1, <2>2, <2>3 DEF BackhaulReady, InService
  <2>5. MeshPart'
    BY <1>1, <1>2, <2>1, <2>2, <2>3 DEF MeshReady
  <2>6. QED
    BY <1>1, <2>4, <2>5
<1>9. CASE TaskletInit
  <2>1. ~BackhaulReady'
    BY <1>9, TaskletInitEffect, InterfaceIds DEF BackhaulReady
  <2>2. ~MeshReady'
    <3>1. ~mesh_up /\ TypeOK /\ thread_br_handler = InitHandler /\ bbr = NotStarted
      BY <1>9 DEF IInv, StartedInv, TaskletInit
    <3>2. CASE UNCHANGED mesh_up
      BY <3>1, <3>2 DEF MeshReady
    <3>3. ASSUME NEW id \in InitIds("lowpan"), MeshInterface(id) PROVE ~MeshReady'
      <4>1. mesh_up' => thread_id' = id /\ ifs'[id].state = "bootstrap"
        BY <3>1, <3>3, MeshInterfaceEffect DEF InitIds
      <4>2. QED
        BY <4>1 DEF MeshReady
    <3>4. QED
      BY <1>9, <3>2, <3>3 DEF TaskletInit, mesh_network_up
  <2>3. QED
    BY <1>1, <2>1, <2>2
<1>10. CASE border_router_tasklet_start \/ TaskletExit
  BY <1>10 DEF border_router_tasklet_start, TaskletExit
<1>11. CASE SystemTimer \/ Driver_LinkReport \/ Timer \/ UNCHANGED vars
  <2>1. UNCHANGED <<tasklet, ifs, metric, mesh_up, connVars, nwkq>>
    BY <1>11 DEF SystemTimer, Driver_LinkReport, LinkReport, Timer, TimerFires,
       vars, ownVars, meshVars, connVars
  <2>2. QED
    BY <1>1, <2>1
    DEF BackhaulReady, MeshReady, InService, connVars, eth_id, thread_id
<1>12. QED
  BY <1>3, <1>4, <1>5, <1>6, <1>7, <1>8, <1>9, <1>10, <1>11 DEF Next

\* Where the stack accepts metrics and routes: once its events are handled, a
\* bootstrapped backhaul has the priority over the mesh, its route and the
\* status "connected", and a bootstrapped mesh its low metric
\* (network_interface_event_handler and thread_interface_event_handler),
\* whatever stale events of earlier backhauls came between, whatever failed at
\* the start, and on whichever ids.
THEOREM InServiceOnceReady ==
    ASSUME "set_metric" \notin MayFail, "route_add" \notin MayFail
    PROVE  Spec => []ReadyIsInService
<1>1. Init => ReadyInv
  BY DEF Init, ReadyInv
<1>2. IInv /\ ReadyInv /\ [Next]_vars => ReadyInv'
  BY ReadyStep
<1>3. ReadyInv => ReadyIsInService
  <2>1. SUFFICES ASSUME ReadyInv, tasklet = "running", nwkq = <<>>
                 PROVE  /\ BackhaulReady => InService
                        /\ MeshReady => metric[thread_id] = MESH_METRIC
    BY DEF ReadyIsInService
  <2>2. \A event : ~InQueue(event, nwkq)
    BY <2>1 DEF InQueue
  <2>3. QED
    BY <2>1, <2>2 DEF ReadyInv
<1>4. QED
  BY <1>1, <1>2, <1>3, Invariance, PTL DEF Spec

-----------------------------------------------------------------------------
(* The service.                                                            *)

ServiceStep == [Service!ServiceNext]_(Service!svcVars)

LEMMA ServiceStutters ==
    ASSUME BackhaulKept, mesh_up' = mesh_up PROVE ServiceStep
BY DEF BackhaulKept, ServiceStep, Service!svcVars, serviceBackhaul

LEMMA NextStep == ASSUME IInv, [Next]_vars PROVE ServiceStep
<1>1. CASE PhyDriverReady
  <2>1. ~(eth_id = -1 /\ thread_br_handler.eth_connection_ready)
    BY DEF IInv, BbrServesCurrentPair
  <2>2. CASE eth_id' = eth_id
    BY <1>1, <2>2, PhyDriverReadyEffect, ServiceStutters DEF BackhaulKept
  <2>3. CASE eth_id = -1 /\ eth_id' \in IfIds
    BY <1>1, <2>1, <2>3, PhyDriverReadyEffect, InterfaceIds
    DEF ServiceStep, Service!svcVars, Service!ServiceNext,
        Service!BackhaulStarts, serviceBackhaul
  <2>4. QED
    BY <1>1, <2>2, <2>3, PhyDriverReadyEffect
<1>2. CASE PhyDown
  <2>1. CASE eth_id = -1
    BY <1>2, <2>1, PhyDownEffect, ServiceStutters
  <2>2. CASE eth_id # -1
    BY <1>2, <2>2, PhyDownEffect
    DEF ServiceStep, Service!svcVars, Service!ServiceNext,
        Service!BackhaulStops, serviceBackhaul
  <2>3. QED
    BY <2>1, <2>2
<1>3. CASE EthernetReady
  BY <1>3, EthernetReadyEffect, InterfaceIds
  DEF ServiceStep, Service!svcVars, Service!ServiceNext,
      Service!BackhaulConnects, serviceBackhaul
<1>4. CASE TaskletInit
  BY <1>4, TaskletInitEffect
  DEF ServiceStep, Service!svcVars, Service!ServiceNext,
      Service!MeshStartsAlone, serviceBackhaul
<1>5. QED
  BY <1>1, <1>2, <1>3, <1>4, OtherEffect, ServiceStutters DEF Next

\* The tasklet implements the border router service: whatever fails, and in
\* whatever order events come, the backhaul goes down -> bootstrapping ->
\* connected -> down, and the mesh, which does not wait for it, starts once.
THEOREM Refinement == Spec => RefinesService
<1>1. Init => Service!ServiceInit
  BY DEF Init, InitHandler, eth_id, Service!ServiceInit, serviceBackhaul
<1>2. IInv /\ [Next]_vars => [Service!ServiceNext]_(Service!svcVars)
  BY NextStep DEF ServiceStep
<1>3. QED
  BY <1>1, <1>2, Invariance, PTL DEF Spec, RefinesService, Service!ServiceSpec
=============================================================================
