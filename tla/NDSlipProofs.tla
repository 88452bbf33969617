----------------------------- MODULE NDSlipProofs -----------------------------
(***************************************************************************)
(* NDBorderRouter over SLIP.  The driver reports the link once and never   *)
(* down, so the backhaul that comes up keeps its id: every event of the    *)
(* stack is about an interface the tasklet still has.  With a driver that  *)
(* reports the link down an old READY may be taken for the mesh's          *)
(* (nd_stale_ready), and what follows does not hold.                       *)
(***************************************************************************)
EXTENDS NDBorderRouterProofs

\* Until the mesh is up, the stack runs nothing but the backhaul, what it has
\* posted is about the backhaul, and the mesh is not marked connected.
OnlyBackhaul ==
    /\ \A k \in 1..Len(nwkq) : nwkq[k].id = backhaul_if_id
    /\ \A i \in IfIds : ifs[i].state # "idle" => i = backhaul_if_id
    /\ net_6lowpan_state # CONNECTED

\* The driver never reports the link down.
NeverDown == ~status_cb /\ ~InQueue("PHY_DOWN", appq)

SlipInv == NeverDown /\ (~mesh.up => OnlyBackhaul)

-----------------------------------------------------------------------------
(* The driver.                                                             *)

\* What an event taken from the queue leaves was queued before.
LEMMA TakenEvents ==
    ASSUME NEW S, NEW q \in Seq(S), q # <<>>
    PROVE  /\ \A event : InQueue(event, Tail(q)) => InQueue(event, q)
           /\ InQueue(Head(q), q)
           /\ \A k \in 1..Len(Tail(q)) : k + 1 \in 1..Len(q) /\ Tail(q)[k] = q[k + 1]
<1> DEFINE r == Tail(q)
<1>1. /\ Len(q) \in Nat \ {0} /\ Head(q) = q[1] /\ Len(r) = Len(q) - 1
      /\ \A k \in 1..Len(r) : r[k] = q[k + 1]
  <2>1. Len(q) \in Nat \ {0}
    OBVIOUS
  <2>2. Len(r) = Len(q) - 1 /\ \A k \in 1..Len(r) : r[k] = q[k + 1]
    BY HeadTailProperties, Zenon
  <2>3. QED
    BY <2>1, <2>2
<1> HIDE DEF r
<1>2. InQueue(Head(q), q)
  BY <1>1 DEF InQueue
<1>3. \A k \in 1..Len(r) : k + 1 \in 1..Len(q) /\ r[k] = q[k + 1]
  BY <1>1
<1>4. ASSUME NEW event, InQueue(event, r) PROVE InQueue(event, q)
  BY <1>3, <1>4 DEF InQueue
<1>5. QED
  BY <1>2, <1>3, <1>4 DEF r

\* The events of a queue that gets one more.
LEMMA AppendedEvents ==
    ASSUME NEW S, NEW q \in Seq(S), NEW event \in S
    PROVE  \A k \in 1..Len(Append(q, event)) :
              \/ Append(q, event)[k] = event
              \/ k \in 1..Len(q) /\ Append(q, event)[k] = q[k]
BY AppendProperties, LenProperties

LEMMA DriverNext ==
    ASSUME Driver = "SLIP", IInv, NeverDown, [Next]_vars
    PROVE  NeverDown' /\ ~PhyDown
<1> USE DEF IInv
<1>1. appq \in Seq(AppEvents)
  BY DEF TypeOK
<1>2. ~PhyDown
  BY <1>1, TakenEvents DEF PhyDown, Receive, NeverDown
<1>3. CASE PhyDriverReady
  <2>1. /\ appq # <<>> /\ appq' = Tail(appq) /\ status_cb' = status_cb
        /\ ~InQueue("PHY_DOWN", Tail(appq))
    BY <1>1, <1>3, TakenEvents DEF PhyDriverReady, Receive, driverVars, NeverDown
  <2>2. QED
    BY <1>2, <2>1 DEF NeverDown, InQueue
<1>4. CASE TaskletInit
  <2>1. appq = <<>> /\ status_cb' = FALSE
        /\ (appq' = appq \/ appq' = Append(appq, "PHY_DRIVER_READY"))
    BY <1>4 DEF TaskletInit, backhaul_driver_init, SlipDriverInit,
       CallbackDriverInit, borderrouter_backhaul_phy_status_cb,
       eventOS_event_send, BackhaulInv, StartedInv
  <2>2. ~InQueue("PHY_DOWN", appq')
    BY <1>1, <2>1, AppendedEvents DEF InQueue, AppEvents
  <2>3. QED
    BY <1>2, <2>1, <2>2 DEF NeverDown, InQueue
<1>5. CASE UNCHANGED <<appq, status_cb>>
  BY <1>2, <1>5 DEF NeverDown, InQueue
<1>6. \/ PhyDriverReady \/ PhyDown \/ TaskletInit \/ UNCHANGED <<appq, status_cb>>
  <2>1. ~Driver_LinkReport
    BY DEF Driver_LinkReport, LinkReport, NeverDown
  <2>2. ASSUME NEW i \in IfIds, Stack(i) PROVE UNCHANGED <<appq, status_cb>>
    BY <2>2 DEF Stack, BootstrapReady, BootstrapFailed, ConnectionLost,
       driverVars
  <2>3. CASE border_router_tasklet_start \/ TaskletExit
             \/ BackhaulBootstrapReady \/ MeshBootstrapReady \/ OtherStatus
             \/ SystemTimer \/ Timer \/ UNCHANGED vars
    BY <2>3 DEF border_router_tasklet_start, TaskletExit,
       BackhaulBootstrapReady, MeshBootstrapReady, OtherStatus, SystemTimer,
       Timer, TimerFires, vars, eventVars, driverVars
  <2>4. QED
    BY <2>1, <2>2, <2>3 DEF Next, Handler
<1>7. QED
  BY <1>2, <1>3, <1>4, <1>5, <1>6

-----------------------------------------------------------------------------
(* The mesh.                                                               *)

\* Nothing takes the mesh down.
LEMMA MeshStaysUp ==
    ASSUME IInv, mesh.up, [Next]_vars PROVE mesh'.up
<1> USE DEF IInv
<1>1. CASE UNCHANGED <<meshVars, settings>>
  BY <1>1 DEF meshVars
<1>2. CASE border_router_tasklet_start \/ TaskletInit
  BY <1>2 DEF border_router_tasklet_start, TaskletInit
<1>3. CASE MeshBootstrapReady
  BY <1>3 DEF MeshBootstrapReady, TypeOK, Mesh
<1>4. CASE BackhaulBootstrapReady
  <2>1. ~MeshMayStart
    BY DEF MeshMayStart, MeshInv, MeshStartedOnce, IDLE_STATE,
       BOOTSTRAP_ACTIVE, CONNECTED
  <2>2. QED
    BY <1>4, <2>1, MeshStartEffect DEF meshVars
<1>5. QED
  BY <1>1, <1>2, <1>3, <1>4, MeshSteps

\* While there is no backhaul, nothing is posted and nothing runs.
LEMMA NothingRuns ==
    ASSUME TypeOK, OnlyBackhaul, backhaul_if_id \notin IfIds
    PROVE  /\ nwkq = <<>>
           /\ \A i \in IfIds : ifs[i].state = "idle"
<1>1. nwkq \in Seq(Events)
  BY DEF TypeOK
<1>2. ASSUME nwkq # <<>> PROVE FALSE
  <2>1. Len(nwkq) \in Nat \ {0}
    BY <1>1, <1>2
  <2>2. 1 \in 1..Len(nwkq) /\ nwkq[1] \in Events
    BY <1>1, <2>1
  <2>3. QED
    BY <2>2 DEF OnlyBackhaul, Events
<1>3. QED
  BY <1>2 DEF OnlyBackhaul

\* A new backhaul is the only interface that runs.
LEMMA PhyDriverReadyOnly ==
    ASSUME IInv, OnlyBackhaul, PhyDriverReady PROVE OnlyBackhaul'
<1> USE DEF IInv
<1>1. nwkq' = nwkq /\ net_6lowpan_state' = net_6lowpan_state
  BY DEF PhyDriverReady, meshVars
<1>2. CASE UNCHANGED <<backhaul_if_id, ifs>>
  BY <1>1, <1>2 DEF OnlyBackhaul
<1>3. CASE ReadyForInterface /\ ifs' = ifs
  <2>1. nwkq = <<>> /\ \A i \in IfIds : ifs[i].state = "idle"
    BY <1>3, NothingRuns, Constants DEF ReadyForInterface
  <2>2. QED
    BY <1>1, <1>3, <2>1 DEF OnlyBackhaul
<1>4. ASSUME ReadyForInterface, NEW id \in IfIds, EthernetUp(id)
      PROVE  OnlyBackhaul'
  <2>1. nwkq = <<>> /\ \A i \in IfIds : ifs[i].state = "idle"
    BY <1>4, NothingRuns, Constants DEF ReadyForInterface
  <2>2. PICK new : backhaul_if_id' = id /\ ifs' = [ifs EXCEPT ![id] = new]
    BY <1>4 DEF EthernetUp
  <2>3. \A j \in IfIds : j # id => ifs'[j] = ifs[j]
    BY <2>2 DEF TypeOK
  <2>4. QED
    BY <1>1, <2>1, <2>2, <2>3 DEF OnlyBackhaul
<1>5. QED
  BY <1>2, <1>3, <1>4 DEF PhyDriverReady, EthernetInitFails, InitIds

\* The stack moves only what runs, and tells of it.
LEMMA StackOnly ==
    ASSUME IInv, OnlyBackhaul, NEW i \in IfIds, Stack(i) PROVE OnlyBackhaul'
<1> USE DEF IInv
<1>1. UNCHANGED <<backhaul_if_id, net_6lowpan_state>>
  BY DEF Stack, ownVars, backhaulVars, meshVars
<1>2. ifs \in [IfIds -> Interface] /\ nwkq \in Seq(StackEvents)
  BY DEF TypeOK, Events, StackEvents
<1>3. PICK status \in Statuses :
        /\ ifs[i].state # "idle"
        /\ \A j \in IfIds : j # i => ifs'[j] = ifs[j]
        /\ nwkq' = Append(nwkq, [id |-> i, status |-> status])
  BY <1>2, StackMoves DEF Stack
<1>4. i = backhaul_if_id
  BY <1>3 DEF OnlyBackhaul
<1>5. [id |-> i, status |-> status] \in StackEvents
  BY DEF StackEvents
<1>6. \A k \in 1..Len(nwkq') : nwkq'[k].id = backhaul_if_id
  BY <1>2, <1>3, <1>4, <1>5, AppendedEvents DEF OnlyBackhaul
<1>7. QED
  BY <1>1, <1>3, <1>4, <1>6 DEF OnlyBackhaul

\* READY of the backhaul that does not bring the mesh up runs nothing else.
LEMMA BackhaulReadyOnly ==
    ASSUME IInv, OnlyBackhaul, BackhaulBootstrapReady, ~mesh.up, ~mesh'.up
    PROVE  OnlyBackhaul'
<1> USE DEF IInv
<1>1. PICK added : LET stack == [ifs EXCEPT ![backhaul_if_id].route = @ \/ added] IN
        IF MeshMayStart /\ HasGlobalAddress(backhaul_if_id)
        THEN start_6lowpan(stack)
        ELSE ifs' = stack /\ UNCHANGED meshVars
  BY DEF BackhaulBootstrapReady
<1> DEFINE stack == [ifs EXCEPT ![backhaul_if_id].route = @ \/ added]
<1>2. ifs' = stack /\ net_6lowpan_state' = net_6lowpan_state
  <2>1. ASSUME start_6lowpan(stack) PROVE ifs' = stack /\ net_6lowpan_state' = net_6lowpan_state
    <3> HIDE DEF stack
    <3> DEFINE p == stack[backhaul_if_id].gp
    <3>1. PICK n \in 0..7, rplOk \in {TRUE, "rpl_dodag_init" \notin MayFail} :
            /\ mesh' = MeshAfter(n, rplOk, NewPrefix(n, p), NewDodag(n, p))
            /\ net_6lowpan_state' = StateAfterStart(n)
            /\ n # INTERFACE_UP => ifs' = stack
      BY <2>1 DEF start_6lowpan
    <3>2. n # INTERFACE_UP
      BY <3>1, MeshAfterFields
    <3>3. QED
      BY <3>1, <3>2 DEF StateAfterStart
  <2>2. QED
    BY <1>1, <2>1 DEF meshVars
<1>3. \A j \in IfIds : j # backhaul_if_id => ifs'[j] = ifs[j]
  BY <1>2 DEF TypeOK
<1>4. nwkq \in Seq(Events) /\ nwkq # <<>> /\ nwkq' = Tail(nwkq)
  BY DEF TypeOK, BackhaulBootstrapReady, ReceiveStatus
<1>5. UNCHANGED backhaul_if_id
  BY DEF BackhaulBootstrapReady
<1>6. \A k \in 1..Len(nwkq') : nwkq'[k].id = backhaul_if_id
  BY <1>4, TakenEvents DEF OnlyBackhaul
<1>7. QED
  BY <1>2, <1>3, <1>5, <1>6 DEF OnlyBackhaul

\* READY that is taken for the mesh's is: there is no other interface to tell
\* of but the backhaul.
LEMMA NoStrayReady ==
    ASSUME TypeOK, OnlyBackhaul PROVE ~MeshBootstrapReady
<1>1. ASSUME MeshBootstrapReady PROVE FALSE
  <2>1. nwkq \in Seq(Events) /\ nwkq # <<>> /\ Head(nwkq).id # backhaul_if_id
    BY <1>1 DEF TypeOK, MeshBootstrapReady, ReceiveStatus, TakenForMesh
  <2>2. InQueue(Head(nwkq), nwkq)
    BY <2>1, TakenEvents
  <2>3. QED
    BY <2>1, <2>2 DEF InQueue, OnlyBackhaul
<1>2. QED
  BY <1>1

LEMMA NextOnly ==
    ASSUME IInv, OnlyBackhaul, ~mesh.up, ~mesh'.up, ~PhyDown, [Next]_vars
    PROVE  OnlyBackhaul'
<1> USE DEF IInv
<1>1. CASE UNCHANGED <<nwkq, backhaul_if_id, ifs, net_6lowpan_state>>
  BY <1>1 DEF OnlyBackhaul
<1>2. CASE TaskletExit \/ SystemTimer \/ Driver_LinkReport \/ Timer
           \/ UNCHANGED vars
  BY <1>1, <1>2 DEF TaskletExit, SystemTimer, Driver_LinkReport, LinkReport,
     Timer, TimerFires, vars, ownVars, eventVars, backhaulVars, meshVars
<1>3. CASE border_router_tasklet_start
  <2>1. UNCHANGED <<nwkq, backhaul_if_id, net_6lowpan_state>>
    BY <1>3 DEF border_router_tasklet_start, eventVars
  <2>2. \A j \in IfIds : ifs'[j] = ifs[j] \/ ifs'[j].state = "idle"
    BY <1>3 DEF border_router_tasklet_start, rf_interface_init, TypeOK, Idle
  <2>3. QED
    BY <2>1, <2>2 DEF OnlyBackhaul
<1>4. CASE TaskletInit
  BY <1>4 DEF TaskletInit, OnlyBackhaul, backhaulVars, IDLE_STATE, CONNECTED
<1>5. CASE OtherStatus
  <2>1. /\ nwkq \in Seq(Events) /\ nwkq # <<>> /\ nwkq' = Tail(nwkq)
        /\ UNCHANGED <<backhaul_if_id, ifs, net_6lowpan_state>>
    BY <1>5 DEF TypeOK, OtherStatus, ReceiveStatus, backhaulVars, meshVars
  <2>2. \A k \in 1..Len(nwkq') : nwkq'[k].id = backhaul_if_id
    BY <2>1, TakenEvents DEF OnlyBackhaul
  <2>3. QED
    BY <2>1, <2>2 DEF OnlyBackhaul
<1>6. QED
  BY <1>2, <1>3, <1>4, <1>5, PhyDriverReadyOnly, StackOnly, BackhaulReadyOnly,
     NoStrayReady DEF Next, Handler

\* Over SLIP, the mesh is marked connected only after it was brought up: no
\* event of an earlier backhaul can be taken for the mesh's.
THEOREM ReadyIsOfMesh ==
    ASSUME Driver = "SLIP"
    PROVE  Spec => []ReadyMeansMesh
<1>1. Init => SlipInv
  BY DEF Init, EventOSInit, DriverInit, StackInit, Idle, InQueue, SlipInv,
     NeverDown, OnlyBackhaul, PHY_NOT_READY, CONNECTED
<1>2. IInv /\ SlipInv /\ [Next]_vars => SlipInv'
  BY DriverNext, NextOnly, MeshStaysUp DEF SlipInv
<1>3. SlipInv => ReadyMeansMesh
  BY DEF SlipInv, OnlyBackhaul, ReadyMeansMesh
<1>4. QED
  BY <1>1, <1>2, <1>3, Invariance, PTL DEF Spec
=============================================================================
