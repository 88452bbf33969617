----------------------------- MODULE StackLemmas -----------------------------
(***************************************************************************)
(* What the proofs about the tasklets need to know of the modules they are *)
(* composed of: the two event queues, the driver's reports and the         *)
(* interfaces of the stack.                                                *)
(***************************************************************************)
EXTENDS BackhaulDriver, Nanostack, SequenceTheorems, TLAPS

\* The assumptions on the constants, as the proofs use them.
LEMMA InterfaceIds ==
    /\ IfIds \subseteq Nat /\ -1 \notin IfIds
    /\ \A i \in IfIds : i > -1
    /\ FailCodes \subseteq Int /\ -1 \in FailCodes
    /\ \A c \in FailCodes : c < 0 /\ c \notin IfIds
    /\ Unspecified \in AnyPrefix
BY NanostackAssumption DEF AnyPrefix

-----------------------------------------------------------------------------
(* Queues.                                                                 *)

Newest(q) == q[Len(q)]
InQueue(event, q) == \E k \in 1..Len(q) : q[k] = event

\* An event that is queued becomes the newest one and leaves the others queued.
LEMMA Appended ==
    ASSUME NEW S, NEW q \in Seq(S), NEW event \in S
    PROVE  /\ Append(q, event) \in Seq(S) /\ Append(q, event) # <<>>
           /\ Newest(Append(q, event)) = event
           /\ InQueue(event, Append(q, event))
           /\ \A other : InQueue(other, q) => InQueue(other, Append(q, event))
<1> DEFINE r == Append(q, event)
<1>1. /\ r \in Seq(S) /\ Len(r) = Len(q) + 1 /\ Len(q) \in Nat
      /\ r[Len(q) + 1] = event
      /\ \A k \in 1..Len(q) : r[k] = q[k]
  BY AppendProperties, LenProperties
<1> HIDE DEF r
<1>2. r # <<>> /\ Newest(r) = event
  BY <1>1 DEF Newest
<1>3. InQueue(event, r)
  BY <1>1 DEF InQueue
<1>4. ASSUME NEW other, InQueue(other, q) PROVE InQueue(other, r)
  BY <1>1, <1>4 DEF InQueue
<1>5. QED
  BY <1>1, <1>2, <1>3, <1>4 DEF r

\* Taking the oldest event leaves the others, and the newest one the newest.
LEMMA Taken ==
    ASSUME NEW S, NEW q \in Seq(S), q # <<>>
    PROVE  /\ Tail(q) \in Seq(S) /\ Head(q) \in S
           /\ Tail(q) # <<>> => Newest(Tail(q)) = Newest(q)
           /\ Tail(q) = <<>> => Newest(q) = Head(q)
           /\ \A event : InQueue(event, q) /\ event # Head(q) => InQueue(event, Tail(q))
<1> DEFINE r == Tail(q)
<1>1. /\ Len(q) \in Nat \ {0} /\ Head(q) \in S /\ Head(q) = q[1]
      /\ r \in Seq(S) /\ Len(r) = Len(q) - 1
      /\ \A k \in 1..Len(r) : r[k] = q[k + 1]
  <2>1. Len(q) \in Nat \ {0}
    OBVIOUS
  <2>2. /\ Head(q) \in S /\ r \in Seq(S) /\ Len(r) = Len(q) - 1
        /\ \A k \in 1..Len(r) : r[k] = q[k + 1]
    BY HeadTailProperties, Zenon
  <2>3. QED
    BY <2>1, <2>2
<1> HIDE DEF r
<1>2. ASSUME r # <<>> PROVE Newest(r) = Newest(q)
  <2>1. Len(r) \in Nat \ {0}
    BY <1>1, <1>2, EmptySeq, Zenon
  <2>2. Len(r) \in 1..Len(r) /\ Len(r) + 1 = Len(q)
    BY <1>1, <2>1
  <2>3. QED
    BY <1>1, <2>2, Zenon DEF Newest
<1>3. ASSUME r = <<>> PROVE Newest(q) = Head(q)
  <2>1. Len(r) = 0
    BY <1>3
  <2>2. Len(q) = 1
    BY <1>1, <2>1
  <2>3. QED
    BY <1>1, <2>2 DEF Newest
<1>4. ASSUME NEW event, InQueue(event, q), event # Head(q)
      PROVE  InQueue(event, r)
  <2>1. PICK k \in 1..Len(q) : q[k] = event
    BY <1>4 DEF InQueue
  <2>2. k # 1
    BY <1>1, <1>4, <2>1
  <2>3. k - 1 \in 1..Len(r) /\ (k - 1) + 1 = k
    BY <1>1, <2>2
  <2>4. r[k - 1] = event
    BY <1>1, <2>1, <2>3
  <2>5. QED
    BY <2>3, <2>4 DEF InQueue
<1>5. QED
  BY <1>1, <1>2, <1>3, <1>4 DEF r

-----------------------------------------------------------------------------
(* The driver.                                                             *)

Report(up) == IF up THEN "PHY_DRIVER_READY" ELSE "PHY_DOWN"

\* The newest queued report tells what the link is.
NewestTellsLink == appq # <<>> => Newest(appq) = Report(link = "up")

\* A report keeps the queue a queue, and where no event is lost it is the newest.
LEMMA Reported ==
    ASSUME appq \in Seq(AppEvents), NEW up \in BOOLEAN,
           borderrouter_backhaul_phy_status_cb(up)
    PROVE  /\ appq' \in Seq(AppEvents)
           /\ "event_send" \notin MayFail =>
                 appq' # <<>> /\ Newest(appq') = Report(up)
<1>1. Report(up) \in AppEvents
  BY DEF Report, AppEvents
<1>2. appq' = Append(appq, Report(up))
      \/ ("event_send" \in MayFail /\ appq' = appq)
  BY DEF borderrouter_backhaul_phy_status_cb, eventOS_event_send, Report
<1>3. QED
  BY <1>1, <1>2, Appended

\* Handling the oldest report: the newest one still tells the link, and the
\* handled one told it when no other is left.
LEMMA ReportHandled ==
    ASSUME appq \in Seq(AppEvents), NewestTellsLink, NEW up \in BOOLEAN,
           appq # <<>>, Head(appq) = Report(up), appq' = Tail(appq), link' = link
    PROVE  NewestTellsLink' /\ (appq' = <<>> => ((link' = "up") <=> up))
<1>1. /\ Tail(appq) # <<>> => Newest(Tail(appq)) = Newest(appq)
      /\ Tail(appq) = <<>> => Newest(appq) = Head(appq)
  BY Taken
<1>2. Newest(appq) = Report(link = "up")
  BY DEF NewestTellsLink
<1>3. NewestTellsLink'
  BY <1>1, <1>2 DEF NewestTellsLink
<1>4. appq' = <<>> => ((link' = "up") <=> up)
  BY <1>1, <1>2 DEF Report
<1>5. QED
  BY <1>3, <1>4

\* A change of the link that the driver reports.
LEMMA LinkReported ==
    ASSUME appq \in Seq(AppEvents), LinkReport
    PROVE  /\ appq' \in Seq(AppEvents) /\ link' \in {"up", "down"}
           /\ UNCHANGED <<nwkq, timer, status_cb>>
           /\ "event_send" \notin MayFail => appq' # <<>> /\ NewestTellsLink'
<1>1. PICK up \in BOOLEAN : /\ link' = IF up THEN "up" ELSE "down"
                            /\ borderrouter_backhaul_phy_status_cb(up)
  BY DEF LinkReport
<1>2. (link' = "up") <=> up
  BY <1>1
<1>3. Report(link' = "up") = Report(up)
  BY <1>2 DEF Report
<1>4. QED
  BY <1>1, <1>3, Reported DEF LinkReport, NewestTellsLink

\* The driver's registration, which for SLIP makes the only report.
LEMMA DriverStarted ==
    ASSUME appq = <<>>, link = "down", backhaul_driver_init
    PROVE  /\ appq' \in Seq(AppEvents) /\ link' \in {"up", "down"}
           /\ status_cb' \in BOOLEAN
           /\ "event_send" \notin MayFail =>
                 NewestTellsLink' /\ (appq' = <<>> => link' = "down")
<1>1. appq \in Seq(AppEvents)
  OBVIOUS
<1>2. status_cb' \in BOOLEAN
  BY DEF backhaul_driver_init, SlipDriverInit, CallbackDriverInit
<1>3. \/ borderrouter_backhaul_phy_status_cb(TRUE) /\ link' = "up"
      \/ UNCHANGED <<appq, link>>
  BY DEF backhaul_driver_init, SlipDriverInit, CallbackDriverInit
<1>4. CASE borderrouter_backhaul_phy_status_cb(TRUE) /\ link' = "up"
  BY <1>1, <1>2, <1>4, Reported DEF NewestTellsLink, Report
<1>5. CASE UNCHANGED <<appq, link>>
  BY <1>1, <1>2, <1>5 DEF NewestTellsLink
<1>6. QED
  BY <1>3, <1>4, <1>5

-----------------------------------------------------------------------------
(* The interfaces of the stack.                                            *)

StackEvents == [id : IfIds, status : Statuses]

\* An idle or starting interface is an interface.
LEMMA NewInterface ==
    ASSUME NEW kind \in {"free", "lowpan", "eth"},
           NEW prefix \in AnyPrefix \cup {Learned}
    PROVE  /\ Idle(kind) \in Interface
           /\ InterfaceUp(kind, prefix) \in Interface
           /\ [Idle(kind) EXCEPT !.cfg = prefix] \in Interface
BY InterfaceIds DEF Idle, InterfaceUp, Interface

\* Replacing one interface leaves the others.
LEMMA Replaced ==
    ASSUME ifs \in [IfIds -> Interface], NEW i \in IfIds, NEW new \in Interface,
           ifs' = [ifs EXCEPT ![i] = new]
    PROVE  /\ ifs' \in [IfIds -> Interface]
           /\ ifs'[i] = new
           /\ \A j \in IfIds : j # i => ifs'[j] = ifs[j]
OBVIOUS

\* Adding a route to an interface leaves all else of it.
LEMMA Routed ==
    ASSUME ifs \in [IfIds -> Interface], NEW i \in IfIds, NEW added \in BOOLEAN,
           ifs' = [ifs EXCEPT ![i].route = @ \/ added]
    PROVE  /\ ifs' \in [IfIds -> Interface]
           /\ ifs'[i].route <=> (ifs[i].route \/ added)
           /\ ifs'[i].kind = ifs[i].kind /\ ifs'[i].state = ifs[i].state
           /\ \A j \in IfIds : j # i => ifs'[j] = ifs[j]
<1> DEFINE old == ifs[i]
           both == old.route \/ added
           new == [old EXCEPT !.route = both]
<1>1. old \in Interface /\ both \in BOOLEAN
  OBVIOUS
<1>2. ifs' = [ifs EXCEPT ![i] = new]
  OBVIOUS
<1> HIDE DEF old, both
<1>3. /\ new \in Interface
      /\ new.route = both /\ new.kind = old.kind /\ new.state = old.state
  BY <1>1 DEF Interface
<1> HIDE DEF new
<1>4. ifs' \in [IfIds -> Interface] /\ ifs'[i] = new
      /\ \A j \in IfIds : j # i => ifs'[j] = ifs[j]
  BY <1>2, <1>3, Replaced
<1>5. QED
  BY <1>3, <1>4 DEF old, both

\* What the stack does to an interface on its own: it was not idle, it keeps
\* its kind and its routes, and the tasklet is told when it gets ready.
LEMMA StackMoves ==
    ASSUME ifs \in [IfIds -> Interface], nwkq \in Seq(StackEvents),
           NEW i \in IfIds,
           BootstrapReady(i) \/ BootstrapFailed(i) \/ ConnectionLost(i)
    PROVE  /\ UNCHANGED <<appq, timer>>
           /\ ifs[i].state # "idle"
           /\ ifs' \in [IfIds -> Interface]
           /\ ifs'[i].kind = ifs[i].kind /\ ifs'[i].route = ifs[i].route
           /\ \A j \in IfIds : j # i => ifs'[j] = ifs[j]
           /\ \E status \in Statuses :
                 /\ nwkq' = Append(nwkq, [id |-> i, status |-> status])
                 /\ ifs'[i].state = "ready" => status = "READY"
<1> DEFINE old == ifs[i]
<1>1. old \in Interface
  OBVIOUS
<1>2. UNCHANGED <<appq, timer>>
  BY DEF BootstrapReady, BootstrapFailed, ConnectionLost
<1> USE DEF Statuses
<1>3. PICK new \in Interface, status \in Statuses :
        /\ new.kind = old.kind /\ new.route = old.route
        /\ old.state # "idle"
        /\ new.state = "ready" => status = "READY"
        /\ ifs' = [ifs EXCEPT ![i] = new]
        /\ nwkq' = Append(nwkq, [id |-> i, status |-> status])
  <2>1. CASE BootstrapReady(i)
    <3>1. PICK gp \in AnyPrefix :
            /\ old.state = "bootstrap"
            /\ ifs' = [ifs EXCEPT ![i] = [old EXCEPT !.state = "ready", !.gp = gp]]
      BY <1>1, <2>1 DEF BootstrapReady, Interface
    <3>2. nwkq' = Append(nwkq, [id |-> i, status |-> "READY"])
      BY <2>1 DEF BootstrapReady, PostInterfaceEvent
    <3> [old EXCEPT !.state = "ready", !.gp = gp] \in Interface
      BY <1>1, InterfaceIds DEF Interface
    <3> WITNESS [old EXCEPT !.state = "ready", !.gp = gp] \in Interface,
                "READY" \in Statuses
    <3>3. QED
      BY <1>1, <3>1, <3>2 DEF Interface
  <2>2. CASE BootstrapFailed(i)
    <3>1. /\ old.state = "bootstrap"
          /\ ifs' = [ifs EXCEPT ![i] = [old EXCEPT !.state = "idle"]]
          /\ nwkq' = Append(nwkq, [id |-> i, status |-> "SCAN_FAIL"])
      BY <2>2 DEF BootstrapFailed, PostInterfaceEvent
    <3> [old EXCEPT !.state = "idle"] \in Interface
      BY <1>1, InterfaceIds DEF Interface
    <3> WITNESS [old EXCEPT !.state = "idle"] \in Interface,
                "SCAN_FAIL" \in Statuses
    <3>2. QED
      BY <1>1, <3>1 DEF Interface
  <2>3. CASE ConnectionLost(i)
    <3>1. /\ old.state = "ready"
          /\ ifs' = [ifs EXCEPT ![i] =
                        [old EXCEPT !.state = "bootstrap", !.gp = Unspecified]]
          /\ nwkq' = Append(nwkq, [id |-> i, status |-> "CONNECTION_DOWN"])
      BY <2>3 DEF ConnectionLost, PostInterfaceEvent
    <3> [old EXCEPT !.state = "bootstrap", !.gp = Unspecified] \in Interface
      BY <1>1, InterfaceIds DEF Interface
    <3> WITNESS [old EXCEPT !.state = "bootstrap", !.gp = Unspecified] \in Interface,
                "CONNECTION_DOWN" \in Statuses
    <3>2. QED
      BY <1>1, <3>1, InterfaceIds DEF Interface
  <2>4. QED
    BY <2>1, <2>2, <2>3
<1>4. /\ ifs' \in [IfIds -> Interface] /\ ifs'[i] = new
      /\ \A j \in IfIds : j # i => ifs'[j] = ifs[j]
  BY <1>3, Replaced
<1>5. QED
  BY <1>2, <1>3, <1>4

\* What is posted of an interface is an event, and leaves what was queued.
LEMMA Posted ==
    ASSUME nwkq \in Seq(StackEvents), NEW i \in IfIds, NEW status \in Statuses,
           nwkq' = Append(nwkq, [id |-> i, status |-> status])
    PROVE  /\ nwkq' \in Seq(StackEvents)
           /\ InQueue([id |-> i, status |-> status], nwkq')
           /\ \A event : InQueue(event, nwkq) => InQueue(event, nwkq')
<1>1. [id |-> i, status |-> status] \in StackEvents
  BY DEF StackEvents
<1>2. QED
  BY <1>1, Appended

\* An interface that is taken down is idle, without a route.
LEMMA TakenDown ==
    ASSUME ifs \in [IfIds -> Interface], nwkq \in Seq(StackEvents),
           NEW i \in IfIds, arm_nwk_interface_down(i)
    PROVE  /\ ifs' \in [IfIds -> Interface]
           /\ ifs'[i] = Idle(ifs[i].kind)
           /\ \A j \in IfIds : j # i => ifs'[j] = ifs[j]
           /\ nwkq' \in Seq(StackEvents)
           /\ \A event : InQueue(event, nwkq) => InQueue(event, nwkq')
<1>1. Idle(ifs[i].kind) \in Interface
  <2>1. ifs[i].kind \in {"free", "lowpan", "eth"}
    BY DEF Interface
  <2>2. QED
    BY <2>1, InterfaceIds DEF Idle, Interface
<1>2. /\ nwkq' \in Seq(StackEvents)
      /\ \A event : InQueue(event, nwkq) => InQueue(event, nwkq')
  <2>1. CASE PostInterfaceEvent(i, "DOWN_COMPLETE")
    BY <2>1, Posted DEF PostInterfaceEvent, Statuses
  <2>2. CASE UNCHANGED nwkq
    BY <2>2
  <2>3. QED
    BY <2>1, <2>2 DEF arm_nwk_interface_down
<1>3. QED
  BY <1>1, <1>2, Replaced DEF arm_nwk_interface_down
=============================================================================
