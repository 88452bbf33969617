------------------------------ MODULE EventOS ------------------------------
(***************************************************************************)
(* The event loop of Nanostack as the border router tasklets use it.  The  *)
(* loop is not part of this repository; what is modelled is what the code  *)
(* in source/ sees of it:                                                  *)
(*                                                                         *)
(*  - one handler runs at a time, to its end;                              *)
(*  - APPLICATION_EVENTs, all of one priority (ARM_LIB_MED_PRIORITY_EVENT),*)
(*    reach the tasklet in the order in which they were sent;              *)
(*  - ARM_LIB_NWK_INTERFACE_EVENTs reach it in the order in which the      *)
(*    stack posted them; nothing in source/ orders them relative to the    *)
(*    application events, so the model does not either;                    *)
(*  - eventOS_event_send may fail (no memory for the event); the callers   *)
(*    in source/ ignore its result, so the event is then lost;             *)
(*  - eventOS_event_timer_request may fail as well, its result ignored in  *)
(*    the same way: the timer is then off, and nothing requests it again.  *)
(***************************************************************************)
EXTENDS Integers, Sequences

CONSTANTS
    MaxEvents,  \* bound on the length of each queue
    MayFail     \* names of the external calls that may fail in this instance

VARIABLES
    appq,       \* application events sent to the tasklet, oldest first
    nwkq,       \* interface events posted by the stack, oldest first
    timer       \* the tasklet's periodic timer: "off", "armed" or "fired"

eventVars == <<appq, nwkq, timer>>

ASSUME EventOSAssumption == MaxEvents \in Nat \ {0} /\ MayFail \subseteq STRING

AppEvents == {"PHY_DRIVER_READY", "PHY_DOWN"}
Statuses  == {"READY", "SCAN_FAIL", "CONNECTION_DOWN", "DOWN_COMPLETE"}

EventOSInit == appq = <<>> /\ nwkq = <<>> /\ timer = "off"

\* eventOS_event_send(&event), its result ignored by the caller.
eventOS_event_send(event) ==
    \/ Len(appq) < MaxEvents /\ appq' = Append(appq, event)
    \/ "event_send" \in MayFail /\ UNCHANGED appq

\* The stack tells the tasklet about interface `id`.
PostInterfaceEvent(id, status) ==
    /\ Len(nwkq) < MaxEvents
    /\ nwkq' = Append(nwkq, [id |-> id, status |-> status])

\* eventOS_event_timer_request(9, ARM_LIB_SYSTEM_TIMER_EVENT, ..., 20000), of a
\* timer that is off or was cancelled, its result ignored by the caller.
eventOS_event_timer_request ==
    timer' = "armed" \/ ("timer_request" \in MayFail /\ timer' = "off")

\* The 20 s timer of the tasklet expires and its event is queued.
TimerFires ==
    /\ timer = "armed"
    /\ timer' = "fired"
    /\ UNCHANGED <<appq, nwkq>>
=============================================================================
