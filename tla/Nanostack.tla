----------------------------- MODULE Nanostack -----------------------------
(***************************************************************************)
(* The network interfaces of Nanostack as the border router tasklets use   *)
(* them.  The stack is not part of this repository: an interface is what   *)
(* the calls and the events in source/ tell of it.                         *)
(*                                                                         *)
(*  - arm_nwk_interface_{lowpan,ethernet}_init returns an id or a negative *)
(*    failure code, and an interface that is down may get its id again;    *)
(*  - an interface brought up bootstraps, and the stack posts READY when   *)
(*    that ends; a failed bootstrap leaves it idle ("Stack is Already in   *)
(*    Idle state", borderrouter_tasklet.c:645) and a lost connection makes *)
(*    it bootstrap again (line 651);                                       *)
(*  - arm_nwk_interface_down forgets its address and routes; whether it    *)
(*    also posts DOWN_COMPLETE is left open, and events that are already   *)
(*    queued stay queued.                                                  *)
(***************************************************************************)
EXTENDS EventOS

CONSTANTS
    IfIds,          \* interface ids
    FailCodes,      \* failure codes of the init calls
    Prefixes,       \* /64 prefixes
    Unspecified     \* the prefix ::, and "no global address"

VARIABLE ifs        \* the interface behind each id

ASSUME NanostackAssumption ==
    /\ IfIds \subseteq Nat
    /\ FailCodes \subseteq {c \in Int : c < 0} /\ -1 \in FailCodes
    /\ Unspecified \notin Prefixes

AnyPrefix == Prefixes \cup {Unspecified}

\* Address configuration of an interface whose prefix comes from the network.
Learned == "learned"

\* `cfg` is the configured prefix or Learned; `gp` the prefix of the global
\* address in use, Unspecified while there is none.
Interface == [kind  : {"free", "lowpan", "eth"},
              state : {"idle", "bootstrap", "ready"},
              gp    : AnyPrefix,
              cfg   : AnyPrefix \cup {Learned},
              route : BOOLEAN]

Idle(kind) == [kind |-> kind, state |-> "idle", gp |-> Unspecified,
               cfg |-> Unspecified, route |-> FALSE]

StackInit == ifs = [i \in IfIds |-> Idle("free")]

\* The ids an init call may return: a new one, or one of its kind that is down.
InitIds(kind) ==
    {i \in IfIds : \/ ifs[i].kind = "free"
                   \/ ifs[i].kind = kind /\ ifs[i].state = "idle"}

\* arm_nwk_interface_up, with the address configuration it starts from.
InterfaceUp(kind, prefix) ==
    [Idle(kind) EXCEPT !.state = "bootstrap", !.cfg = prefix]

\* arm_nwk_interface_down: DOWN_COMPLETE may or may not follow.
arm_nwk_interface_down(i) ==
    /\ ifs' = [ifs EXCEPT ![i] = Idle(ifs[i].kind)]
    /\ PostInterfaceEvent(i, "DOWN_COMPLETE") \/ UNCHANGED nwkq

\* The stack finishes the bootstrap of interface i.  A learned address may be
\* missing ("Backhaul interface in ULA Mode", borderrouter_tasklet.c:600).
BootstrapReady(i) ==
    /\ ifs[i].state = "bootstrap"
    /\ \E gp \in IF ifs[i].cfg = Learned THEN AnyPrefix ELSE {ifs[i].cfg} :
          ifs' = [ifs EXCEPT ![i].state = "ready", ![i].gp = gp]
    /\ PostInterfaceEvent(i, "READY")
    /\ UNCHANGED <<appq, timer>>

\* The bootstrap of interface i fails and the stack leaves it idle.
BootstrapFailed(i) ==
    /\ "bootstrap" \in MayFail
    /\ ifs[i].state = "bootstrap"
    /\ ifs' = [ifs EXCEPT ![i].state = "idle"]
    /\ PostInterfaceEvent(i, "SCAN_FAIL")
    /\ UNCHANGED <<appq, timer>>

\* Interface i loses its network and bootstraps again.
ConnectionLost(i) ==
    /\ "connection" \in MayFail
    /\ ifs[i].state = "ready"
    /\ ifs' = [ifs EXCEPT ![i].state = "bootstrap", ![i].gp = Unspecified]
    /\ PostInterfaceEvent(i, "CONNECTION_DOWN")
    /\ UNCHANGED <<appq, timer>>
=============================================================================
