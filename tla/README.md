# A verification project for Nanostack Border Router

TLA+ models of the Nanostack Border Router application, the TLC
configurations that check them, and theorems about them proved with TLAPS.
Paths are relative to the root of the repository.

The application is small and event-driven. Its difficulty is that one tasklet
has to follow two things it does not control: the link of the backhaul, reported
by a driver from its own context, and the network stack, which bootstraps
interfaces in its own time and reports by events. The tasklet keeps interface
ids and states of its own, and every bug worth finding is a disagreement
between what it keeps, what the stack has and what the link is.

## 1. Inventory

| Component | State it keeps | Operations | Interacts by |
|---|---|---|---|
| 6LoWPAN ND tasklet, `source/borderrouter_tasklet.c` | ids of the mesh and of the backhaul, a state for each (`interface_bootstrap_state_e`), the prefixes, the settings `load_config` reads | start, tasklet init, PHY ready, PHY down, interface READY and other statuses, heartbeat timer | events from the event loop; calls into the stack |
| Thread tasklet, `source/borderrouter_thread_tasklet.c` | the MAC of the radio; everything else in the connection handler | the same events; starts the mesh at once; metrics | the same, and the connection handler |
| Thread connection handler, `source/thread_br_conn_handler.c` | two ids, two connection flags | setters and getters; starts the backbone border router (BBR) when both ids are known | called by the Thread tasklet; calls `thread_bbr_start` |
| Wi-SUN tasklet, `source/borderrouter_ws.c` | two ids in `ws_br_handler`, which also hold failure codes; the options in `ws_conf` | the same events; starts the mesh at once with `wisun_interface_up`; metrics; `ws_bbr_start` | as the Thread tasklet |
| Backhaul driver, `source/border_router_main.cpp` | for EMAC, the kept callback and driver id | `backhaul_driver_init` for SLIP, EMAC, CELL, ETH; the link callback | calls the tasklet's `borderrouter_backhaul_phy_status_cb` |
| Program entry, same file; `nanostack_heap_region.c` | LED, trace, heap region | `main` | calls `border_router_tasklet_start` once |
| Configuration lookup, `source/cfg_parser.c`, `static_6lowpan_config.h` | the table `global_config` | `cfg_string`, `cfg_int` | called by `load_config` and `start_6lowpan` of the ND tasklet |
| Trace helpers, radio wrapper, mbed TLS options | a print buffer | formatting, forwarding | called by the tasklets |

The three tasklets are alternatives: `MBED_CONF_APP_MESH_MODE` chooses which one
is compiled. The driver and the callback are common to them.

**Hard behaviours.** (1) The link can change at any time, also several times
while earlier reports are queued; reports are events, sent with a call that can
fail and whose result is ignored. (2) The stack's events carry an interface id.
An id is dropped by the tasklet when the backhaul goes down and may be given out
again, while events that carry it are still queued. (3) Bringing the mesh up is
a sequence of calls that can stop anywhere and is started again later, with
another prefix perhaps. (4) The tasklets never take the mesh down, so what it was
started with has to be right the first time. (5) Failure codes share variables
with ids, most of all in the Wi-SUN tasklet, which tells only -1 from the rest. (6) A request that
fails is never repeated: a lost report, a timer that was not armed, a missed READY. (7) A configuration value
goes a long way to the stack: a search by name that only a NULL name ends,
defaults, fields of 16 and 8 bits, a bit mask, structures that every attempt to start the mesh writes again, and for
Wi-SUN a condition that decides whether the call that carries it is made.
There is no preemption among handlers, no shared-memory concurrency beyond the
callback (which only sends an event), and nothing is persisted, so atomicity and
crash-recovery hazards do not arise.

**What makes each component correct.** The tasklets: the id and state kept of the
backhaul agree with each other, with the stack and, once the reports are handled,
with the link; no interface is left running that nobody holds the id of; the mesh
is started once, configured completely and consistently, never reconfigured. The
connection handler, and the Wi-SUN tasklet, which does that work itself: the BBR
serves the current pair of interfaces. The driver: the tasklet gets the reports in
their order. The configuration: what the table says is what the stack is given. Each hazard is listed at its line
in `PROJECT.json`.

## 2. Modules

| Module | Models | Kind |
|---|---|---|
| `EventOS` | the event loop as the tasklets see it: two queues and a timer | external |
| `BackhaulDriver` | `backhaul_driver_init`, `emac_link_cb`, the status callback | code |
| `Nanostack` | network interfaces as the tasklets see them | external |
| `NDBorderRouter` | the ND tasklet, composed with the three above | code |
| `NetMetric` | the metrics the Thread and the Wi-SUN tasklet set | code, external |
| `ThreadConnHandler` | the connection handler and the BBR's pair | code |
| `ThreadBorderRouter` | the Thread tasklet, composed with the event loop, driver, stack, metrics and handler | code |
| `WsBorderRouter` | the Wi-SUN tasklet, composed with the event loop, driver, stack and metrics | code |
| `NDConfig` | the table, its search, the values of `load_config` and what `start_6lowpan` hands over of them | code |
| `BorderRouterService` | what a border router promises, whichever mesh it serves | abstract |
| `MCND`, `MCNDConfig`, `MCThread`, `MCWs` | instances for TLC | configurations |
| `StackLemmas` | lemmas about the queues, the driver and the stack's interfaces, for the three tasklets | proofs |
| `MetricLemmas` | lemmas about the metrics, for the Thread and the Wi-SUN tasklet | proofs |
| `NDBorderRouterProofs` | theorems about `NDBorderRouter` | proofs |
| `NDSlipProofs` | the ND router on a link that never goes down | proofs |
| `ThreadBorderRouterProofs` | theorems about `ThreadBorderRouter` and `ThreadConnHandler` | proofs |
| `WsBorderRouterProofs` | theorems about `WsBorderRouter` | proofs |
| `NDConfigProofs` | theorems about `NDConfig` | proofs |

### State and actions

The event loop runs one handler at a time to its end, so each `case` of
`borderrouter_tasklet`, with all it calls, is one action:

| Event | ND action | Thread action | Wi-SUN action |
|---|---|---|---|
| called by `main` | `border_router_tasklet_start` | `border_router_tasklet_start` | `border_router_tasklet_start` |
| `ARM_LIB_TASKLET_INIT_EVENT` | `TaskletInit`, `TaskletExit` | `TaskletInit`, `TaskletExit` | `TaskletInit`, `TaskletExit` |
| `NR_BACKHAUL_INTERFACE_PHY_DRIVER_READY` | `PhyDriverReady` | `PhyDriverReady` | `PhyDriverReady` |
| `NR_BACKHAUL_INTERFACE_PHY_DOWN` | `PhyDown` | `PhyDown` | `PhyDown` |
| READY, backhaul's id | `BackhaulBootstrapReady` with `start_6lowpan` | `EthernetReady` | `BackhaulBootstrapReady` |
| READY, any other id | `MeshBootstrapReady` | `thread_interface_event` | `WisunBootstrapReady` |
| other statuses | `OtherStatus` | `EthernetOtherStatus`, `thread_interface_event` | `OtherStatus` |
| `ARM_LIB_SYSTEM_TIMER_EVENT` | `SystemTimer` | `SystemTimer` | `SystemTimer` |

The driver (`LinkReport`), the stack (`BootstrapReady`, `BootstrapFailed`,
`ConnectionLost`) and the timer (`TimerFires`) act between any two handlers.
Variables keep the source's names. `settings` groups what `load_config` fixes
for good; the three prefixes that are rewritten later are variables.
`mesh` is what `start_6lowpan` has told the stack: which configuration calls
succeeded and with which values. `start_6lowpan(stack)` chooses how many of its
seven calls succeed before it returns; `StartFails` says which may fail.

Data is reduced to what the properties tell apart: a prefix is a model value,
a `DODAG_ID` is its prefix half (the other half never changes), a
configuration is the record of the keys that decide control. Channel lists, RPL
parameters, PAN ids and keys are in `NDConfig` and not in `NDBorderRouter`; traces
are in neither.

`NDConfig` keeps the data and drops the events: its state is the structures
`load_config` fills (`br`, `rpl_setup_info`, `dodag_config`, `channel_list`, ...) and
`stack`, what the stack was handed of them. A table is a sequence of entries with
a NULL name at its end, an integer key has the string NULL, and `Position` is the
loop of `cfg_string` and `cfg_int`: it stops at a match or at a NULL name and at
nothing else, so that it has no value on a table without a NULL name, which the
code would overrun and `NDConfigAssumption` excludes (the comment at
`static_6lowpan_config.h:47` demands it of the array). `ShortAddress`, `FromBackhaul` and
`InstanceId` are stored in the 16, 8 and 8 bits of their C types. The host half of `DODAG_ID`, constant in
`NDBorderRouter`, is here made from the short address or the MAC. The two
modules are tied together by `ImplementsNDLoadConfig`: the step of `load_config` on a
table is the step of `NDBorderRouter`'s `load_config` on the record that the table
stands for (`ND == INSTANCE NDBorderRouter WITH global_config <- ...`).

In `WsBorderRouter` a configuration is the set of options that differ from
their `WS_DEFAULT_*`. `wisun_interface_up` is a list of calls, `CallOrder`; `Triggers`
says which options make a call happen and `Carries` which options it hands to the
stack. The two differ, and `MeshMatchesConfig` is about the difference. `asserts`
is the kind of build: `MBED_ASSERT` halts the program or does nothing.

External code is modelled by what the code in `source/` relies on or ignores:
the init calls may return a new id, an id of the same kind that is down, or one
of several failure codes; `arm_nwk_interface_down` may or may not post
`DOWN_COMPLETE`, and queued events stay queued; a bootstrap may fail, a
connection may be lost; a timer request may fail like a send, and the timer is then
off for good; a metric may be refused. `MayFail` names the calls that may fail in an instance.

`BorderRouterService` is the abstract specification: the backhaul goes down →
bootstrapping → connected → down, the mesh goes on once, and for ND only in the
step in which the backhaul becomes connected. `RefinesService` in each tasklet
module is that specification under a refinement mapping; on the ND side a
backhaul is up when `backhaul_if_id` is an interface, not merely different from -1.

## 3. Runs

Twelve runs; `PROJECT.json` says what each shows. `event_send` in `MayFail` is the
loss of a report; `MaxEvents` = 2 bounds each queue; prefixes are two where a
property compares them and one elsewhere.

| Run | Instance | Question |
|---|---|---|
| `nd_mesh_start` | ETH; eight configurations, complete and partial; any numbered call of `start_6lowpan`, the radio, bootstraps, connections, the timer request may fail | is the mesh started once, with the right configuration and the DODAG of its own id, on a live backhaul that has an address? |
| `nd_backhaul_faults` | EMAC; every external call may fail, reports are lost | do id, state and stack agree; is the service implemented? |
| `nd_link` | ETH, no lost report, three ids, fairness | is the link followed? |
| `nd_slip_live` | SLIP, fairness | does the mesh connect, and is it connected only if it was started? |
| `thread_safety` | EMAC, both kinds of build, every call but the send, the metric and the route may fail, three ids | BBR, handler, link, metrics, route and status, service |
| `thread_live` | ETH, fairness | does the backhaul end connected and served? |
| `ws_border_router` | CELL, both kinds of build, two sets of options, every init call, a middle and the last call of `wisun_interface_up`, bootstraps and connections may fail; fairness | id and failure code, orphans, metrics, route and BBR, options, link, service |
| `nd_config` | the table with each key missing, repeated behind the end, or hidden; boundary channels and short addresses; attempts that stop anywhere | does the table reach the stack? does `load_config` agree with `NDBorderRouter`? |
| `nd_stale_ready` | violated | `INTERFACE_CONNECTED` of a mesh that was never started |
| `nd_prefix_change` | violated | the mesh's prefix is not that of the backhaul |
| `thread_mesh_status` | violated | the mesh's status comes from another interface |
| `nd_config_lifetimes` | violated | the default of each RPL lifetime is the other's |

**Why the bounds suffice.** One mesh and one backhaul are in use at a time; a
second Ethernet id shows an interface that is initialised anew under another id
(three ids leave two for the backhaul), and reuse of an id needs only one. Two
queued events of each kind give every order of two reports around one READY and a
stale READY ahead of a fresh one; the properties relate at most two lives of the
backhaul. Two prefixes are enough for "differs from". Failure codes are -1
and -2: the code tells -1 apart from all others and nothing else.
A driver report that finds the queue full is not delayed but disabled, unless
reports may be lost.

`ws_border_router` has two ids: with the mesh on one, a backhaul that comes back
reuses its id, the worst case for stale events; where `arm_nwk_interface_lowpan_init`
has failed the backhaul may get either. Each option of one of its two
sets is the only one that triggers its call, or is one that no call of its own
carries: a fixed channel with its function and one without. That a BBR is started again
for a backhaul with another id is what the theorem `InServiceOnceReady` adds to this run. The calls of
`wisun_interface_up` that may fail are `timing` and `interface_up`: all its early
returns have the same effect but for the calls made so far. Metrics and routes
succeed there, since `ReadyIsInService` is about the order of events and not about
a refused call; `thread_safety` is the same, with a third id, so that a new backhaul
may get another id as well as the old one.

`nd_config` starts from a table that has no integer at its default, so that a
default cannot be taken for a value, and changes it by one key or by a few that
belong together. Channels are 0, 31, 32, 63, 255 and one between (the edges of the
words of the mask); short addresses are those around 0xfffe, and one of more than
16 bits; an RPL instance id and a prefix flag have more than their 8. Two backhaul
prefixes make attempts of `start_6lowpan` differ.

`CHECK_DEADLOCK FALSE` is given where the program may stop: `exit(1)`, a halting
assertion, or a driver that failed to register in a router without a radio
(`nd_link`), after which nothing happens any more; and in `nd_config`, where a mesh
that is up is never configured again.

**Fairness.** Weak fairness of the tasklet's handlers: the event loop dispatches
every event in the end. Weak fairness of the expiry of
a timer that is armed, and of `BootstrapReady` for each
interface: an interface that goes on bootstrapping gets ready. The driver has no
fairness: a link need never change. `BackhaulFollowsLink` therefore
assumes in its premise a link that stays as it is. For Wi-SUN `BootstrapReady` has strong
fairness: the mesh is up whether or not there is a backhaul, and its events may keep
the bounded queue full again and again; the queue of the program is not
bounded so tightly. The conclusion there is recurrence, because a connection may be
lost at any time: the backhaul is in service again and again, or the stack
refused it (`Refused`).

### Findings

1. `nd_stale_ready`: link up, backhaul READY queued, link down handled first. The
   READY no longer matches `backhaul_if_id` (-1) and is taken for the mesh's: RPL
   is "started" on a mesh without DODAG, `net_6lowpan_state` becomes
   `INTERFACE_CONNECTED`, and the mesh is never started, since that needs
   `INTERFACE_IDLE_STATE`.
2. `nd_prefix_change`: the prefix is copied from the backhaul once; a
   backhaul that reconnects with another prefix leaves a mesh with the old one,
   against README.md:192.
3. `thread_mesh_status`: events of a backhaul that was taken down reach the
   mesh's handler and overwrite the status kept for the mesh.
4. `nd_config_lifetimes`: `borderrouter_tasklet.c:231-232` reads `RPL_LIFETIME_UNIT` with
   the default 64 into `LIFE_IN_SECONDS` and `RPL_DEFAULT_LIFETIME` with the default 60
   into `LIFETIME_UNIT`; README.md:130-131 has 64 for the lifetime and 60 for the unit.
   The run does not depend on which field is which for the stack.
   `static_6lowpan_config.h` has a row for every key, so the code's defaults take
   effect only in a build with a table of its own (`global_config` is a pointer
   that may be set to one). The shipped `mbed_app.json` gives the lifetimes their
   documented defaults.

Nothing disagreed in the Wi-SUN tasklet: a stale READY is taken for the mesh's there
too, but all it does is to set the mesh's metric, which is what the mesh's own
READY does.

In `nd_slip_live` the link never changes, so the first of these cannot occur and
`ReadyMeansMesh` holds. `MeshHasRpl` is checked in `nd_mesh_start` where
`arm_nwk_6lowpan_rpl_dodag_init` succeeds in every attempt, with attempts that stop after it
and a backhaul that comes back with another prefix. When that call fails in the last attempt
the code starts the mesh without RPL, or with the DODAG of an earlier attempt.


## 4. Proofs

TLAPS checks the theorems below for all values of the constants that satisfy the
named assumptions (`EventOSAssumption`, `DriverAssumption`, `NanostackAssumption`,
`NDAssumption`, `ThreadAssumption` or `WsAssumption`, `NDConfigAssumption`): any number of interfaces,
prefixes, configurations and tables, any failure codes, any queue length, any
failures. Every safety property and every action property that a passing run
checks is proved; a condition on the constants is in the last column.

| Module | Theorem | Property | Where |
|---|---|---|---|
| `NDBorderRouterProofs` | `TypeCorrect` | `TypeOK` | |
| | `BackhaulStateCorrect` | `BackhaulStateAgrees` | |
| | `NoOrphan` | `NoOrphanInterface` | |
| | `MeshConfigured` | `MeshFullyConfigured` | |
| | `MeshStarted` | `MeshStartedOnce` | |
| | `MeshFrozen` | `MeshConfigFrozen` | |
| | `MeshStartsConnected` | `MeshStartsOnBackhaul` | |
| | `MeshRpl` | `MeshHasRpl` | `rpl_dodag_init` cannot fail |
| | `LinkFollowed` | `LinkViewConverges` | `event_send` cannot fail |
| | `Refinement` | `RefinesService` | |
| `NDSlipProofs` | `ReadyIsOfMesh` | `ReadyMeansMesh` | `Driver = "SLIP"` |
| `ThreadBorderRouterProofs` | `TypeCorrect` | `TypeOK` | |
| | `BbrCorrect` | `BbrServesCurrentPair` | |
| | `NoOrphan` | `NoOrphanInterface` | |
| | `LinkFollowed` | `LinkViewConverges` | `event_send` cannot fail |
| | `InServiceOnceReady` | `ReadyIsInService` | `set_metric`, `route_add` cannot fail |
| | `Refinement` | `RefinesService` | |
| `WsBorderRouterProofs` | `TypeCorrect` | `TypeOK` | |
| | `NoOrphan` | `NoOrphanInterface` | |
| | `MeshConfigured` | `MeshMatchesConfig` | |
| | `LinkFollowed` | `LinkViewConverges` | `event_send` cannot fail |
| | `InServiceOnceReady` | `ReadyIsInService` | `set_metric`, `route_add` cannot fail |
| | `Refinement` | `RefinesService` | |
| `NDConfigProofs` | `TypeCorrect` | `TypeOK` | |
| | `LookupCorrect` | `LookupIsFirstMatch` | |
| | `ChannelsCorrect` | `ChannelsAsConfigured` | |
| | `OptionsCorrect` | `OptionsReachMesh` | |
| | `OwnAddress` | `DodagIdIsOwnAddress` | |
| | `LoadImplements` | `ImplementsNDLoadConfig` | |

`ReadyIsInService` for Wi-SUN includes the BBR, for Thread the status `eth_connection_ready`; the
BBR of the Thread tasklet is in `BbrServesCurrentPair`.

The conditions are needed. The code ignores the results of `eventOS_event_send`,
`arm_nwk_6lowpan_rpl_dodag_init`, the metric and the route calls and never repeats them:
with a failure of one of them the property it stands at is false. `ReadyMeansMesh` is
false with a driver that can report the link down, which is what `nd_stale_ready`
shows; the theorem says that this is the only cause.

**The ND tasklet.** The inductive invariant is `IInv` = `TypeOK`, `BackhaulInv`, `MeshInv`.

- `BackhaulStateAgrees` and `NoOrphanInterface` are not inductive: taking the
  backhaul down is right only if its id names an Ethernet interface, and starting
  the mesh must not turn the backhaul's interface into the mesh's. `KindInv` says
  that each id names an interface of its kind, and that only a ready interface has
  an address. `StartedInv` says that nothing has happened before the tasklet
  runs: `TaskletInit` sets the mesh's state and needs the mesh to be untouched.
- `MeshFullyConfigured` is not inductive either: an attempt of `start_6lowpan`
  starts from the leftovers of earlier ones. `MeshInv` adds that the two copies of
  the mesh's prefix agree even while the mesh is off, and that no call is
  recorded that the security mode does not ask for. The heart of the argument is
  `BackhaulReadyMeshInv`: the mesh was off before an attempt (`MeshStartedOnce`),
  and it is on after it only if all the calls were made, with one prefix.
- `MeshHasRpl` is inductive beside `IInv`: the step that brings the mesh up makes the
  RPL call after the context update (`MeshStartEffect`), whatever DODAG an earlier
  attempt left, and no other step changes the DODAG or its id (`MeshSteps`).
- `LinkInv` relates the queue to the link: the newest queued report tells what the
  link is (`NewestTellsLink`). It needs lossless sends, so it is kept apart from `IInv`,
  and `LinkFollowed` assumes it of the constants.
- The action properties and the refinement follow from `IInv` and lemmas on what
  each step does (`MeshSteps`, `MeshStartEffect`, `ServiceStutters`).

**A link that never goes down** (`NDSlipProofs`). `ReadyMeansMesh` relates a state to the
events that may still set it, so `SlipInv` speaks of the queues: no `PHY_DOWN` is
queued and there is no callback that could send one (`NeverDown`); hence the backhaul
keeps its id, and until the mesh is up every event the stack has queued is the
backhaul's (`OnlyBackhaul`), so none can be taken for the mesh's.

**The Thread tasklet.** `IInv` is `TypeOK`, `StartedInv`, `KindInv`,
`BbrServesCurrentPair` and `NoOrphanInterface`. `KindInv` is what makes `NoOrphanInterface` inductive, as above, and
`BbrServesCurrentPair` is inductive because each setter of the handler ends in
the same comparison of ids (`HandlerSet`, used by all the setters). The refinement
needs of it that no connection status outlives its id: a backhaul that starts would
otherwise be connected at once. `ReadyInv` is the invariant behind `ReadyIsInService`: what
the stack has bootstrapped has its metric, and the backhaul its route and its status, or the
READY of that id is still queued (`EventTaken`). A READY of an earlier life of
the same id sets what the queued one would set, and one of another id is taken for the
mesh's and sets the metric of the mesh, never that of the backhaul
(`EthernetReadyServes`, `EventHandled`).

**The Wi-SUN tasklet.** The ids also hold failure codes, so `KindInv` is conditional
on an id being an interface, and a mesh that is up is known to have one. `MeshInv`
says that a mesh that is up has had every call of `CallOrder` that its options
trigger; `MeshConfigured` then is a statement about `Triggers` and `Carries` alone, proved
option by option. `ReadyInv` is as in the Thread tasklet, with the BBR in place of the
status.

**The configuration.** `Position` is a recursive function, and what it computes for a
table of any length is not proved by induction (the library's induction theorems
take an operator as parameter, which the provers do not instantiate). The
argument is by a least counterexample: the well-foundedness of < on the naturals is a
fact without such a parameter, and gives every bounded set of numbers a greatest
element (`Greatest`); two functions that satisfy the steps of the search agree,
since at the greatest position at which they differ the next position differs too
(`SearchUnique`); and "the first entry of that name from here on, before the end"
satisfies the steps (`FirstSteps`). `Position` is therefore that function
(`PositionIsFirst`). The steps end at the NULL name that `NDConfigAssumption` asks of
every table: without it the functions would differ behind the last entry, where the code
reads past its array. `IInv` adds to `TypeOK` what the tasklet keeps of a complete
configuration (`LoadedInv`: the mask only if `RF_CHANNEL` is 0, since attempts replace
it; the prefixes of `br` and `DODAG_ID` only as equal to each other, since attempts
replace both; the security mode only as the table's or NONE, since it is loaded
only with a key) and what the stack of a mesh that is up was handed (`HandedInv`).
`ChannelsCorrect` is arithmetic on top of it: a channel is 32 times its word plus its bit.

The attempt to prove `LoadImplements` failed first, and rightly: `rf_prefix_from_backhaul`
is a `uint8_t` (`borderrouter_tasklet.c:88`, assigned at 247), so a
`PREFIX_FROM_BACKHAUL` of 256 counts as 0, and the mapping to `NDBorderRouter`'s
Boolean had read it as set. The mapping now takes the 8 bits, and `nd_config` has such
a table.

TLC has checked the inductive invariants before they were proved, on the instances
of the runs: `IInv` of each module, `LinkInv`, `ReadyInv` and `SlipInv`.

**Only model-checked.** Liveness (`MeshConnects`, `BackhaulFollowsLink`):
fairness and ENABLED are outside of what TLAPS proves. The four violations are
counterexamples that TLC finds.


## 5. What is not modelled

`PROJECT.json` gives the reason for each part. The rest of the code
(trace, heap region, LED, mbed TLS options and certificates, radio wrapper) has no
state the tasklets read.
Inside the modelled parts: the statuses of the stack that are only traced are
represented by three of them; the uninitialised buffer traced at
`borderrouter_tasklet.c:634` only reaches the trace; `link_up` reports carry
a driver id that is only used once, when the MAC is created; the values of the
Wi-SUN options, of which only "set or default" decides anything; the text of
addresses and routes (`stoip6`, `strtok`), whose malformed forms are undefined
behaviour; an `RF_CHANNEL` above 255, which `initialize_channel_list` would write
outside of its mask, and a mask with its highest bit, excluded by
`NDConfigAssumption`, as is a table without a NULL name. `dodag_config_t` and
`border_router_setup_s` are the stack's, and the widths of their fields external but for the
16 bits of the short address, on which the code branches; `NDConfig` keeps the 8 bits of
`rpl_instance_id` (`rpl_setup_info_t` is declared in `borderrouter_tasklet.c:54-58`) and of
`rf_prefix_from_backhaul`. What the heartbeat timer is for, the traces of a debug build, is left
out; that it may stop for good after a failed request is in the models, and no property
depends on it.

## 6. Plan

The code that has behaviour is modelled, and the safety properties of the runs are
proved. What is left, in order of what is gained:

1. The safety half of the liveness properties: that a link that is up and a
   backhaul that is not in service always leave an event, a bootstrap or a recorded
   refusal behind which the next step is due, so that only fairness is left to TLC.
2. What `BorderRouterService` itself guarantees, proved once of the abstract
   specification and inherited by the three routers through their refinements.
3. The refinement of `NDBorderRouter`'s `start_6lowpan` by `NDConfig`'s, beside
   that of `load_config`.
