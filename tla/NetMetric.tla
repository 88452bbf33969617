----------------------------- MODULE NetMetric -----------------------------
(***************************************************************************)
(* The metrics of the stack's interfaces, as the Thread and the Wi-SUN     *)
(* tasklets set them: READY gives the backhaul the highest priority and    *)
(* the mesh a low one.  An interface starts with the stack's own metric.   *)
(***************************************************************************)
EXTENDS Nanostack

VARIABLE metric     \* the metric of each interface

Unset == "unset"
HighPriority == "0"
MESH_METRIC == "1000"
Metrics == {Unset, HighPriority, MESH_METRIC}

MetricInit == metric = [i \in IfIds |-> Unset]

\* arm_net_interface_set_metric, a failure only traced; an id that is no
\* interface is refused.
SetMetric(id, value) ==
    \E set \in {TRUE, "set_metric" \notin MayFail} :
        metric' = IF set /\ id \in IfIds THEN [metric EXCEPT ![id] = value] ELSE metric
=============================================================================
