---------------------------- MODULE MetricLemmas ----------------------------
(* What the proofs about the tasklets need to know of the metrics.          *)
EXTENDS NetMetric, TLAPS

\* At the start every interface has the stack's own metric.
LEMMA MetricStarts ==
    MetricInit => metric \in [IfIds -> Metrics] /\ \A i \in IfIds : metric[i] = Unset
BY DEF MetricInit, Metrics

\* A metric is set or, where that may fail, not.
LEMMA MetricSet ==
    ASSUME metric \in [IfIds -> Metrics], NEW id, NEW value \in Metrics,
           SetMetric(id, value)
    PROVE  /\ metric' \in [IfIds -> Metrics]
           /\ \A j \in IfIds : j # id => metric'[j] = metric[j]
           /\ id \in IfIds => metric'[id] \in {value, metric[id]}
           /\ id \in IfIds /\ "set_metric" \notin MayFail => metric'[id] = value
BY DEF SetMetric
=============================================================================
