---------------------------- MODULE MCSvcWatcher ----------------------------
(* A small namespace for SvcWatcher.                                        *)
EXTENDS SvcWatcher

Ep(pod, kind, name, ip) == [pod |-> pod, net |-> [kind |-> kind, name |-> name], ip |-> ip]
Anno(selector, early) ==
    [valid |-> TRUE, selector |-> selector, nets |-> {[kind |-> "DanmNet", name |-> "ext"]}, early |-> early]

\* Two Pods on one network.
TwoEps == [e1 |-> Ep("p1", "DanmNet", "ext", "10.0.0.1"), e2 |-> Ep("p2", "", "ext", "10.0.0.2")]
\* A Service may tolerate Pods that are not ready, or have annotations that are not valid.
Annos == {Anno({"app"}, FALSE), Anno({"app"}, TRUE), [Anno({}, FALSE) EXCEPT !.valid = FALSE]}

\* A Pod with two interfaces, and a Service for either.
PairEps == [e1 |-> Ep("p1", "", "ext", "10.0.0.1"), e2 |-> Ep("p1", "TenantNetwork", "int", "10.1.0.1")]
PairAnnos == {Anno({"app"}, FALSE),
              [Anno({"app"}, FALSE) EXCEPT !.nets = {[kind |-> "TenantNetwork", name |-> "int"]}],
              [Anno({}, FALSE) EXCEPT !.valid = FALSE]}
=============================================================================
