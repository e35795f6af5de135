----------------------------- MODULE MCFederate -----------------------------
(* Instances of Federate for TLC: names are model values or strings, and the *)
(* functions on them are given by the definitions below.                     *)
EXTENDS Federate, TLC

CONSTANTS n1, n2, reg1, reg2, monitoring, p1, p2, m1, m2, s1, x1

\* One spec selects the Service and names the CA Secret, the other does not.
AllSpecs      == {"full", "bare"}
OneSpec       == {"full"}
MCSelects     == [sp \in MonSpecs |-> Services]
MCCARefs      == [sp \in MonSpecs |-> IF sp = "full" THEN Secrets ELSE {}]
MCMonitorNs   == [m \in Monitors |-> monitoring]
\* The second monitor lives in the namespace of the first project's Prometheus.
HomeMonitorNs == [m \in Monitors |-> IF m = m1 THEN monitoring ELSE p1]
MCPromNs      == [p \in ProjectProms |-> p]
MCRegistrationNs == [p \in ProjectProms |-> IF p = p1 THEN reg1 ELSE reg2]

\* A port of its own, and a second one, renumbered or dropped by an edit.
Ports1 == [n \in {"web"} |-> 80]
Ports2 == [n \in {"web", "api"} |-> IF n = "web" THEN 81 ELSE 90]
TwoPortMaps == {Ports1, Ports2}
OnePortMap  == {Ports1}
=============================================================================
