------------------------------ MODULE Federate ------------------------------
(***************************************************************************)
(* The federation reconciler of federate/main.go.                          *)
(*                                                                         *)
(* A source ServiceMonitor that carries the federated label is labelled    *)
(* for the cluster's default Prometheus and copied, with the Services and  *)
(* Endpoints it scrapes and the CA Secrets it refers to, into the          *)
(* namespace of every project Prometheus.  One worker takes monitor names  *)
(* from the work queue; every request it sends to the API server is a      *)
(* step of its own, so that users, the endpoints controller, the garbage   *)
(* collector, watch deliveries and crashes interleave with a pass.         *)
(*                                                                         *)
(* Abstractions.  CreateOrPatch is one upsert that may be rejected, or     *)
(* applied with its answer lost.  Names are unique: a name stands for the  *)
(* same object in every namespace.  ClusterIPs, port numbers and specs     *)
(* are members of small sets; annotations and other labels are left out.   *)
(***************************************************************************)
EXTENDS Naturals, FiniteSets

CONSTANTS
    Monitors,        \* source ServiceMonitors
    Services,        \* source Services, and the Endpoints of the same name
    Secrets,         \* CA Secrets in the monitors' namespaces
    Namespaces,      \* namespaces that belong to projects
    ProjectProms,    \* the Prometheus of each Rancher project
    DefaultProm,     \* cattle-monitoring-system/rancher-monitoring-prometheus
    MonitorNs,       \* [Monitors -> namespace of the source monitor]
    PromNs,          \* [ProjectProms -> namespace of the Prometheus]
    RegistrationNs,  \* [ProjectProms -> its "cattle-project-<id>" namespace]
    MonSpecs,        \* the specs a source monitor may have
    Selects,         \* [MonSpecs -> the Services the spec selects]
    CARefs,          \* [MonSpecs -> the CA Secrets the spec names]
    PortNames, PortNums,  \* names and numbers of Service ports
    SvcPorts,        \* the port maps (name to number) a Service may have
    IPs,             \* ClusterIPs
    Data,            \* contents of a Secret
    None,            \* no such object, or a local that is not set
    Volatile,        \* which kinds of objects users change in an instance
    Resync,          \* whether the informers' periodic resync is explored
    MaxChanges, MaxFailures, MaxCrashes, MaxTampers   \* bounds of an instance

AllProms == ProjectProms \cup {DefaultProm}

ASSUME PromsAssumption == DefaultProm \notin ProjectProms
ASSUME NoneAssumption  == None \notin Monitors \cup Services \cup Secrets
                            \cup AllProms \cup MonSpecs \cup IPs \cup Data
\* Endpoints that are not there are told from those of a Service without ports.
ASSUME NoEndpointsAssumption == \A ports \in SUBSET PortNames : ports # None
\* A notification is about a Service or about a Prometheus.
ASSUME KindsAssumption == Services \cap AllProms = {}
ASSUME SpecsAssumption == /\ Selects \in [MonSpecs -> SUBSET Services]
                          /\ CARefs \in [MonSpecs -> SUBSET Secrets]
\* No two ports that a Service ever has share a number: the upsert of a renamed
\* port would otherwise give the API server a Service it does not accept.
ASSUME PortsAssumption ==
    /\ SvcPorts \subseteq UNION {[D -> PortNums] : D \in SUBSET PortNames}
    /\ \A f, g \in SvcPorts : \A n \in DOMAIN f, k \in DOMAIN g :
          f[n] = g[k] => n = k
ASSUME NamespacesAssumption == RegistrationNs \in [ProjectProms -> Namespaces]
\* What the API server stores is finite.
ASSUME FinitenessAssumption == /\ IsFiniteSet(Monitors) /\ IsFiniteSet(Services)
                               /\ IsFiniteSet(Secrets) /\ IsFiniteSet(ProjectProms)
ASSUME BoundsAssumption == {MaxChanges, MaxFailures, MaxCrashes, MaxTampers}
                              \subseteq Nat

VARIABLES
    mon,      \* source monitors: None or [fed, spec, lab]
    svc,      \* source Services: None or [ip, ports]
    ep,       \* source Endpoints: None or the names of the ports with addresses
    secret,   \* source Secrets: None or their data
    prom,     \* each Prometheus: [up, uid], uid counting its incarnations
    nsOf,     \* the project whose selector matches a namespace, or None
    everIn,   \* history: namespaces a project has ever had
    cMon,     \* copies of monitors: None or [uid, owner, spec, keep]
    made,     \* UIDs issued to the copies of a monitor in a project
    cSvc,     \* copies of Services: None or [owner, ports]
    cEp,      \* copies of Endpoints: None or [owner, ip, ports]
    cSec,     \* copies of Secrets: None or [owner, data]
    queue,    \* monitors in the work queue
    watch,    \* Services and Prometheuses with an undelivered notification
    w,        \* the worker and the locals of Reconcile
    missed,   \* history: monitors whose latest notification was dropped or never sent
    spent     \* what the bounds have left: [changes, failures, crashes, tampers]

source == <<mon, svc, ep, secret, prom, nsOf, everIn>>
copies == <<cMon, made, cSvc, cEp, cSec>>
vars   == <<source, copies, queue, watch, w, missed, spent>>
-----------------------------------------------------------------------------
(* The values of the state.                                                *)

PartialPorts == UNION {[D -> PortNums] : D \in SUBSET PortNames}
MonRec  == [fed : BOOLEAN, spec : MonSpecs, lab : BOOLEAN]
SvcRec  == [ip : IPs, ports : SvcPorts]

Owner   == Monitors \X Nat
CMonRec == [uid : Nat, owner : Nat, spec : MonSpecs, keep : SUBSET Namespaces]
CSvcRec == [owner : Owner, ports : PartialPorts]
CEpRec  == [owner : Owner, ip : IPs \cup {None}, ports : PartialPorts]
CSecRec == [owner : Owner, data : Data]

ASSUME NoObjectAssumption ==
    None \notin MonRec \cup CMonRec \cup CSvcRec \cup CEpRec \cup CSecRec

Stages == {"idle", "fetch", "services", "secrets", "next", "labels",
           "namespaces", "monitor", "copies", "endpoints", "down"}

WorkerRec == [pc : Stages, m : Monitors \cup {None}, spec : MonSpecs \cup {None},
              svcs : [Services -> SvcRec \cup {None}],
              secs : [Secrets -> Data \cup {None}],
              toGet : SUBSET Secrets, todo : [AllProms -> Nat],
              p : AllProms \cup {None}, keep : SUBSET Namespaces, tgt : Nat,
              s : Services \cup {None}, svcTodo : SUBSET Services,
              secTodo : SUBSET Secrets, errs : BOOLEAN]

Idle == [pc |-> "idle", m |-> None, spec |-> None,
         svcs |-> [s \in Services |-> None], secs |-> [x \in Secrets |-> None],
         toGet |-> {}, todo |-> [p \in AllProms |-> 0], p |-> None, keep |-> {},
         tgt |-> 0, s |-> None, svcTodo |-> {}, secTodo |-> {}, errs |-> FALSE]

\* A new pass over m, as processNextWorkItem starts it.
Pass(m) == [Idle EXCEPT !.pc = "fetch", !.m = m]

\* UpsertServicePort and UpsertEndpointPort, over a list of ports: a port of
\* a known name is updated, another is appended, none is ever removed.
UpsertPorts(ports, add) ==
    [n \in DOMAIN ports \cup DOMAIN add |->
        IF n \in DOMAIN add THEN add[n] ELSE ports[n]]

\* strings.Join(namespaces, "|"): what the keep relabelling lets through.
EveryProjectKept(p) == {n \in Namespaces : nsOf[n] # None}
KeptNamespaces(p) ==
    {n \in Namespaces : nsOf[n] = p /\ n # RegistrationNs[p]}

Exists(m)    == mon[m] # None
Federated(m) == Exists(m) /\ mon[m].fed
Existing     == {m \in Monitors : Exists(m)}

\* The outcome of a write: "lost" is applied, but answered with an error.
Outcomes == {"ok", "rejected", "lost"}
Spend(out) == /\ out = "ok" \/ spent.failures < MaxFailures
              /\ spent' = IF out = "ok" THEN spent
                          ELSE [spent EXCEPT !.failures = @ + 1]
SpendChange == /\ spent.changes < MaxChanges
               /\ spent' = [spent EXCEPT !.changes = @ + 1]
-----------------------------------------------------------------------------
Init ==
    /\ mon \in [Monitors -> [fed : {TRUE}, spec : MonSpecs, lab : {FALSE}]]
    /\ svc \in [Services -> SvcRec]
    /\ ep = [s \in Services |-> DOMAIN svc[s].ports]
    /\ secret \in [Secrets -> Data]
    /\ prom = [p \in AllProms |-> [up |-> TRUE, uid |-> 1]]
    /\ nsOf \in [Namespaces -> ProjectProms \cup {None}]
    /\ \A p \in ProjectProms : nsOf[RegistrationNs[p]] = p
    /\ everIn = [p \in ProjectProms |-> KeptNamespaces(p)]
    /\ cMon = [p \in ProjectProms |-> [m \in Monitors |-> None]]
    /\ made = [p \in ProjectProms |-> [m \in Monitors |-> 0]]
    /\ cSvc = [p \in ProjectProms |-> [s \in Services |-> None]]
    /\ cEp  = [p \in ProjectProms |-> [s \in Services |-> None]]
    /\ cSec = [p \in ProjectProms |-> [x \in Secrets |-> None]]
    /\ queue = Existing
    /\ watch = {}
    /\ w = Idle
    /\ missed = {}
    /\ spent = [changes |-> 0, failures |-> 0, crashes |-> 0, tampers |-> 0]
-----------------------------------------------------------------------------
(* How a pass ends.  Reconcile returns nil: the item is forgotten.  It     *)
(* returns an error: the item is added again, rate limited.  It panics:    *)
(* the wrapper panics again and the process dies with its queue.           *)

ReturnNil == w' = Idle /\ UNCHANGED queue
ErrorForgotten == ReturnNil
ReturnErr == w' = Idle /\ queue' = queue \cup {w.m}
Die       == w' = [Idle EXCEPT !.pc = "down"] /\ queue' = {} /\ watch' = {}

\* The workqueue hands m to the only worker.
Dequeue(m) ==
    /\ w.pc = "idle" /\ m \in queue
    /\ queue' = queue \ {m}
    /\ w' = Pass(m)
    /\ missed' = missed \ {m}
    /\ UNCHANGED <<source, copies, watch, spent>>

\* A request that fails before the loop over Prometheuses ends the pass.
RequestFails ==
    /\ w.pc \in {"fetch", "services", "secrets"}
    /\ Spend("rejected")
    /\ ReturnErr
    /\ UNCHANGED <<source, copies, watch, missed>>

\* Get of the ServiceMonitor, and the early returns that follow it.
FetchMonitor ==
    /\ w.pc = "fetch"
    /\ IF Federated(w.m)
         THEN /\ w' = [w EXCEPT !.pc = "services", !.spec = mon[w.m].spec]
              /\ UNCHANGED queue
         ELSE ReturnNil
    /\ UNCHANGED <<source, copies, watch, missed, spent>>

\* IsRancherManaged takes any error of the RESTMapper for "not Rancher".
DiscoveryFails ==
    /\ w.pc = "fetch" /\ Federated(w.m)
    /\ Spend("rejected")
    /\ ReturnNil
    /\ missed' = missed \cup {w.m}
    /\ UNCHANGED <<source, copies, watch>>

ListServices ==
    /\ w.pc = "services"
    /\ w' = [w EXCEPT !.pc = "secrets",
                      !.svcs = [s \in Services |->
                                  IF s \in Selects[w.spec] THEN svc[s] ELSE None],
                      !.toGet = CARefs[w.spec]]
    /\ UNCHANGED <<source, copies, queue, watch, missed, spent>>

\* A missing CA Secret is an error like any other.
GetSecret(x) ==
    /\ w.pc = "secrets" /\ x \in w.toGet
    /\ IF secret[x] = None
         THEN ReturnErr
         ELSE /\ w' = [w EXCEPT !.secs[x] = secret[x], !.toGet = @ \ {x}]
              /\ UNCHANGED queue
    /\ UNCHANGED <<source, copies, watch, missed, spent>>

ListProms ==
    /\ w.pc = "secrets" /\ w.toGet = {}
    /\ w' = [w EXCEPT !.pc = "next",
                      !.todo = [p \in AllProms |->
                                  IF prom[p].up THEN prom[p].uid ELSE 0]]
    /\ UNCHANGED <<source, copies, queue, watch, missed, spent>>

(* The loop over the Prometheuses listed.                                  *)

Listed(p) == w.todo[p] # 0

\* The body of the loop: a source monitor in the namespace of a project
\* Prometheus ends the pass, without an error and whatever was collected.
NextProm(p) ==
    /\ w.pc = "next" /\ Listed(p)
    /\ IF p # DefaultProm /\ PromNs[p] = MonitorNs[w.m]
         THEN ReturnNil
         ELSE /\ w' = [w EXCEPT !.p = p,
                         !.pc = IF p = DefaultProm THEN "labels" ELSE "namespaces"]
              /\ UNCHANGED queue
    /\ UNCHANGED <<source, copies, watch, missed, spent>>

\* What updateServiceMonitorLabels makes of the object read a moment before.
WholeObjectWritten == [mon[w.m] EXCEPT !.lab = TRUE, !.spec = w.spec]
LabelToggled == [mon[w.m] EXCEPT !.lab = ~ @]
Labelled == [mon[w.m] EXCEPT !.lab = TRUE]

\* updateServiceMonitorLabels: the patch carries the labels only, and leaves
\* the object just read in svcMon.  A source that is gone would be created
\* with a resourceVersion, which the API server rejects.
PatchLabels(out) ==
    /\ w.pc = "labels"
    /\ Exists(w.m) \/ out = "rejected"
    /\ IF Exists(w.m) THEN Spend(out) ELSE UNCHANGED spent
    /\ LET applied == Exists(w.m) /\ out # "rejected" IN
       /\ mon' = IF applied THEN [mon EXCEPT ![w.m] = Labelled] ELSE mon
       /\ queue' = IF mon' # mon THEN queue \cup {w.m} ELSE queue
       /\ w' = [w EXCEPT !.pc = "next", !.p = None, !.todo[DefaultProm] = 0,
                         !.spec = IF out = "ok" THEN mon[w.m].spec ELSE @,
                         !.errs = @ \/ out # "ok"]
    /\ UNCHANGED <<svc, ep, secret, prom, nsOf, everIn, copies, watch, missed>>

\* copyServiceMonitor lists the project's namespaces; an error leaves a nil
\* target and the loop goes on.
ListNamespaces(out) ==
    /\ w.pc = "namespaces" /\ out # "lost"
    /\ Spend(out)
    /\ w' = IF out = "ok"
              THEN [w EXCEPT !.pc = "monitor", !.keep = KeptNamespaces(w.p)]
              ELSE [w EXCEPT !.pc = "copies", !.errs = TRUE, !.tgt = 0,
                             !.svcTodo = {s \in Services : w.svcs[s] # None},
                             !.secTodo = {x \in Secrets : w.secs[x] # None}]
    /\ UNCHANGED <<source, copies, queue, watch, missed>>

\* What copyServiceMonitor makes of a copy, if there is one: owned by the
\* Prometheus that was listed, with the spec and the filter of this pass.
CopyWith(uid, owner, keep) ==
    [uid |-> uid, owner |-> owner, spec |-> w.spec, keep |-> keep]
OwnerOnCreateOnly(old, uid) ==
    CopyWith(uid, IF old = None THEN w.todo[w.p] ELSE old.owner, w.keep)
FilterOnCreateOnly(old, uid) ==
    CopyWith(uid, w.todo[w.p], IF old = None THEN w.keep ELSE old.keep)
MonitorCopy(old, uid) == CopyWith(uid, w.todo[w.p], w.keep)

CopyMonitor(out) ==
    /\ w.pc = "monitor"
    /\ Spend(out)
    /\ LET old == cMon[w.p][w.m]
           uid == IF old = None THEN made[w.p][w.m] + 1 ELSE old.uid
           applied == out # "rejected"
       IN
       /\ cMon' = IF applied
                    THEN [cMon EXCEPT ![w.p][w.m] = MonitorCopy(old, uid)]
                    ELSE cMon
       /\ made' = IF applied /\ old = None
                    THEN [made EXCEPT ![w.p][w.m] = @ + 1] ELSE made
       /\ w' = [w EXCEPT !.pc = "copies", !.keep = {},
                         !.tgt = IF out = "ok" THEN uid ELSE 0,
                         !.svcTodo = {s \in Services : w.svcs[s] # None},
                         !.secTodo = {x \in Secrets : w.secs[x] # None},
                         !.errs = @ \/ out # "ok"]
    /\ UNCHANGED <<source, cSvc, cEp, cSec, queue, watch, missed>>

\* metav1.NewControllerRef(targetSvcMon, ...), of a target that may be nil.
TargetRef        == <<w.m, w.tgt>>
NilTargetIgnored == FALSE
NilTarget        == w.tgt = 0

\* copyService and copySecret read the namespace of a nil target.
NilTargetPanics ==
    /\ w.pc = "copies" /\ NilTarget
    /\ w.svcTodo # {} \/ w.secTodo # {}
    /\ Die
    /\ UNCHANGED <<source, copies, missed, spent>>

CopyService(s, out) ==
    /\ w.pc = "copies" /\ ~ NilTarget /\ s \in w.svcTodo
    /\ Spend(out)
    /\ LET old == cSvc[w.p][s]
           ports == IF old = None THEN w.svcs[s].ports
                    ELSE UpsertPorts(old.ports, w.svcs[s].ports)
       IN cSvc' = IF out = "rejected" THEN cSvc
                  ELSE [cSvc EXCEPT ![w.p][s] =
                          [owner |-> TargetRef, ports |-> ports]]
    /\ w' = [w EXCEPT !.pc = "endpoints", !.s = s, !.svcTodo = @ \ {s},
                      !.errs = @ \/ out # "ok"]
    /\ UNCHANGED <<source, cMon, made, cEp, cSec, queue, watch, missed>>

\* ServicePortForName panics for a port that the Service of the snapshot,
\* unlike the Endpoints read now, does not have.
PortMissing == /\ w.pc = "endpoints" /\ ep[w.s] # None
               /\ ~ ep[w.s] \subseteq DOMAIN w.svcs[w.s].ports

PortPanics ==
    /\ PortMissing
    /\ Die
    /\ UNCHANGED <<source, copies, missed, spent>>

\* Get of the source Endpoints, then copyEndpoints: the copy gets the
\* ClusterIP as its address as soon as the source has a subset.
CopyEndpoints(out) ==
    /\ w.pc = "endpoints" /\ ~ PortMissing
    /\ ep[w.s] # None \/ out = "rejected"
    /\ IF ep[w.s] # None THEN Spend(out) ELSE UNCHANGED spent
    /\ LET old   == cEp[w.p][w.s]
           src   == w.svcs[w.s]
           ports == [n \in ep[w.s] |-> src.ports[n]]
       IN cEp' = IF out = "rejected" THEN cEp
                 ELSE [cEp EXCEPT ![w.p][w.s] =
                         [owner |-> TargetRef,
                          ip    |-> IF ep[w.s] # {} THEN src.ip
                                    ELSE IF old = None THEN None ELSE old.ip,
                          ports |-> IF old = None THEN ports
                                    ELSE UpsertPorts(old.ports, ports)]]
    /\ w' = [w EXCEPT !.pc = "copies", !.s = None, !.errs = @ \/ out # "ok"]
    /\ UNCHANGED <<source, cMon, made, cSvc, cSec, queue, watch, missed>>

\* The data is that of the Secret read before the loop.
SecretReadAgain(x) == [owner |-> TargetRef, data |-> secret[x]]
SecretCopy(x)      == [owner |-> TargetRef, data |-> w.secs[x]]

CopySecret(x, out) ==
    /\ w.pc = "copies" /\ ~ NilTarget /\ w.svcTodo = {} /\ x \in w.secTodo
    /\ Spend(out)
    /\ cSec' = IF out = "rejected" THEN cSec
               ELSE [cSec EXCEPT ![w.p][x] = SecretCopy(x)]
    /\ w' = [w EXCEPT !.secTodo = @ \ {x}, !.errs = @ \/ out # "ok"]
    /\ UNCHANGED <<source, cMon, made, cSvc, cEp, queue, watch, missed>>

EndOfProm ==
    /\ w.pc = "copies" /\ w.svcTodo = {} /\ w.secTodo = {}
    /\ w' = [w EXCEPT !.pc = "next", !.todo[w.p] = 0, !.p = None, !.tgt = 0]
    /\ UNCHANGED <<source, copies, queue, watch, missed, spent>>

\* return ctrl.Result{}, errors.NewAggregate(errList)
FinishPass ==
    /\ w.pc = "next" /\ \A p \in AllProms : ~ Listed(p)
    /\ IF w.errs THEN ReturnErr ELSE ReturnNil
    /\ UNCHANGED <<source, copies, watch, missed, spent>>
-----------------------------------------------------------------------------
(* Notifications.                                                          *)

\* ServiceMonitorsForService and ServiceMonitorsForPrometheus.
ServiceMonitorsFor(e) ==
    {m \in Monitors : /\ Federated(m)
                      /\ e \in Services => e \in Selects[mon[m].spec]}

Deliver(e) ==
    /\ w.pc # "down" /\ e \in watch
    /\ watch' = watch \ {e}
    /\ queue' = queue \cup ServiceMonitorsFor(e)
    /\ UNCHANGED <<source, copies, w, missed, spent>>

\* A List that fails in the mapping function drops the notification.
MapFails(e) ==
    /\ w.pc # "down" /\ e \in watch
    /\ Spend("rejected")
    /\ watch' = watch \ {e}
    /\ missed' = missed \cup {m \in Monitors : Federated(m)}
    /\ UNCHANGED <<source, copies, queue, w>>

\* The informer hands every monitor it knows to the handler again.
ResyncMonitor(m) ==
    /\ Resync /\ w.pc # "down" /\ Exists(m) /\ m \notin queue
    /\ queue' = queue \cup {m}
    /\ UNCHANGED <<source, copies, watch, w, missed, spent>>

Crash ==
    /\ w.pc # "down" /\ spent.crashes < MaxCrashes
    /\ spent' = [spent EXCEPT !.crashes = @ + 1]
    /\ Die
    /\ UNCHANGED <<source, copies, missed>>


\* The initial List of the informers enqueues every monitor.
Restart ==
    /\ w.pc = "down"
    /\ w' = Idle
    /\ queue' = Existing
    /\ UNCHANGED <<source, copies, watch, missed, spent>>
-----------------------------------------------------------------------------
(* The rest of the cluster.  A process that is down gets no notification.  *)

Notify(e)  == watch' = IF w.pc = "down" THEN watch ELSE watch \cup {e}
Enqueue(m) == queue' = IF w.pc = "down" THEN queue ELSE queue \cup {m}

\* A user edits, deletes or creates a source monitor.
ChangeMonitor(m, new) ==
    /\ "monitor" \in Volatile /\ new # mon[m]
    /\ SpendChange
    /\ mon' = [mon EXCEPT ![m] = new]
    /\ Enqueue(m)
    /\ UNCHANGED <<svc, ep, secret, prom, nsOf, everIn, copies, watch, w, missed>>

\* A user edits, deletes or creates a Service; its ClusterIP is for life.
ChangeService(s, new) ==
    /\ "service" \in Volatile /\ new # svc[s]
    /\ svc[s] # None /\ new # None => svc[s].ip = new.ip
    /\ SpendChange
    /\ svc' = [svc EXCEPT ![s] = new]
    /\ Notify(s)
    /\ UNCHANGED <<mon, ep, secret, prom, nsOf, everIn, copies, queue, w, missed>>

ChangeSecret(x, new) ==
    /\ "secret" \in Volatile /\ new # secret[x]
    /\ SpendChange
    /\ secret' = [secret EXCEPT ![x] = new]
    /\ UNCHANGED <<mon, svc, ep, prom, nsOf, everIn, copies, queue, watch, w, missed>>

\* A Prometheus is deleted, or created again under a new UID.
ChangeProm(p) ==
    /\ "prom" \in Volatile
    /\ SpendChange
    /\ prom' = [prom EXCEPT ![p] = IF @.up THEN [@ EXCEPT !.up = FALSE]
                                   ELSE [up |-> TRUE, uid |-> @.uid + 1]]
    /\ Notify(p)
    /\ UNCHANGED <<mon, svc, ep, secret, nsOf, everIn, copies, queue, w, missed>>

\* A namespace moves to another project, or out of all of them.
MoveNamespace(n, p) ==
    /\ "namespace" \in Volatile /\ nsOf[n] # p
    /\ \A q \in ProjectProms : n # RegistrationNs[q]
    /\ SpendChange
    /\ nsOf' = [nsOf EXCEPT ![n] = p]
    /\ everIn' = IF p = None THEN everIn ELSE [everIn EXCEPT ![p] = @ \cup {n}]
    /\ UNCHANGED <<mon, svc, ep, secret, prom, copies, queue, watch, w, missed>>

\* The endpoints controller follows the Service, later.
SyncEndpoints(s) ==
    LET ready == IF svc[s] = None THEN None ELSE DOMAIN svc[s].ports IN
    /\ ep[s] # ready
    /\ ep' = [ep EXCEPT ![s] = ready]
    /\ UNCHANGED <<mon, svc, secret, prom, nsOf, everIn, copies, queue, watch,
                   w, missed, spent>>

\* No pod of the Service is ready: its Endpoints have no subset.
PodsNotReady(s) ==
    /\ "service" \in Volatile /\ svc[s] # None /\ ep[s] # {}
    /\ SpendChange
    /\ ep' = [ep EXCEPT ![s] = {}]
    /\ UNCHANGED <<mon, svc, secret, prom, nsOf, everIn, copies, queue, watch,
                   w, missed>>

\* The garbage collector deletes what a Prometheus that is gone, or the copy
\* of a monitor that is gone, owned.
PromLives(p, uid)    == prom[p].up /\ prom[p].uid = uid
MonitorLives(p, own) == /\ cMon[p][own[1]] # None
                        /\ cMon[p][own[1]].uid = own[2]

CollectMonitor(p, m) ==
    /\ cMon[p][m] # None /\ ~ PromLives(p, cMon[p][m].owner)
    /\ cMon' = [cMon EXCEPT ![p][m] = None]
    /\ UNCHANGED <<source, made, cSvc, cEp, cSec, queue, watch, w, missed, spent>>

CollectService(p, s) ==
    /\ cSvc[p][s] # None /\ ~ MonitorLives(p, cSvc[p][s].owner)
    /\ cSvc' = [cSvc EXCEPT ![p][s] = None]
    /\ UNCHANGED <<source, cMon, made, cEp, cSec, queue, watch, w, missed, spent>>

CollectEndpoints(p, s) ==
    /\ cEp[p][s] # None /\ ~ MonitorLives(p, cEp[p][s].owner)
    /\ cEp' = [cEp EXCEPT ![p][s] = None]
    /\ UNCHANGED <<source, cMon, made, cSvc, cSec, queue, watch, w, missed, spent>>

CollectSecret(p, x) ==
    /\ cSec[p][x] # None /\ ~ MonitorLives(p, cSec[p][x].owner)
    /\ cSec' = [cSec EXCEPT ![p][x] = None]
    /\ UNCHANGED <<source, cMon, made, cSvc, cEp, queue, watch, w, missed, spent>>

\* A user of the project deletes the copy of a monitor, which nothing announces.
DeleteCopy(p, m) ==
    /\ spent.tampers < MaxTampers /\ cMon[p][m] # None
    /\ spent' = [spent EXCEPT !.tampers = @ + 1]
    /\ cMon' = [cMon EXCEPT ![p][m] = None]
    /\ missed' = missed \cup {n \in Monitors : Federated(n)}
    /\ UNCHANGED <<source, made, cSvc, cEp, cSec, queue, watch, w>>
-----------------------------------------------------------------------------
PassStep ==
    \/ RequestFails \/ FetchMonitor \/ DiscoveryFails \/ ListServices
    \/ \E x \in Secrets : GetSecret(x)
    \/ ListProms
    \/ \E p \in AllProms : NextProm(p)
    \/ \E out \in Outcomes : \/ PatchLabels(out) \/ ListNamespaces(out)
                             \/ CopyMonitor(out) \/ CopyEndpoints(out)
                             \/ \E s \in Services : CopyService(s, out)
                             \/ \E x \in Secrets : CopySecret(x, out)
    \/ NilTargetPanics \/ PortPanics \/ EndOfProm \/ FinishPass

Collect == \E p \in ProjectProms :
    \/ \E m \in Monitors : CollectMonitor(p, m)
    \/ \E s \in Services : CollectService(p, s) \/ CollectEndpoints(p, s)
    \/ \E x \in Secrets : CollectSecret(p, x)

Change ==
    \/ \E m \in Monitors : \E new \in MonRec \cup {None} : ChangeMonitor(m, new)
    \/ \E s \in Services : \/ \E new \in SvcRec \cup {None} : ChangeService(s, new)
                           \/ PodsNotReady(s)
    \/ \E x \in Secrets : \E new \in Data \cup {None} : ChangeSecret(x, new)
    \/ \E p \in AllProms : ChangeProm(p)
    \/ \E n \in Namespaces : \E p \in ProjectProms \cup {None} : MoveNamespace(n, p)
    \/ \E p \in ProjectProms : \E m \in Monitors : DeleteCopy(p, m)

Next ==
    \/ \E m \in Monitors : Dequeue(m) \/ ResyncMonitor(m)
    \/ PassStep
    \/ \E e \in Services \cup AllProms : Deliver(e) \/ MapFails(e)
    \/ Crash \/ Restart
    \/ \E s \in Services : SyncEndpoints(s)
    \/ Collect
    \/ Change

\* Fairness of what runs by itself: the worker, the informers, the endpoints
\* controller, the garbage collector and the kubelet that restarts the pod.
\* The queue is first in, first out, hence strong fairness for each monitor.
\* Nothing is assumed of users, failures and crashes.
Fairness ==
    /\ WF_vars(PassStep) /\ WF_vars(Restart) /\ WF_vars(Collect)
    /\ \A m \in Monitors : SF_vars(Dequeue(m)) /\ WF_vars(ResyncMonitor(m))
    /\ \A e \in Services \cup AllProms : WF_vars(Deliver(e))
    /\ \A s \in Services : WF_vars(SyncEndpoints(s))

Spec     == Init /\ [][Next]_vars
FairSpec == Spec /\ Fairness
-----------------------------------------------------------------------------
(* Properties.                                                             *)

SourceOK ==
    /\ mon \in [Monitors -> MonRec \cup {None}]
    /\ svc \in [Services -> SvcRec \cup {None}]
    /\ ep \in [Services -> (SUBSET PortNames) \cup {None}]
    /\ secret \in [Secrets -> Data \cup {None}]
    /\ prom \in [AllProms -> [up : BOOLEAN, uid : Nat]]
    /\ nsOf \in [Namespaces -> ProjectProms \cup {None}]
    /\ everIn \in [ProjectProms -> SUBSET Namespaces]

CopiesOK ==
    /\ cMon \in [ProjectProms -> [Monitors -> CMonRec \cup {None}]]
    /\ made \in [ProjectProms -> [Monitors -> Nat]]
    /\ cSvc \in [ProjectProms -> [Services -> CSvcRec \cup {None}]]
    /\ cEp \in [ProjectProms -> [Services -> CEpRec \cup {None}]]
    /\ cSec \in [ProjectProms -> [Secrets -> CSecRec \cup {None}]]

ControlOK ==
    /\ queue \subseteq Monitors
    /\ watch \subseteq Services \cup AllProms
    /\ missed \subseteq Monitors
    /\ spent \in [changes : Nat, failures : Nat, crashes : Nat, tampers : Nat]

\* Type correctness of the API objects, of the queue and of Reconcile's locals.
TypeOK == SourceOK /\ CopiesOK /\ ControlOK /\ w \in WorkerRec

\* Reconcile gives up at a source monitor in the namespace of a project
\* Prometheus, for every Prometheus, until that Prometheus is gone.
Blocked(m) == \E p \in ProjectProms : prom[p].up /\ PromNs[p] = MonitorNs[m]

\* A pass over m is bound to start: it is queued, a notification will queue
\* it, or the process will restart.  Dropped notifications, and copies that users
\* delete, are set apart.
Pending(m) ==
    \/ m \in queue \cup missed
    \/ w.pc = "down"
    \/ \E e \in watch : m \in ServiceMonitorsFor(e)

\* The pass in progress is over m and has yet to finish with p, or to fail.
InProgress(m, p) ==
    w.m = m /\ (w.pc \in {"fetch", "services", "secrets"} \/ w.errs \/ Listed(p))

OwnedNow(p, own) == MonitorLives(p, own) /\ PromLives(p, cMon[p][own[1]].owner)

MonitorMirrored(p, m) ==
    /\ cMon[p][m] # None
    /\ cMon[p][m].spec = mon[m].spec
    /\ PromLives(p, cMon[p][m].owner)

ServiceMirrored(p, s) ==
    /\ cSvc[p][s] # None /\ OwnedNow(p, cSvc[p][s].owner)
    /\ \A n \in DOMAIN svc[s].ports :
          /\ n \in DOMAIN cSvc[p][s].ports
          /\ cSvc[p][s].ports[n] = svc[s].ports[n]
    /\ cEp[p][s] # None /\ OwnedNow(p, cEp[p][s].owner)

SecretMirrored(p, x) == cSec[p][x] # None /\ OwnedNow(p, cSec[p][x].owner)

Mirrored(m, p) ==
    /\ MonitorMirrored(p, m)
    /\ \A s \in Selects[mon[m].spec] : svc[s] # None => ServiceMirrored(p, s)
    /\ \A x \in CARefs[mon[m].spec] : SecretMirrored(p, x)

\* Level-triggered reconciliation loses nothing.  Whatever users, the garbage
\* collector and failed requests do while passes run on what they read
\* earlier, the copies of a federated monitor in a project are up to date and
\* owned by objects that live, or a pass that will write them is pending or in
\* progress (Reconcile, its errors and the mapping functions together).
FreshOrPending ==
    \A m \in Monitors : Federated(m) /\ ~ Blocked(m) /\ ~ Pending(m) =>
      /\ prom[DefaultProm].up => mon[m].lab \/ InProgress(m, DefaultProm)
      /\ \A p \in ProjectProms :
           prom[p].up => Mirrored(m, p) \/ InProgress(m, p)

\* Every copy of a Service, Endpoints or Secret is owned by a copy of a
\* monitor that was created in the same namespace, so that the garbage
\* collector can delete it: copyService, copyEndpoints and copySecret never
\* use the target of another Prometheus or of an earlier, failed write.
Issued(p, own) == /\ own[1] \in Monitors
                  /\ 1 <= own[2] /\ own[2] <= made[p][own[1]]

OwnersIssuedHere ==
    \A p \in ProjectProms :
      /\ \A s \in Services : /\ cSvc[p][s] # None => Issued(p, cSvc[p][s].owner)
                             /\ cEp[p][s] # None => Issued(p, cEp[p][s].owner)
      /\ \A x \in Secrets : cSec[p][x] # None => Issued(p, cSec[p][x].owner)

\* A project sees the metrics of its own namespaces only: the keep relabelling
\* of a copy lets no namespace through that never belonged to the project, nor
\* the project's registration namespace, although the worker lists the
\* namespaces of one Prometheus after the other while they move.
Isolation ==
    \A p \in ProjectProms : \A m \in Monitors :
      cMon[p][m] # None => /\ cMon[p][m].keep \subseteq everIn[p]
                           /\ RegistrationNs[p] \notin cMon[p][m].keep

\* updateServiceMonitorLabels writes to the source with what it read at the
\* start of the pass at hand: it never undoes an edit a user made since.
UserEditsSurvive ==
    [][PassStep => \A m \in Monitors :
         /\ Exists(m) <=> Exists(m)'
         /\ Exists(m) => mon'[m].fed = mon[m].fed /\ mon'[m].spec = mon[m].spec]_vars


\* What a pass needs to end without an error.
SecretsPresent(m) == \A x \in CARefs[mon[m].spec] : secret[x] # None



\* Quiesces without fairness: how far the controller and what runs beside it are
\* from rest.  A pass that is doomed comes back, or has to; each unlabelled monitor
\* is patched once, which queues it; a notification queues monitors, a monitor
\* in the queue is a pass, and a pass has its loops.
Synced(s) == ep[s] = IF svc[s] = None THEN None ELSE DOMAIN svc[s].ports
PortsKnown(s, src) == ep[s] # None /\ ep[s] \subseteq DOMAIN src.ports

Doomed ==
    \/ w.pc = "down" \/ w.errs
    \/ w.pc = "copies" /\ NilTarget
    \/ w.pc \notin {"idle", "fetch", "down"} /\ ~ Exists(w.m)
    \/ w.pc = "services" /\ \E x \in CARefs[w.spec] : secret[x] = None
    \/ \E x \in w.toGet : secret[x] = None
    \/ \E s \in Services : w.svcs[s] # None /\ ~ PortsKnown(s, w.svcs[s])

Unsynced   == {s \in Services : ~ Synced(s)}
Unlabelled == {m \in Existing : ~ mon[m].lab}
Unvisited  == {p \in AllProms : Listed(p)}
Filled(c, Names) == {x \in ProjectProms \X Names : c[x[1]][x[2]] # None}

Phase == CASE w.pc = "fetch" -> 3 [] w.pc = "services" -> 2
           [] w.pc = "secrets" -> 1 [] OTHER -> 0
Stage == CASE w.pc = "next" -> 3 [] w.pc \in {"labels", "namespaces"} -> 2
           [] w.pc = "monitor" -> 1 [] OTHER -> 0
ServiceWrites == 2 * Cardinality(w.svcTodo) + (IF w.pc = "endpoints" THEN 1 ELSE 0)
CopiesHeld ==
    Cardinality(Filled(cMon, Monitors)) + Cardinality(Filled(cSvc, Services))
    + Cardinality(Filled(cEp, Services)) + Cardinality(Filled(cSec, Secrets))

Distance ==
    << Cardinality(Unsynced), IF Doomed THEN 1 ELSE 0, Cardinality(Unlabelled),
       Cardinality(watch), Cardinality(queue), Phase, Cardinality(w.toGet),
       Cardinality(Unvisited), Stage, ServiceWrites, Cardinality(w.secTodo), CopiesHeld >>
Below(a, b) ==
    \E i \in DOMAIN b : a[i] < b[i] /\ \A j \in 1 .. i - 1 : a[j] = b[j]

\* What a pass over any monitor needs to end without an error.
Calm == /\ \A m \in Monitors : Federated(m) => SecretsPresent(m)
        /\ \A s \in Services : svc[s] # None => PortsKnown(s, svc[s])

\* No step is in vain.  While users, failures and crashes leave a cluster alone
\* that has its Secrets and Endpoints, every step of the worker, of a watch, of
\* the endpoints controller or the garbage collector brings it closer to rest,
\* from whatever state it was left in: neither the label patch, which the
\* controller is notified of, nor what one step undoes of another, nor a restart
\* starts a round that never ends.
ComesCloser ==
    [][Calm /\ spent' = spent /\ ~ (\E m \in Monitors : ResyncMonitor(m))
         => Below(Distance', Distance)]_vars

\* What no notification announces - a namespace that moved, a renewed CA, pods
\* that became ready, a copy that was deleted, a dropped event - reaches the
\* copies with the informers' resync.
Current(m, p) ==
    /\ Mirrored(m, p)
    /\ cMon[p][m].keep = KeptNamespaces(p)
    /\ \A s \in Selects[mon[m].spec] : svc[s] # None =>
          /\ cEp[p][s].ip = svc[s].ip
          /\ \A n \in DOMAIN svc[s].ports : /\ n \in DOMAIN cEp[p][s].ports
                                            /\ cEp[p][s].ports[n] = svc[s].ports[n]
    /\ \A x \in CARefs[mon[m].spec] : cSec[p][x].data = secret[x]

ResyncRepairs ==
    Resync => <>[](\A m \in Monitors :
      Federated(m) /\ ~ Blocked(m) /\ SecretsPresent(m) =>
        \A p \in ProjectProms : prom[p].up => Current(m, p))
=============================================================================
