--------------------------- MODULE RancherProjects ---------------------------
(***************************************************************************)
(* ListRancherProjects (main.go): the Rancher projects of a cluster, put   *)
(* together from a List of the namespaces, for each project the presets of *)
(* its namespaces, the id of the system project and, for each Prometheus,  *)
(* the Alertmanager beside it and the URLs of its Helm chart.  Every       *)
(* request is a step, between which namespaces move and objects come and   *)
(* go.  And CreateServiceMonitor (panopticon/lib.go), which reads the same *)
(* labels: the namespaces of the project of a Prometheus become a rule of  *)
(* the ServiceMonitor with which that Prometheus scrapes panopticon.  One  *)
(* call of either is made; what happened before it is in Init.             *)
(*                                                                         *)
(* Abstractions.  Names are numbers in the order in which a List returns   *)
(* them.  A kind that is not installed is one without objects (NoMatch is  *)
(* ignored).  An Alertmanager stands for those of its namespace, and the   *)
(* URLs of a project for the Prometheus they belong to.  UIDs and          *)
(* selectors of a project repeat its id and are left out.  A ServiceMonitor *)
(* is the set of namespaces that its rule keeps, and {} when it has none;  *)
(* all else in it is the same on every call.                               *)
(***************************************************************************)
EXTENDS Integers, FiniteSets, FiniteSetsExt

CONSTANTS
    Namespaces,     \* names of namespaces
    DefaultNs,      \* "default"
    SystemNs,       \* "kube-system"
    RancherNs,      \* "cattle-monitoring-system"
    Operated,       \* names that begin with "cattle-project-p-"
    HelmProject,    \* [Operated -> the project the namespace was created for]
    Projects,       \* ids of projects
    Names,          \* names of presets
    Proms,          \* Prometheuses
    PromNs,         \* [Proms -> the namespace it lives in]
    Selects,        \* [Proms -> the project its namespace selector names]
    None,           \* no object, no label, nothing yet
    MaxChanges, MaxFailures   \* bounds of an instance

Cluster == 0        \* the namespace of a ClusterChartPreset

ASSUME NumbersAssumption == /\ Namespaces \subseteq Nat \ {Cluster}
                            /\ Proms \subseteq Nat
                            /\ None \notin Nat \cup Projects
ASSUME NamesAssumption   == /\ {DefaultNs, SystemNs, RancherNs} \subseteq Namespaces
                            /\ Operated \subseteq Namespaces
                            /\ {DefaultNs, SystemNs, RancherNs} \cap Operated = {}
                            /\ HelmProject \in [Operated -> Projects]
ASSUME PromsAssumption   == /\ PromNs \in [Proms -> Namespaces]
                            /\ Selects \in [Proms -> Projects \cup {None}]
ASSUME BoundsAssumption  == {MaxChanges, MaxFailures} \subseteq Nat

VARIABLES
    ns,        \* each namespace: None or [project, born], born its creation time
    presets,   \* presets, <<namespace, name>>; Cluster for ClusterChartPresets
    up,        \* the Prometheuses there are
    ams,       \* the namespaces with an Alertmanager
    rancher,   \* whether Rancher manages the cluster
    monitor,   \* panopticon's ServiceMonitor, or None
    w,         \* the call and its locals
    touched,   \* history: what changed since it was read first
    mistaken,  \* history: Rancher was not recognised
    spent      \* [changes, failures] so far

cluster == <<ns, presets, up, ams, rancher, monitor>>
vars    == <<cluster, w, touched, mistaken, spent>>

Preset     == (Namespaces \cup {Cluster}) \X Names
NsRec      == [project : Projects \cup {None}, born : Nat]
Monitoring == [prom : Proms, am : Namespaces, urls : Proms \cup {None}]
Project    == [type : {"User", "Default", "System"}, created : Nat,
               namespaces : SUBSET Namespaces, presets : SUBSET Preset,
               mon : Monitoring \cup {None}]

ASSUME NoneAssumption == None \notin NsRec \cup Monitoring \cup Project

Exists(n)  == ns[n] # None
Existing   == {n \in Namespaces : Exists(n)}
Members(j) == {n \in Existing : ns[n].project = j}

NoProjects == [j \in Projects |-> None]
Nothing    == [ns |-> {}, presets |-> {}, proms |-> {}, ams |-> {}, monitor |-> {}]

Idle == [pc |-> "namespaces", projects |-> NoProjects, todo |-> {}, j |-> None,
         left |-> {}, found |-> {}, sys |-> None, proms |-> {},
         prom |-> None, keep |-> {}, got |-> None]

Over(pc)    == [Idle EXCEPT !.pc = pc]                       \* with no result
Monitors(p) == [Idle EXCEPT !.pc = "managed", !.prom = p]   \* CreateServiceMonitor

Init ==
    /\ ns \in [Namespaces -> [project : Projects \cup {None}, born : {1}] \cup {None}]
    /\ \A n \in Namespaces \ Operated : Exists(n)
    /\ ns[RancherNs].project = ns[SystemNs].project    \* until it is moved
    /\ presets \in {{}, {x \in Preset : x[1] = Cluster \/ Exists(x[1])}}
    /\ up = {p \in Proms : Exists(PromNs[p])}
    /\ ams = {PromNs[p] : p \in up}
    /\ rancher \in BOOLEAN
    /\ \/ w = Idle /\ monitor = None
       \/ (\E p \in up : w = Monitors(p)) /\ monitor \in {None, Namespaces}
    /\ touched = Nothing /\ mistaken = FALSE
    /\ spent = [changes |-> 0, failures |-> 0]

---------------------------------------------------------------------------
(* The call.  Each action is one request and what the code does with the   *)
(* answer, up to the next request.                                         *)

Is(pc)     == w.pc = pc
Call(w1)   == w' = w1 /\ UNCHANGED <<cluster, touched, mistaken, spent>>
ProjectOf(nss) ==
    [type |-> IF SystemNs \in nss THEN "System"
              ELSE IF DefaultNs \in nss THEN "Default" ELSE "User",
     created |-> Min({ns[n].born : n \in nss}),
     namespaces |-> nss, presets |-> {}, mon |-> None]

(* kube-system comes after default in the List, and so has the last word.  *)
ListNamespaces ==
    /\ Is("namespaces")
    /\ LET listed == {j \in Projects : Members(j) # {}} IN
       Call([w EXCEPT !.pc = IF listed = {} THEN "rancher" ELSE "projects", !.todo = listed,
                      !.projects = [j \in Projects |-> IF j \in listed
                                        THEN ProjectOf(Members(j)) ELSE None]])

(* What a namespace adds to the presets of its project.                    *)
PresetsOf(prj, n) ==
    IF prj.type = "System"
    THEN {x \in presets : n = SystemNs /\ x[1] = Cluster}
    ELSE {x \in presets : x[1] = n}

EveryNsUser(prj) == prj.namespaces \cap Operated = {}   \* a mutant of HasUserNs
HasUserNs(prj) == ~ prj.namespaces \subseteq Operated

(* Two mutants of Finish: j outlives the project, the slice of presets too. *)
LoopVarKept(j, found) ==
    [w EXCEPT !.projects[j].presets = found, !.todo = @ \ {j}, !.left = {}, !.found = {},
              !.pc = IF w.todo = {j} THEN "rancher" ELSE "projects"]
FoundKept(j, found) ==
    [w EXCEPT !.projects[j].presets = found, !.todo = @ \ {j}, !.j = None, !.left = {},
              !.found = found, !.pc = IF w.todo = {j} THEN "rancher" ELSE "projects"]

(* The locals of the loop over projects end with the last namespace.       *)
Finish(j, found) ==
    LET prj  == w.projects[j]
        rest == w.todo \ {j}
        kept == IF HasUserNs(prj) THEN [prj EXCEPT !.presets = found] ELSE None
    IN [w EXCEPT !.projects[j] = kept, !.todo = rest, !.j = None, !.left = {}, !.found = {},
                 !.pc = IF rest = {} THEN "rancher" ELSE "projects"]

(* One namespace of project j, the loop over projects being in the order   *)
(* of a Go map.                                                            *)
Visit(j) ==
    /\ Is("projects") /\ j \in w.todo /\ w.j \in {None, j}
    /\ LET prj   == w.projects[j]
           left  == IF w.j = None THEN prj.namespaces ELSE w.left
           n     == Min(left)
           found == w.found \cup PresetsOf(prj, n)
       IN Call(IF left = {n} THEN Finish(j, found)
               ELSE [w EXCEPT !.j = j, !.left = left \ {n}, !.found = found])

(* IsRancherManaged takes an error of discovery for an answer.             *)
Answered(yes) ==
    [w EXCEPT !.pc = CASE Is("rancher") -> (IF yes THEN "system" ELSE "done")
                       [] OTHER         -> (IF yes THEN "seed" ELSE "get")]
AskRancher ==
    /\ Is("rancher") \/ Is("managed")
    /\ \/ Call(Answered(rancher))
       \/ /\ rancher /\ spent.failures < MaxFailures
          /\ w' = Answered(FALSE) /\ mistaken' = TRUE
          /\ spent' = [spent EXCEPT !.failures = @ + 1]
          /\ UNCHANGED <<cluster, touched>>

GetSystemProject ==
    Is("system") /\ Call([w EXCEPT !.pc = "listproms", !.sys = ns[SystemNs].project])

NextProm(w1) == [w1 EXCEPT !.pc = IF w1.proms = {} THEN "done" ELSE "proms"]

ListProms == Is("listproms") /\ Call(NextProm([w EXCEPT !.proms = up]))

PromProject(p, sys) == IF PromNs[p] = RancherNs THEN sys ELSE Selects[p]
Known(j)            == j # None /\ w.projects[j] # None
HasSibling(p)        == PromNs[p] \in ams     \* an Alertmanager beside it
WithMonitoring(j, m) == [w EXCEPT !.projects[j].mon = m]

(* A Prometheus of a project that is not in the map is skipped without a   *)
(* request; the last one of a project overwrites those before it.          *)
SkipProm ==
    /\ Is("proms") /\ ~ Known(PromProject(Min(w.proms), w.sys))
    /\ Call(NextProm([w EXCEPT !.proms = @ \ {Min(@)}]))

(* Two mutants of ListAlertmanagers: the List is not limited to the         *)
(* namespace, and a project that is not in the map is written to it.       *)
AnyAlertmanager ==
    /\ Is("proms") /\ ams # {}
    /\ LET p == Min(w.proms)
           j == PromProject(p, w.sys)
       IN /\ Known(j)
          /\ Call(NextProm([WithMonitoring(j, [prom |-> p, am |-> Min(ams), urls |-> p])
                            EXCEPT !.proms = @ \ {p}]))
NotFoundIgnored ==
    /\ Is("proms")
    /\ LET p == Min(w.proms)
           j == PromProject(p, w.sys)
       IN /\ j # None /\ HasSibling(p)
          /\ Call(NextProm([w EXCEPT !.proms = @ \ {p}, !.projects[j] =
                     [type |-> "User", created |-> 0, namespaces |-> {}, presets |-> {},
                      mon |-> [prom |-> p, am |-> PromNs[p], urls |-> p]]]))

(* FindSiblingAlertManagerForPrometheus returns nil when there is none, and *)
(* the caller reads its fields.  The system project has the external URLs  *)
(* of its objects, the others those of their Helm chart: one more Get.     *)
ListAlertmanagers ==
    /\ Is("proms")
    /\ LET p == Min(w.proms)
           j == PromProject(p, w.sys)
           mon(urls) == [prom |-> p, am |-> PromNs[p], urls |-> urls]
       IN /\ Known(j)
          /\ Call(IF ~ HasSibling(p) THEN Over("died")
                  ELSE IF j = w.sys
                  THEN NextProm([WithMonitoring(j, mon(p)) EXCEPT !.proms = @ \ {p}])
                  ELSE [WithMonitoring(j, mon(None)) EXCEPT !.pc = "urls"])

(* DetectProjectMonitoringURLs: a Get that fails leaves the URLs empty.    *)
GetUrls(found) ==
    /\ Is("urls")
    /\ LET p == Min(w.proms) IN
       Call(NextProm([w EXCEPT !.projects[Selects[p]].mon.urls = IF found THEN p ELSE None,
                               !.proms = @ \ {p}]))

(* A failed request ends the call without a result.                         *)
Requesting ==
    \/ w.pc \in {"namespaces", "projects", "system", "listproms", "seed", "members", "get", "write"}
    \/ Is("proms") /\ Known(PromProject(Min(w.proms), w.sys))
FailsTo(w1) ==
    /\ Requesting /\ spent.failures < MaxFailures
    /\ w' = w1
    /\ spent' = [spent EXCEPT !.failures = @ + 1]
    /\ UNCHANGED <<cluster, touched, mistaken>>
ErrorDropped ==    \* a mutant of RequestFails
    FailsTo(IF Is("members") THEN [w EXCEPT !.pc = "get"] ELSE Over("failed"))
RequestFails == FailsTo(Over("failed"))

---------------------------------------------------------------------------
(* CreateServiceMonitor for Prometheus w.prom.                             *)

Fail == Call(Over("failed"))

(* ListProjectNamespaces: a namespace outside of all projects gives none,  *)
(* and no rule.                                                            *)
GetSeed ==
    /\ Is("seed")
    /\ LET seed == ns[PromNs[w.prom]]
       IN IF seed = None THEN Fail
          ELSE Call([w EXCEPT !.j = seed.project,
                              !.pc = IF seed.project = None THEN "get" ELSE "members"])

ListMembers == Is("members") /\ Call([w EXCEPT !.keep = Members(w.j), !.pc = "get"])

GetMonitor == Is("get") /\ Call([w EXCEPT !.got = monitor, !.pc = "write"])

(* CreateOrPatch: Create fails when the object, or no longer the namespace, *)
(* exists; Patch sends a rule that differs from the one that was got, and  *)
(* fails when the object is gone.                                          *)
Rule == IF w.got = w.keep THEN monitor ELSE w.keep
WriteMonitor ==
    /\ Is("write")
    /\ IF ~ Exists(PromNs[w.prom]) \/ (w.got = None) # (monitor = None) THEN Fail
       ELSE /\ monitor' = Rule
            /\ w' = [w EXCEPT !.pc = "created"]
            /\ UNCHANGED <<ns, presets, up, ams, rancher, touched, mistaken, spent>>

---------------------------------------------------------------------------
(* The cluster, until the call ends.  What changes after the first List is *)
(* remembered as touched.                                                  *)

Ended   == w.pc \in {"done", "created", "failed", "died"}
Unread  == w.pc \in {"namespaces", "managed", "seed"}
Reads   == IF w.prom = None THEN {"ns", "presets", "proms", "ams"} ELSE {"ns", "monitor"}

(* What the call does not read need not change.                            *)
Changes(kind, x) ==
    /\ kind \in Reads /\ ~ Ended /\ spent.changes < MaxChanges
    /\ spent' = [spent EXCEPT !.changes = @ + 1]
    /\ touched' = IF Unread THEN touched ELSE [touched EXCEPT ![kind] = @ \cup {x}]
    /\ UNCHANGED <<rancher, w, mistaken>>

(* A namespace is given to a project, or taken from it.                    *)
MoveNamespace(n, j) ==
    /\ Exists(n) /\ ns[n].project # j
    /\ ns' = [ns EXCEPT ![n].project = j]
    /\ Changes("ns", n) /\ UNCHANGED <<presets, up, ams, monitor>>

Latest == Max({1} \cup {ns[n].born : n \in Existing})

(* Rancher's operators create their namespaces within a second, or later.  *)
CreateNamespace(n, j, born) ==
    /\ ~ Exists(n) /\ born \in {Latest, Latest + 1}
    /\ ns' = [ns EXCEPT ![n] = [project |-> j, born |-> born]]
    /\ Changes("ns", n) /\ UNCHANGED <<presets, up, ams, monitor>>

DeleteNamespace(n) ==
    /\ n \in Operated /\ Exists(n)
    /\ ns' = [ns EXCEPT ![n] = None]
    /\ n \notin ams /\ \A x \in presets : x[1] # n
    /\ \A p \in up : PromNs[p] # n
    /\ Changes("ns", n) /\ UNCHANGED <<presets, up, ams, monitor>>

TogglePreset(x) ==
    /\ x[1] \in {Cluster} \cup Existing
    /\ presets' = SymDiff(presets, {x})
    /\ Changes("presets", x) /\ UNCHANGED <<ns, up, ams, monitor>>

ToggleProm(p) ==
    /\ Exists(PromNs[p])
    /\ up' = SymDiff(up, {p})
    /\ Changes("proms", p) /\ UNCHANGED <<ns, presets, ams, monitor>>

ToggleAlertmanager(n) ==
    /\ Exists(n)
    /\ ams' = SymDiff(ams, {n})
    /\ Changes("ams", n) /\ UNCHANGED <<ns, presets, up, monitor>>

(* Users delete the monitor, or take its rule away.                        *)
EditMonitor(m) ==
    /\ monitor \notin {None, m}
    /\ monitor' = m
    /\ Changes("monitor", w.prom) /\ UNCHANGED <<ns, presets, up, ams>>

Next ==
    \/ ListNamespaces \/ AskRancher \/ GetSystemProject \/ ListProms
    \/ SkipProm \/ ListAlertmanagers \/ RequestFails
    \/ GetSeed \/ ListMembers \/ GetMonitor \/ WriteMonitor
    \/ \E m \in {None, {}} : EditMonitor(m)
    \/ \E j \in Projects : Visit(j)
    \/ \E found \in BOOLEAN : GetUrls(found)
    \/ \E n \in Namespaces, j \in Projects \cup {None} : MoveNamespace(n, j)
    \/ \E n \in Operated, j \in Projects \cup {None}, born \in 1 .. MaxChanges + 1 :
           CreateNamespace(n, j, born)
    \/ \E n \in Operated : DeleteNamespace(n)
    \/ \E x \in Preset : TogglePreset(x)
    \/ \E p \in Proms : ToggleProm(p)
    \/ \E n \in {PromNs[p] : p \in Proms} : ToggleAlertmanager(n)

Spec == Init /\ [][Next]_vars

---------------------------------------------------------------------------
(* NamespaceForPreset: the namespace in which a Prometheus's AppBinding    *)
(* goes, the oldest of those that Rancher's operator made for its project. *)
(* (A Prometheus without a namespace selector makes it panic.)             *)

OperatedFor(p) == {n \in Operated \cap Existing : HelmProject[n] = Selects[p]}
NewestFirst(nss) ==     \* a mutant of FirstOf
    LET newest == Max({ns[n].born : n \in nss}) IN Min({n \in nss : ns[n].born = newest})
FirstOf(nss) ==
    LET oldest == Min({ns[n].born : n \in nss}) IN Min({n \in nss : ns[n].born = oldest})
NamespaceForPreset(p) == IF OperatedFor(p) = {} THEN None ELSE FirstOf(OperatedFor(p))

---------------------------------------------------------------------------
(* Properties                                                              *)

(* Types of the call and of the cluster.                                   *)
TypeOK ==
    /\ ns \in [Namespaces -> NsRec \cup {None}]
    /\ presets \subseteq Preset /\ up \subseteq Proms /\ ams \subseteq Namespaces
    /\ w.projects \in [Projects -> Project \cup {None}]
    /\ monitor \in (SUBSET Namespaces) \cup {None}
    /\ w.todo \subseteq Projects /\ w.j \in Projects \cup {None}
    /\ w.left \subseteq Namespaces /\ w.found \subseteq Preset
    /\ w.proms \subseteq Proms /\ w.sys \in Projects \cup {None}
    /\ w.prom \in Proms \cup {None}
    /\ w.keep \subseteq Namespaces /\ w.got \in (SUBSET Namespaces) \cup {None}
    /\ w.prom = None /\ w.j # None =>
          w.j \in w.todo /\ w.left # {} /\ w.left \subseteq w.projects[w.j].namespaces

Done      == Is("done")
Listed(j) == w.projects[j] # None

(* However the cluster changes during the call, a project is in the result *)
(* if and only if it has a namespace that is not one of Rancher's own, and *)
(* it has the namespaces, the type and the age they give it (main.go       *)
(* 705-746 and 798-802).                                                   *)
ProjectsRight ==
    Done => \A j \in Projects :
        LET prj     == w.projects[j]
            settled == Members(j) \ touched.ns
        IN /\ settled \ Operated # {} => Listed(j)
           /\ Listed(j) =>
                 /\ prj.namespaces \ touched.ns = settled
                 /\ prj.namespaces \ Operated # {}
                 /\ \A n \in settled : prj.created <= ns[n].born
                 /\ prj.type = "System" <=> SystemNs \in prj.namespaces
                 /\ prj.type = "Default" => DefaultNs \in prj.namespaces

(* The presets of a project are those of its namespaces, or the cluster's  *)
(* for the system project: none that was there throughout is missing, and  *)
(* none of another project's namespaces is among them (main.go 748-812).   *)
PresetsRight ==
    Done => \A j \in Projects : Listed(j) =>
        LET prj    == w.projects[j]
            places == IF prj.type = "System" THEN {Cluster} ELSE prj.namespaces
        IN /\ \A x \in prj.presets : x[1] \in places
           /\ \A x \in Preset \ touched.presets :
                 x[1] \in places => (x \in prj.presets <=> x \in presets)

(* The monitoring stack of a project is that of a Prometheus that selects  *)
(* the project, or of Rancher's for the project of kube-system, with the   *)
(* Alertmanager beside it and no other's URLs; and a project that has had  *)
(* one throughout shows it or a later one (main.go 826-873).               *)
MonitoringRight ==
    Done => \A j \in Projects : Listed(j) =>
        LET m   == w.projects[j].mon
            own == {p \in Proms : PromProject(p, w.sys) = j}
        IN /\ m # None => /\ m.prom \in own /\ m.am = PromNs[m.prom]
                          /\ m.urls \in {None, m.prom}
                          /\ j = w.sys => m.urls = m.prom
           /\ rancher /\ ~ mistaken =>
                 \A p \in own \cap (up \ touched.proms) : m # None /\ m.prom >= p
           /\ SystemNs \notin touched.ns /\ w.sys # None => w.sys = ns[SystemNs].project

(* The ServiceMonitor of a Prometheus in a project keeps the namespaces of *)
(* that project and no other, whatever moves while the rule is put together *)
(* and whoever edits the monitor, unless the patch had no reason to send   *)
(* the rule; and it has one, unless its own namespace moves meanwhile      *)
(* (panopticon/lib.go 66-156).                                             *)
OwnMetricsOnly ==
    Is("created") /\ w.j # None /\ (w.got = w.keep => touched.monitor = {}) =>
        /\ monitor \ touched.ns = Members(w.j) \ touched.ns
        /\ PromNs[w.prom] \notin touched.ns => PromNs[w.prom] \in monitor

(* A project that was dropped from the map is not brought back by a write  *)
(* of the copy that the loops hold (main.go 800, 812, 872).                *)
DroppedStays ==
    [][\A j \in Projects :
         ~ Is("namespaces") /\ w.projects[j] = None => w'.projects[j] = None]_vars

StaysAsOld(p) ==
    LET n == NamespaceForPreset(p)
        m == NamespaceForPreset(p)'
    IN n # None /\ n \in OperatedFor(p)' => ns'[m].born = ns'[n].born

(* The AppBinding of a Prometheus does not wander: as long as the namespace *)
(* is one of its project's, the answer only changes to one that is as old  *)
(* (main.go 670-673).                                                      *)
PresetNamespaceStable == [][\A p \in Proms : StaysAsOld(p)]_vars
=============================================================================
