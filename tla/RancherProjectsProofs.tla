----------------------- MODULE RancherProjectsProofs -----------------------
(***************************************************************************)
(* Proofs about RancherProjects, for any cluster, and any number of        *)
(* changes and failed requests: its types, that the projects of a list,    *)
(* their presets and their monitoring are right, that a dropped project    *)
(* stays dropped, that a ServiceMonitor keeps the namespaces of its own    *)
(* project, and that the namespace of an AppBinding is stable.             *)
(***************************************************************************)
EXTENDS RancherProjects, FiniteSetTheorems, WellFoundedInduction, TLAPS

\* The stages of a list of projects, and those of a ServiceMonitor.
Collected == {"projects", "rancher", "system", "listproms", "proms", "urls", "done"}
Listing   == {"namespaces"} \cup Collected
Asked     == {"members", "get", "write", "created"}
Writing   == {"managed", "seed"} \cup Asked
Stages    == Listing \cup Writing \cup {"failed", "died"}
Looked    == {"proms", "urls", "done"}

Locals == [pc : Stages, projects : [Projects -> Project \cup {None}],
           todo : SUBSET Projects, j : Projects \cup {None},
           left : SUBSET Namespaces, found : SUBSET Preset,
           sys : Projects \cup {None}, proms : SUBSET Proms, prom : Proms \cup {None},
           keep : SUBSET Namespaces, got : (SUBSET Namespaces) \cup {None}]

\* The cluster, the locals of the call and the history. Creation times are
\* counted from one, and by the changes.
Types ==
    /\ ns \in [Namespaces -> NsRec \cup {None}]
    /\ presets \subseteq Preset /\ up \subseteq Proms /\ ams \subseteq Namespaces
    /\ rancher \in BOOLEAN /\ mistaken \in BOOLEAN
    /\ monitor \in (SUBSET Namespaces) \cup {None}
    /\ w \in Locals
    /\ touched \in [ns : SUBSET Namespaces, presets : SUBSET Preset, proms : SUBSET Proms,
                    ams : SUBSET Namespaces, monitor : SUBSET Proms]
    /\ spent \in [changes : Nat, failures : Nat]

Ages == \A n \in Existing : ns[n].born <= spent.changes + 1

\* Only Rancher's own namespaces go.
Standing == \A n \in Namespaces \ Operated : Exists(n)

\* What belongs to the stages of a call.
StageOK ==
    /\ w.pc \in Listing => w.prom = None
    /\ w.pc \in Writing => w.prom \in Proms
    /\ Unread => touched = Nothing /\ w.sys = None
    /\ w.pc \in Writing => w.projects = NoProjects /\ w.sys = None
    /\ w.pc \in {"managed", "failed", "died"} => w.j = None
    /\ w.pc = "members" => w.j # None

\* The loop over the projects of the list: w.j is the one at which it is.
LoopOK ==
    w.pc \in Listing =>
      /\ w.pc \in {"namespaces", "projects"} \/ w.todo = {}
      /\ w.pc = "projects" => w.todo # {}
      /\ \A j \in w.todo : w.projects[j] # None
      /\ w.j = None => w.left = {} /\ w.found = {}
      /\ w.j # None => /\ w.pc = "projects" /\ w.j \in w.todo /\ w.left # {}
                       /\ w.left \subseteq w.projects[w.j].namespaces

\* Project j is right, but for its presets and monitoring.
ProjectOK(j) ==
    LET prj     == w.projects[j]
        settled == Members(j) \ touched.ns
    IN /\ ~ Listed(j) => settled \subseteq Operated
       /\ Listed(j) =>
             /\ prj.namespaces \ touched.ns = settled
             /\ prj.namespaces # {}
             /\ j \notin w.todo => prj.namespaces \ Operated # {}
             /\ \A n \in settled : prj.created <= ns[n].born
             /\ prj.type = "System" <=> SystemNs \in prj.namespaces
             /\ prj.type = "Default" => DefaultNs \in prj.namespaces

ProjectsOK == w.pc \in Collected => \A j \in Projects : ProjectOK(j)

\* The presets found are those of the places, unless they changed meanwhile.
Covers(found, places) ==
    /\ \A x \in found : x[1] \in places
    /\ \A x \in Preset \ touched.presets :
          x[1] \in places => (x \in found <=> x \in presets)

\* The places of a project's presets, when the namespaces in left are still
\* to be visited.
Places(prj, left) ==
    IF prj.type = "System" THEN (IF SystemNs \in left THEN {} ELSE {Cluster})
                           ELSE prj.namespaces \ left

PresetsOK ==
    w.pc \in Collected => \A j \in Projects : Listed(j) =>
      /\ j \notin w.todo => Covers(w.projects[j].presets, Places(w.projects[j], {}))
      /\ j = w.j => Covers(w.found, Places(w.projects[j], w.left))

Own(j) == {p \in Proms : PromProject(p, w.sys) = j}

\* The monitoring that project j has so far is that of the last of its
\* Prometheuses seen.
MonitorOK(j) ==
    LET m == w.projects[j].mon
    IN /\ m # None => /\ m.prom \in Own(j) /\ m.am = PromNs[m.prom]
                      /\ m.urls \in {None, m.prom}
                      /\ \A q \in w.proms : m.prom <= q
                      /\ j = w.sys => m.urls = m.prom
       /\ rancher /\ ~ mistaken =>
             \A p \in Own(j) \cap (up \ touched.proms) :
                 p \in w.proms \/ (m # None /\ m.prom >= p)

MonitoringOK ==
    /\ w.pc \in Collected \ Looked =>
          \A j \in Projects : Listed(j) => w.projects[j].mon = None
    /\ w.pc \in Looked => \A j \in Projects : Listed(j) => MonitorOK(j)
    /\ w.pc \in {"proms", "urls"} => w.proms # {}
    /\ w.pc = "done" /\ rancher /\ ~ mistaken => w.proms = {}
    /\ w.pc = "urls" =>
         LET p == Min(w.proms)
             j == PromProject(p, w.sys)
         IN /\ Known(j) /\ j # w.sys
            /\ w.projects[j].mon # None /\ w.projects[j].mon.prom = p
    /\ SystemNs \notin touched.ns /\ w.sys # None => w.sys = ns[SystemNs].project

\* What goes into the rule of a ServiceMonitor, and what comes of it.
SeedOK ==
    w.pc \in Asked /\ w.j # None /\ PromNs[w.prom] \notin touched.ns =>
        PromNs[w.prom] \in Members(w.j)
KeepOK ==
    w.pc \in {"get", "write", "created"} /\ w.j # None =>
        w.keep \ touched.ns = Members(w.j) \ touched.ns
GotOK == w.pc = "write" /\ touched.monitor = {} => monitor = w.got
CreatedOK ==
    w.pc = "created" /\ (w.got = w.keep => touched.monitor = {}) => monitor = w.keep

IInv == /\ Types /\ Ages /\ Standing /\ StageOK /\ LoopOK /\ ProjectsOK /\ PresetsOK /\ MonitoringOK
        /\ SeedOK /\ KeepOK /\ GotOK /\ CreatedOK

CallStep ==
    \/ ListNamespaces \/ AskRancher \/ GetSystemProject \/ ListProms
    \/ SkipProm \/ ListAlertmanagers \/ RequestFails
    \/ GetSeed \/ ListMembers \/ GetMonitor \/ WriteMonitor
    \/ \E j \in Projects : Visit(j)
    \/ \E found \in BOOLEAN : GetUrls(found)

ClusterStep ==
    \/ \E m \in {None, {}} : EditMonitor(m)
    \/ \E n \in Namespaces, j \in Projects \cup {None} : MoveNamespace(n, j)
    \/ \E n \in Operated, j \in Projects \cup {None}, born \in 1 .. MaxChanges + 1 :
           CreateNamespace(n, j, born)
    \/ \E n \in Operated : DeleteNamespace(n)
    \/ \E x \in Preset : TogglePreset(x)
    \/ \E p \in Proms : ToggleProm(p)
    \/ \E n \in {PromNs[p] : p \in Proms} : ToggleAlertmanager(n)

(* A step is one of the call or one of the cluster.                        *)
LEMMA Steps == Next <=> CallStep \/ ClusterStep
BY DEF Next, CallStep, ClusterStep

---------------------------------------------------------------------------
(* Least and greatest numbers.                                             *)

(* A set of numbers has a least one: the intervals that end in it have one *)
(* that is smallest.                                                       *)
LEMMA LeastNat ==
    ASSUME NEW S, S \subseteq Nat, S # {}
    PROVE  \E x \in S : \A y \in S : x <= y
<1> DEFINE T == {0 .. n : n \in S}
<1>1. T \subseteq FiniteSubsetsOf(Nat)
  <2> SUFFICES ASSUME NEW n \in S PROVE 0 .. n \in FiniteSubsetsOf(Nat)  OBVIOUS
  <2>1. IsFiniteSet(0 .. n)  BY FS_Interval
  <2>2. 0 .. n \subseteq Nat  OBVIOUS
  <2> QED  BY <2>1, <2>2 DEF FiniteSubsetsOf
<1>2. PICK t \in T : \A u \in T : ~ (<<u, t>> \in StrictSubsetOrdering(Nat))
  <2>1. T # {}  OBVIOUS
  <2> HIDE DEF T
  <2> QED  BY <1>1, <2>1, FS_StrictSubsetOrderingWellFounded, WFMin
<1>3. PICK x \in S : t = 0 .. x  OBVIOUS
<1>4. ASSUME NEW y \in S PROVE x <= y
  <2>1. ~ (<<0 .. y, 0 .. x>> \in StrictSubsetOrdering(Nat))  BY <1>2, <1>3
  <2>2. x \in Nat /\ y \in Nat  OBVIOUS
  <2>3. CASE y < x
    <3>1. 0 .. y \subseteq 0 .. x /\ x \notin 0 .. y /\ x \in 0 .. x  BY <2>2, <2>3
    <3>2. 0 .. y # 0 .. x /\ 0 .. y \subseteq Nat /\ 0 .. x \subseteq Nat  BY <3>1, <2>2
    <3> QED  BY <2>1, <3>1, <3>2 DEF StrictSubsetOrdering
  <2> QED  BY <2>2, <2>3
<1> QED  BY <1>4

(* Min of a set of numbers is one of them.                                 *)
LEMMA MinNat ==
    ASSUME NEW S, S \subseteq Nat, S # {}
    PROVE  Min(S) \in S /\ \A y \in S : Min(S) <= y
BY LeastNat DEF Min

(* And so is Max, when there is a bound.                                   *)
LEMMA MaxNat ==
    ASSUME NEW S, S \subseteq Nat, S # {}, NEW b \in Nat, \A y \in S : y <= b
    PROVE  Max(S) \in S /\ \A y \in S : y <= Max(S)
<1> DEFINE T == {b - y : y \in S}
<1>1. T \subseteq Nat /\ T # {}
  <2>1. \A y \in S : b - y \in Nat  OBVIOUS
  <2> QED  BY <2>1
<1>2. PICK t \in T : \A u \in T : t <= u
  <2> HIDE DEF T
  <2> QED  BY <1>1, LeastNat
<1>3. PICK x \in S : t = b - x  OBVIOUS
<1>4. \A y \in S : y <= x
  <2> SUFFICES ASSUME NEW y \in S PROVE y <= x  OBVIOUS
  <2>1. b - y \in T  OBVIOUS
  <2>2. t <= b - y  BY <1>2, <2>1
  <2> QED  BY <1>3, <2>2
<1> QED  BY <1>4 DEF Max

---------------------------------------------------------------------------
(* The start.                                                              *)

(* The locals before the call, at the start of CreateServiceMonitor and at *)
(* the end without a result.                                               *)
LEMMA IdleType ==
    /\ Idle \in Locals /\ Idle.pc = "namespaces" /\ Idle.projects = NoProjects
    /\ Idle.todo = {} /\ Idle.j = None /\ Idle.left = {} /\ Idle.found = {}
    /\ Idle.sys = None /\ Idle.proms = {} /\ Idle.prom = None
<1>1. NoProjects \in [Projects -> Project \cup {None}]  BY DEF NoProjects
<1> QED  BY <1>1 DEF Idle, Locals, Stages, Listing

(* The locals of panopticon's call when it begins.                         *)
LEMMA MonitorsType ==
    ASSUME NEW p \in Proms
    PROVE  /\ Monitors(p) \in Locals /\ Monitors(p).pc = "managed"
           /\ Monitors(p).projects = NoProjects /\ Monitors(p).todo = {}
           /\ Monitors(p).j = None /\ Monitors(p).left = {} /\ Monitors(p).found = {}
           /\ Monitors(p).sys = None /\ Monitors(p).prom = p
BY IdleType DEF Monitors, Locals, Stages, Writing

(* The locals of a call that has ended.                                    *)
LEMMA OverType ==
    ASSUME NEW pc \in Stages
    PROVE  /\ Over(pc) \in Locals /\ Over(pc).pc = pc
           /\ Over(pc).projects = NoProjects /\ Over(pc).todo = {}
           /\ Over(pc).j = None /\ Over(pc).left = {} /\ Over(pc).found = {}
           /\ Over(pc).sys = None /\ Over(pc).prom = None
BY IdleType DEF Over, Locals

(* What is known before the call.                                          *)
LEMMA InitHolds == Init => IInv
<1> SUFFICES ASSUME Init PROVE IInv  OBVIOUS
<1> DEFINE OldNs == [project : Projects \cup {None}, born : {1}]
<1>1. OldNs \subseteq NsRec  BY DEF NsRec
<1>2. ns \in [Namespaces -> NsRec \cup {None}]  BY <1>1 DEF Init
<1>3. \A n \in Existing : ns[n].born = 1
  BY DEF Init, Existing, Exists
<1>4. ams \subseteq Namespaces /\ up \subseteq Proms /\ presets \subseteq Preset
  BY PromsAssumption DEF Init
<1>5. touched \in [ns : SUBSET Namespaces, presets : SUBSET Preset, proms : SUBSET Proms,
                   ams : SUBSET Namespaces, monitor : SUBSET Proms]
  BY DEF Init, Nothing
<1>6. w \in Locals /\ w.pc \in {"namespaces", "managed"} /\ w.sys = None
      /\ w.projects = NoProjects /\ w.todo = {} /\ w.left = {} /\ w.found = {} /\ w.j = None
      /\ (w.pc = "namespaces" => w.prom = None) /\ (w.pc = "managed" => w.prom \in Proms)
  <2>1. CASE w = Idle  BY <2>1, IdleType
  <2>2. CASE \E p \in up : w = Monitors(p)
    <3> PICK p \in up : w = Monitors(p)  BY <2>2
    <3> p \in Proms  BY DEF Init
    <3> QED  BY MonitorsType
  <2> QED  BY <2>1, <2>2 DEF Init
<1>7. monitor \in (SUBSET Namespaces) \cup {None} /\ mistaken \in BOOLEAN
  BY Zenon DEF Init
<1>8. Types  BY <1>2, <1>4, <1>5, <1>6, <1>7 DEF Types, Init
<1>9. Ages  BY <1>3 DEF Ages, Init
<1>10. Standing /\ StageOK /\ LoopOK
  BY <1>6 DEF Standing, Init, StageOK, LoopOK, Listing, Writing, Asked, Collected, Unread
<1> QED
  BY <1>6, <1>8, <1>9, <1>10 DEF IInv, ProjectsOK, PresetsOK, MonitoringOK, SeedOK, KeepOK,
      GotOK, CreatedOK, Collected, Looked, Asked

---------------------------------------------------------------------------
(* Steps of the cluster.                                                   *)

(* What changes is counted, and after the first List remembered.           *)
LEMMA ChangesType ==
    ASSUME Types, NEW kind, NEW x, Changes(kind, x),
           kind = "ns" => x \in Namespaces, kind = "presets" => x \in Preset,
           kind = "proms" => x \in Proms, kind = "ams" => x \in Namespaces,
           kind = "monitor" => x \in Proms
    PROVE  /\ w' = w /\ rancher' = rancher /\ mistaken' = mistaken
           /\ spent' \in [changes : Nat, failures : Nat]
           /\ spent'.changes = spent.changes + 1
           /\ touched' \in [ns : SUBSET Namespaces, presets : SUBSET Preset,
                            proms : SUBSET Proms, ams : SUBSET Namespaces,
                            monitor : SUBSET Proms]
           /\ touched.ns \subseteq touched'.ns /\ touched.presets \subseteq touched'.presets
           /\ touched.proms \subseteq touched'.proms
           /\ touched.monitor \subseteq touched'.monitor
           /\ Unread => touched' = touched
           /\ ~ Unread => /\ kind = "ns" => x \in touched'.ns
                          /\ kind = "presets" => x \in touched'.presets
                          /\ kind = "proms" => x \in touched'.proms
                          /\ kind = "monitor" => x \in touched'.monitor
<1>1. kind \in {"ns", "presets", "proms", "ams", "monitor"}
  BY DEF Changes, Reads
<1>2. w' = w /\ rancher' = rancher /\ mistaken' = mistaken
      /\ spent' = [spent EXCEPT !.changes = @ + 1]
      /\ touched' = IF Unread THEN touched ELSE [touched EXCEPT ![kind] = @ \cup {x}]
  BY DEF Changes
<1>3. CASE Unread  BY <1>2, <1>3 DEF Types
<1>4. CASE ~ Unread
  <2>1. CASE kind = "ns"       BY <1>2, <1>4, <2>1 DEF Types
  <2>2. CASE kind = "presets"  BY <1>2, <1>4, <2>2 DEF Types
  <2>3. CASE kind = "proms"    BY <1>2, <1>4, <2>3 DEF Types
  <2>4. CASE kind = "ams"      BY <1>2, <1>4, <2>4 DEF Types
  <2>5. CASE kind = "monitor"  BY <1>2, <1>4, <2>5 DEF Types
  <2> QED  BY <1>1, <2>1, <2>2, <2>3, <2>4, <2>5
<1> QED  BY <1>3, <1>4

\* What a step of the cluster that lets n be does to the rest.
NsKept(n) == ns'[n] = ns[n]

\* What a step of the cluster may do, and what is remembered of it.
Remembered ==
    /\ w' = w /\ rancher' = rancher /\ mistaken' = mistaken /\ ~ Ended
    /\ touched.ns \subseteq touched'.ns /\ touched.presets \subseteq touched'.presets
    /\ touched.proms \subseteq touched'.proms
    /\ touched.monitor \subseteq touched'.monitor
    /\ Unread => touched' = touched
    /\ ~ Unread =>
         /\ \A n \in Namespaces \ touched'.ns : NsKept(n)
         /\ \A x \in Preset \ touched'.presets : x \in presets' <=> x \in presets
         /\ \A p \in Proms \ touched'.proms : p \in up' <=> p \in up
         /\ touched'.monitor = {} => monitor' = monitor

(* The oldest and the latest namespaces.                                   *)
LEMMA LatestIsLast ==
    ASSUME Types, Ages
    PROVE  /\ Latest \in Nat /\ Latest <= spent.changes + 1
           /\ \A n \in Existing : ns[n].born <= Latest
<1> DEFINE Born == {1} \cup {ns[n].born : n \in Existing}
<1>1. \A n \in Existing : ns[n].born \in Nat  BY DEF Types, Existing, Exists, NsRec
<1>2. Born \subseteq Nat /\ Born # {}  BY <1>1
<1>3. spent.changes + 1 \in Nat /\ \A y \in Born : y <= spent.changes + 1
  BY DEF Types, Ages
<1>4. Max(Born) \in Born /\ \A y \in Born : y <= Max(Born)
  <2> HIDE DEF Born
  <2> QED  BY <1>2, <1>3, MaxNat
<1>5. Latest = Max(Born)  BY DEF Latest
<1>6. \A n \in Existing : ns[n].born \in Born  OBVIOUS
<1> HIDE DEF Born
<1> QED  BY <1>2, <1>3, <1>4, <1>5, <1>6

\* Steps that let the namespaces be.
OtherStep ==
    \/ \E m \in {None, {}} : EditMonitor(m)
    \/ \E x \in Preset : TogglePreset(x)
    \/ \E p \in Proms : ToggleProm(p)
    \/ \E n \in {PromNs[p] : p \in Proms} : ToggleAlertmanager(n)

(* The namespaces are changed one at a time: moved, or one of Rancher's    *)
(* own created or deleted.                                                 *)
LEMMA NsChange ==
    ASSUME Types, Ages, ClusterStep
    PROVE  \/ OtherStep /\ ns' = ns
           \/ \E n \in Namespaces :
                /\ Changes("ns", n)
                /\ \E rec \in NsRec \cup {None} : ns' = [ns EXCEPT ![n] = rec]
                /\ \A m \in Namespaces \ {n} : NsKept(m)
                /\ \/ /\ Exists(n) /\ ns'[n] \in NsRec /\ ns'[n].born = ns[n].born
                   \/ /\ n \in Operated /\ ~ Exists(n) /\ ns'[n] \in NsRec
                      /\ ns'[n].born \in {Latest, Latest + 1}
                   \/ n \in Operated /\ ns'[n] = None
                /\ presets' = presets /\ up' = up /\ ams' = ams /\ monitor' = monitor
<1> USE DEF NsKept
<1>1. ASSUME NEW n \in Namespaces, NEW j \in Projects \cup {None}, MoveNamespace(n, j)
      PROVE  /\ Changes("ns", n) /\ Exists(n) /\ ns'[n] \in NsRec /\ ns'[n].born = ns[n].born
             /\ ns' = [ns EXCEPT ![n] = ns'[n]] /\ \A m \in Namespaces \ {n} : NsKept(m)
             /\ presets' = presets /\ up' = up /\ ams' = ams /\ monitor' = monitor
  <2>1. ns[n] \in NsRec  BY <1>1 DEF MoveNamespace, Types, Exists
  <2>2. ns' = [ns EXCEPT ![n] = [ns[n] EXCEPT !.project = j]]  BY <1>1 DEF MoveNamespace
  <2>3. [ns[n] EXCEPT !.project = j] \in NsRec /\ [ns[n] EXCEPT !.project = j].born = ns[n].born
    BY <2>1 DEF NsRec
  <2> HIDE DEF NsRec
  <2> QED  BY <1>1, <2>1, <2>2, <2>3 DEF MoveNamespace, Types
<1>2. ASSUME NEW n \in Operated, NEW j \in Projects \cup {None},
             NEW born \in 1 .. MaxChanges + 1, CreateNamespace(n, j, born)
      PROVE  /\ Changes("ns", n) /\ ~ Exists(n) /\ ns'[n] \in NsRec
             /\ ns'[n].born \in {Latest, Latest + 1}
             /\ ns' = [ns EXCEPT ![n] = ns'[n]] /\ \A m \in Namespaces \ {n} : NsKept(m)
             /\ presets' = presets /\ up' = up /\ ams' = ams /\ monitor' = monitor
  <2>1. n \in Namespaces  BY NamesAssumption
  <2>2. born \in Nat  BY BoundsAssumption
  <2>3. [project |-> j, born |-> born] \in NsRec  BY <2>2 DEF NsRec
  <2> QED  BY <1>2, <2>1, <2>3 DEF CreateNamespace, Types
<1>3. ASSUME NEW n \in Operated, DeleteNamespace(n)
      PROVE  /\ Changes("ns", n) /\ ns'[n] = None
             /\ ns' = [ns EXCEPT ![n] = ns'[n]] /\ \A m \in Namespaces \ {n} : NsKept(m)
             /\ presets' = presets /\ up' = up /\ ams' = ams /\ monitor' = monitor
  <2>1. n \in Namespaces  BY NamesAssumption
  <2> QED  BY <1>3, <2>1 DEF DeleteNamespace, Types
<1>4. Operated \subseteq Namespaces  BY NamesAssumption
<1>5. CASE \E n \in Namespaces, j \in Projects \cup {None} : MoveNamespace(n, j)
  BY <1>1, <1>5
<1>6. CASE \E n \in Operated, j \in Projects \cup {None}, born \in 1 .. MaxChanges + 1 :
             CreateNamespace(n, j, born)
  BY <1>2, <1>4, <1>6
<1>7. CASE \E n \in Operated : DeleteNamespace(n)
  BY <1>3, <1>4, <1>7
<1>8. CASE OtherStep
  BY <1>8 DEF OtherStep, EditMonitor, TogglePreset, ToggleProm, ToggleAlertmanager
<1> QED  BY <1>5, <1>6, <1>7, <1>8 DEF ClusterStep, OtherStep

(* Steps of the cluster keep the types, and are remembered.                *)
LEMMA ClusterType ==
    ASSUME Types, Ages, ClusterStep
    PROVE  Types' /\ Ages' /\ Remembered
<1>0. Cluster \notin Namespaces  BY NumbersAssumption
<1>1. ASSUME NEW n \in Namespaces, Changes("ns", n),
             \E rec \in NsRec \cup {None} : ns' = [ns EXCEPT ![n] = rec],
             \A m \in Namespaces \ {n} : NsKept(m),
             \/ Exists(n) /\ ns'[n].born = ns[n].born
             \/ ns'[n].born \in {Latest, Latest + 1}
             \/ ns'[n] = None,
             presets' = presets, up' = up, ams' = ams, monitor' = monitor
      PROVE  Types' /\ Ages' /\ Remembered
  <2>1. ns' \in [Namespaces -> NsRec \cup {None}]  BY <1>1 DEF Types
  <2>2. /\ w' = w /\ rancher' = rancher /\ mistaken' = mistaken
        /\ spent' \in [changes : Nat, failures : Nat]
        /\ spent'.changes = spent.changes + 1
        /\ touched' \in [ns : SUBSET Namespaces, presets : SUBSET Preset,
                         proms : SUBSET Proms, ams : SUBSET Namespaces,
                         monitor : SUBSET Proms]
        /\ touched.ns \subseteq touched'.ns /\ touched.presets \subseteq touched'.presets
        /\ touched.proms \subseteq touched'.proms
        /\ touched.monitor \subseteq touched'.monitor
        /\ Unread => touched' = touched
        /\ ~ Unread => n \in touched'.ns
    BY <1>1, ChangesType
  <2>3. Types'  BY <1>1, <2>1, <2>2 DEF Types
  <2>4. Ages'
    <3> SUFFICES ASSUME NEW m \in Existing' PROVE ns'[m].born <= spent'.changes + 1
      BY DEF Ages
    <3>1. m \in Namespaces /\ ns'[m] # None /\ spent.changes \in Nat
      BY DEF Existing, Exists, Types
    <3>2. ns'[m] \in NsRec  BY <3>1, <2>1
    <3>3. ns'[m].born \in Nat  BY <3>2 DEF NsRec
    <3>4. CASE m = n
      <4>1. CASE Exists(n) /\ ns'[n].born = ns[n].born
        BY <2>2, <3>1, <3>3, <3>4, <4>1 DEF Ages, Existing
      <4>2. CASE ns'[n].born \in {Latest, Latest + 1}
        <5>1. Latest \in Nat /\ Latest <= spent.changes + 1  BY LatestIsLast
        <5> HIDE DEF Latest
        <5> QED  BY <2>2, <3>1, <3>4, <4>2, <5>1
      <4> QED  BY <1>1, <3>1, <3>4, <4>1, <4>2
    <3>5. CASE m # n
      <4>1. ns'[m] = ns[m]  BY <1>1, <3>1, <3>5 DEF NsKept
      <4>2. m \in Existing  BY <3>1, <4>1 DEF Existing, Exists
      <4> QED  BY <2>2, <3>1, <3>3, <4>1, <4>2 DEF Ages
    <3> QED  BY <3>4, <3>5
  <2>5. ~ Ended  BY <1>1 DEF Changes
  <2> QED  BY <1>1, <2>2, <2>3, <2>4, <2>5 DEF Remembered
<1>2. CASE OtherStep /\ ns' = ns
  <2>1. Existing' = Existing  BY <1>2 DEF Existing, Exists
  <2>2. PICK kind, x :
           /\ Changes(kind, x)
           /\ kind \in {"presets", "proms", "ams", "monitor"}
           /\ kind = "presets" => x \in Preset
           /\ kind = "proms" => x \in Proms
           /\ kind = "ams" => x \in Namespaces
           /\ kind = "monitor" => x \in Proms
           /\ presets' = IF kind = "presets" THEN SymDiff(presets, {x}) ELSE presets
           /\ up' = IF kind = "proms" THEN SymDiff(up, {x}) ELSE up
           /\ ams' = IF kind = "ams" THEN SymDiff(ams, {x}) ELSE ams
           /\ kind # "monitor" => monitor' = monitor
           /\ monitor' \in {monitor, None, {}}
    <3>1. CASE \E m \in {None, {}} : EditMonitor(m)
      <4>1. w.prom \in Proms
        BY <3>1 DEF EditMonitor, Changes, Reads, Types, Locals
      <4>2. PICK m \in {None, {}} : EditMonitor(m)  BY <3>1
      <4> QED  BY <4>1, <4>2 DEF EditMonitor
    <3>2. CASE \E x \in Preset : TogglePreset(x)
      <4> PICK x \in Preset : TogglePreset(x)  BY <3>2
      <4> QED  BY DEF TogglePreset
    <3>3. CASE \E p \in Proms : ToggleProm(p)
      <4> PICK p \in Proms : ToggleProm(p)  BY <3>3
      <4> QED  BY DEF ToggleProm
    <3>4. CASE \E n \in {PromNs[p] : p \in Proms} : ToggleAlertmanager(n)
      <4> PICK n \in {PromNs[p] : p \in Proms} : ToggleAlertmanager(n)  BY <3>4
      <4>1. n \in Namespaces  BY PromsAssumption
      <4> QED  BY <4>1 DEF ToggleAlertmanager
    <3> QED  BY <1>2, <3>1, <3>2, <3>3, <3>4 DEF OtherStep
  <2>3. /\ w' = w /\ rancher' = rancher /\ mistaken' = mistaken
        /\ spent' \in [changes : Nat, failures : Nat]
        /\ spent'.changes = spent.changes + 1
        /\ touched' \in [ns : SUBSET Namespaces, presets : SUBSET Preset,
                         proms : SUBSET Proms, ams : SUBSET Namespaces,
                         monitor : SUBSET Proms]
        /\ touched.ns \subseteq touched'.ns /\ touched.presets \subseteq touched'.presets
        /\ touched.proms \subseteq touched'.proms
        /\ touched.monitor \subseteq touched'.monitor
        /\ Unread => touched' = touched
        /\ ~ Unread => /\ kind = "presets" => x \in touched'.presets
                       /\ kind = "proms" => x \in touched'.proms
                       /\ kind = "monitor" => x \in touched'.monitor
    BY <2>2, ChangesType
  <2>4. Types'
    <3>1. presets' \subseteq Preset  BY <2>2 DEF Types, SymDiff
    <3>2. up' \subseteq Proms  BY <2>2 DEF Types, SymDiff
    <3>3. ams' \subseteq Namespaces  BY <2>2 DEF Types, SymDiff
    <3>4. monitor' \in (SUBSET Namespaces) \cup {None}  BY <2>2 DEF Types
    <3> QED  BY <1>2, <2>3, <3>1, <3>2, <3>3, <3>4 DEF Types
  <2>5. Ages'
    <3>1. \A n \in Existing : ns[n].born \in Nat  BY DEF Types, Existing, Exists, NsRec
    <3> QED  BY <1>2, <2>1, <2>3, <3>1 DEF Ages, Types
  <2>6. Remembered
    <3>1. ~ Ended  BY <2>2 DEF Changes
    <3>2. ~ Unread => /\ \A y \in Preset \ touched'.presets : y \in presets' <=> y \in presets
                      /\ \A p \in Proms \ touched'.proms : p \in up' <=> p \in up
                      /\ touched'.monitor = {} => monitor' = monitor
      BY <2>2, <2>3 DEF SymDiff
    <3> QED  BY <1>2, <2>3, <3>1, <3>2 DEF Remembered, NsKept
  <2> QED  BY <2>4, <2>5, <2>6
<1>3. CASE ~ (OtherStep /\ ns' = ns)
  <2>1. PICK n \in Namespaces :
                /\ Changes("ns", n)
                /\ \E rec \in NsRec \cup {None} : ns' = [ns EXCEPT ![n] = rec]
                /\ \A m \in Namespaces \ {n} : NsKept(m)
                /\ \/ Exists(n) /\ ns'[n].born = ns[n].born
                   \/ ns'[n].born \in {Latest, Latest + 1}
                   \/ ns'[n] = None
                /\ presets' = presets /\ up' = up /\ ams' = ams /\ monitor' = monitor
    BY <1>3, NsChange
  <2> QED  BY <1>1, <2>1
<1> QED  BY <1>2, <1>3

---------------------------------------------------------------------------
(* Steps of the call.                                                      *)

(* Requests leave the cluster as it is, but for the ServiceMonitor.        *)
LEMMA CallFrame ==
    ASSUME Types, CallStep
    PROVE  /\ ns' = ns /\ presets' = presets /\ up' = up /\ ams' = ams /\ rancher' = rancher
           /\ touched' = touched /\ spent'.changes = spent.changes
           /\ spent' \in [changes : Nat, failures : Nat]
           /\ mistaken' \in BOOLEAN /\ (mistaken => mistaken')
           /\ w.pc \notin {"rancher", "managed"} => mistaken' = mistaken
           /\ w.pc # "write" => monitor' = monitor
           /\ monitor' \in (SUBSET Namespaces) \cup {None}
<1>1. ASSUME NEW w1, Call(w1)
      PROVE  UNCHANGED <<ns, presets, up, ams, rancher, monitor, touched, mistaken, spent>>
  BY <1>1 DEF Call, cluster
<1>2. CASE \/ ListNamespaces \/ GetSystemProject \/ ListProms \/ SkipProm \/ ListAlertmanagers
           \/ GetSeed \/ ListMembers \/ GetMonitor
           \/ \E j \in Projects : Visit(j)
           \/ \E found \in BOOLEAN : GetUrls(found)
  <2>1. UNCHANGED <<ns, presets, up, ams, rancher, monitor, touched, mistaken, spent>>
    BY <1>1, <1>2 DEF ListNamespaces, GetSystemProject, ListProms, SkipProm,
       ListAlertmanagers, GetSeed, ListMembers, GetMonitor, Visit, GetUrls, Fail
  <2> QED  BY <2>1 DEF Types
<1>3. CASE AskRancher
  <2>1. CASE Call(Answered(rancher))
    <3>1. UNCHANGED <<ns, presets, up, ams, rancher, monitor, touched, mistaken, spent>>
      BY <1>1, <2>1
    <3> QED  BY <3>1 DEF Types
  <2>2. CASE ~ Call(Answered(rancher))
    <3>1. /\ w.pc \in {"rancher", "managed"} /\ mistaken' = TRUE
          /\ spent' = [spent EXCEPT !.failures = @ + 1]
          /\ UNCHANGED <<cluster, touched>>
      BY <1>3, <2>2 DEF AskRancher, Is
    <3>2. spent' \in [changes : Nat, failures : Nat] /\ spent'.changes = spent.changes
      BY <3>1 DEF Types
    <3> QED  BY <3>1, <3>2 DEF Types, cluster
  <2> QED  BY <2>1, <2>2
<1>4. CASE RequestFails
  <2>1. /\ spent' = [spent EXCEPT !.failures = @ + 1]
        /\ UNCHANGED <<ns, presets, up, ams, rancher, monitor, touched, mistaken>>
    BY <1>4 DEF RequestFails, FailsTo, cluster
  <2>2. spent' \in [changes : Nat, failures : Nat] /\ spent'.changes = spent.changes
    BY <2>1 DEF Types
  <2> QED  BY <2>1, <2>2 DEF Types
<1>5. CASE WriteMonitor
  <2>1. UNCHANGED <<ns, presets, up, ams, rancher, touched, mistaken, spent>> /\ w.pc = "write"
        /\ monitor' \in {monitor, w.keep}
    BY <1>1, <1>5 DEF WriteMonitor, Fail, Rule, Is
  <2>2. w.keep \subseteq Namespaces  BY DEF Types, Locals
  <2> QED  BY <2>1, <2>2 DEF Types
<1> QED  BY <1>2, <1>3, <1>4, <1>5 DEF CallStep

(* A project of the list is as old as its oldest namespace.                *)
LEMMA ProjectOfType ==
    ASSUME Types, NEW nss, nss \subseteq Existing, nss # {}
    PROVE  /\ ProjectOf(nss) \in Project
           /\ \A n \in nss : ProjectOf(nss).created <= ns[n].born
<1> DEFINE Born == {ns[n].born : n \in nss}
<1>1. \A n \in nss : ns[n].born \in Nat  BY DEF Types, Existing, Exists, NsRec
<1>2. Born \subseteq Nat /\ Born # {}  BY <1>1
<1>3. Min(Born) \in Born /\ \A y \in Born : Min(Born) <= y
  <2> HIDE DEF Born
  <2> QED  BY <1>2, MinNat
<1>4. ProjectOf(nss).created = Min(Born)  BY DEF ProjectOf
<1>5. \A n \in nss : ns[n].born \in Born  OBVIOUS
<1>6. ProjectOf(nss) \in Project
  <2>1. nss \subseteq Namespaces  BY DEF Existing
  <2>2. Min(Born) \in Nat  BY <1>2, <1>3
  <2> HIDE DEF Born
  <2>3. ProjectOf(nss) = [type |-> ProjectOf(nss).type, created |-> Min(Born),
            namespaces |-> nss, presets |-> {}, mon |-> None]
    BY DEF ProjectOf, Born
  <2>4. ProjectOf(nss).type \in {"User", "Default", "System"}  BY DEF ProjectOf
  <2> QED  BY <2>1, <2>2, <2>3, <2>4 DEF Project
<1> HIDE DEF Born
<1> QED  BY <1>3, <1>4, <1>5, <1>6

(* The List begins the map of projects.                                    *)
LEMMA ListNamespacesDoes ==
    ASSUME Types, StageOK, LoopOK, ListNamespaces
    PROVE  /\ w' \in Locals
           /\ w'.pc = IF w'.todo = {} THEN "rancher" ELSE "projects"
           /\ w'.todo = {j \in Projects : Members(j) # {}}
           /\ \A j \in Projects :
                 w'.projects[j] = IF Members(j) # {} THEN ProjectOf(Members(j)) ELSE None
           /\ w'.j = None /\ w'.left = {} /\ w'.found = {} /\ w'.prom = None /\ w'.sys = w.sys
           /\ touched = Nothing
<1> DEFINE listed == {j \in Projects : Members(j) # {}}
           prjs   == [j \in Projects |-> IF j \in listed THEN ProjectOf(Members(j)) ELSE None]
<1>1. w.pc = "namespaces" /\ w.j = None /\ w.left = {} /\ w.found = {} /\ w.prom = None
      /\ touched = Nothing
  BY DEF ListNamespaces, Is, StageOK, LoopOK, Listing, Unread
<1>2. w' = [w EXCEPT !.pc = IF listed = {} THEN "rancher" ELSE "projects", !.todo = listed,
                     !.projects = prjs]
  BY DEF ListNamespaces, Call
<1>3. prjs \in [Projects -> Project \cup {None}]
  <2> SUFFICES ASSUME NEW j \in Projects, j \in listed PROVE ProjectOf(Members(j)) \in Project
    OBVIOUS
  <2> QED  BY ProjectOfType DEF Members
<1>4. \A j \in Projects : prjs[j] = IF Members(j) # {} THEN ProjectOf(Members(j)) ELSE None
  OBVIOUS
<1>5. listed \subseteq Projects  OBVIOUS
<1>6. {"rancher", "projects"} \subseteq Stages  BY DEF Stages, Listing, Collected
<1> HIDE DEF prjs
<1>7. w'.todo = listed  BY <1>2 DEF Types, Locals
<1> HIDE DEF listed
<1>8. w' \in Locals  BY <1>2, <1>3, <1>5, <1>6 DEF Types, Locals
<1>9. w'.pc = IF w'.todo = {} THEN "rancher" ELSE "projects"
  BY <1>2, <1>7 DEF Types, Locals
<1>10. w'.projects = prjs  BY <1>2 DEF Types, Locals
<1>11. w'.j = w.j /\ w'.left = w.left /\ w'.found = w.found /\ w'.prom = w.prom
       /\ w'.sys = w.sys
  BY <1>2 DEF Types, Locals
<1> QED  BY <1>1, <1>4, <1>7, <1>8, <1>9, <1>10, <1>11 DEF listed

\* What the loop over projects has still to visit of project j, the next of
\* its namespaces, and what is found when that is visited.
Left(j)  == IF w.j = None THEN w.projects[j].namespaces ELSE w.left
Turn(j)  == Min(Left(j))
Found(j) == w.found \cup PresetsOf(w.projects[j], Turn(j))

(* A visit is one of a namespace of the project, and not of the last, or    *)
(* it ends the turn of the project.                                        *)
LEMMA VisitDoes ==
    ASSUME Types, StageOK, LoopOK, ProjectsOK, NEW j \in Projects, Visit(j)
    PROVE  /\ w.pc = "projects" /\ j \in w.todo /\ w.j \in {None, j} /\ Listed(j)
           /\ w.projects[j] \in Project
           /\ Left(j) \subseteq w.projects[j].namespaces /\ Turn(j) \in Left(j)
           /\ Found(j) \subseteq Preset
           /\ w' \in Locals /\ w'.sys = w.sys /\ w'.prom = None
           /\ \A k \in Projects \ {j} : w'.projects[k] = w.projects[k]
           /\ \/ /\ Left(j) # {Turn(j)} /\ w'.pc = "projects" /\ w'.projects = w.projects
                 /\ w'.todo = w.todo /\ w'.j = j /\ w'.left = Left(j) \ {Turn(j)}
                 /\ w'.found = Found(j)
              \/ /\ Left(j) = {Turn(j)} /\ w'.todo = w.todo \ {j} /\ w'.j = None
                 /\ w'.left = {} /\ w'.found = {}
                 /\ w'.pc = IF w'.todo = {} THEN "rancher" ELSE "projects"
                 /\ w'.projects[j] = IF HasUserNs(w.projects[j])
                                     THEN [w.projects[j] EXCEPT !.presets = Found(j)] ELSE None
<1>1. w.pc = "projects" /\ j \in w.todo /\ w.j \in {None, j} /\ Listed(j) /\ w.prom = None
  BY DEF Visit, Is, StageOK, LoopOK, Listing, Collected, Listed
<1>2. w.projects[j] \in Project  BY <1>1 DEF Types, Locals, Listed
<1>3. w.projects[j].namespaces \subseteq Namespaces /\ w.projects[j].namespaces # {}
  BY <1>1, <1>2 DEF ProjectsOK, ProjectOK, Collected, Project
<1>4. Left(j) \subseteq w.projects[j].namespaces /\ Left(j) # {}
  BY <1>1, <1>3 DEF Left, LoopOK, Listing, Collected
<1>5. Turn(j) \in Left(j)
  <2>1. Left(j) \subseteq Nat  BY <1>3, <1>4, NumbersAssumption
  <2> HIDE DEF Left
  <2> QED  BY <2>1, <1>4, MinNat DEF Turn
<1>6. Found(j) \subseteq Preset
  BY DEF Found, PresetsOf, Types, Locals
<1>7. w' = IF Left(j) = {Turn(j)} THEN Finish(j, Found(j))
           ELSE [w EXCEPT !.j = j, !.left = Left(j) \ {Turn(j)}, !.found = Found(j)]
  BY DEF Visit, Call, Left, Turn, Found
<1>8. CASE Left(j) # {Turn(j)}
  <2>1. w' = [w EXCEPT !.j = j, !.left = Left(j) \ {Turn(j)}, !.found = Found(j)]
    BY <1>7, <1>8
  <2>2. Left(j) \subseteq Namespaces  BY <1>3, <1>4
  <2> HIDE DEF Left, Turn, Found
  <2>3. w' \in Locals /\ w'.j = j /\ w'.left = Left(j) \ {Turn(j)} /\ w'.found = Found(j)
        /\ w'.pc = w.pc /\ w'.todo = w.todo /\ w'.projects = w.projects /\ w'.prom = w.prom
        /\ w'.sys = w.sys
    BY <2>1, <2>2, <1>6 DEF Types, Locals
  <2> QED  BY <1>1, <1>2, <1>4, <1>5, <1>6, <1>8, <2>3
<1>9. CASE Left(j) = {Turn(j)}
  <2> DEFINE kept == IF HasUserNs(w.projects[j])
                     THEN [w.projects[j] EXCEPT !.presets = Found(j)] ELSE None
             rest == w.todo \ {j}
  <2>1. w' = [w EXCEPT !.projects[j] = kept, !.todo = rest, !.j = None, !.left = {},
                       !.found = {}, !.pc = IF rest = {} THEN "rancher" ELSE "projects"]
    BY <1>7, <1>9 DEF Finish
  <2>2. kept \in Project \cup {None}
    <3> HIDE DEF Found
    <3> QED  BY <1>2, <1>6 DEF Project
  <2> HIDE DEF kept
  <2>3. {"rancher", "projects"} \subseteq Stages  BY DEF Stages, Listing, Collected
  <2>4. w' \in Locals /\ w'.todo = rest /\ w'.j = None /\ w'.left = {} /\ w'.found = {}
        /\ w'.pc = (IF rest = {} THEN "rancher" ELSE "projects") /\ w'.prom = w.prom
        /\ w'.sys = w.sys /\ w'.projects = [w.projects EXCEPT ![j] = kept]
    BY <2>1, <2>2, <2>3 DEF Types, Locals
  <2>5. w'.projects[j] = kept /\ \A k \in Projects \ {j} : w'.projects[k] = w.projects[k]
    BY <2>4 DEF Types, Locals
  <2> QED  BY <1>1, <1>2, <1>4, <1>5, <1>6, <1>9, <2>4, <2>5 DEF kept
<1> QED  BY <1>8, <1>9

(* The loop over Prometheuses ends with the last one.                      *)
LEMMA NextPromDoes ==
    ASSUME NEW w1 \in Locals
    PROVE  /\ NextProm(w1) \in Locals
           /\ NextProm(w1).pc = IF w1.proms = {} THEN "done" ELSE "proms"
           /\ NextProm(w1).projects = w1.projects /\ NextProm(w1).todo = w1.todo
           /\ NextProm(w1).j = w1.j /\ NextProm(w1).left = w1.left
           /\ NextProm(w1).found = w1.found /\ NextProm(w1).sys = w1.sys
           /\ NextProm(w1).proms = w1.proms /\ NextProm(w1).prom = w1.prom
BY DEF NextProm, Locals, Stages, Listing, Collected

\* The locals with the monitoring m of project j, and without the Prometheuses
\* in seen.
Monitored(j, m, seen) ==
    [w EXCEPT !.projects = [@ EXCEPT ![j] = [w.projects[j] EXCEPT !.mon = m]],
              !.proms = @ \ seen]

(* A stack that is found is that of its project, and of no other.          *)
LEMMA MonitoredDoes ==
    ASSUME Types, NEW j \in Projects, Listed(j), NEW m \in Monitoring, NEW seen
    PROVE  /\ Monitored(j, m, seen) \in Locals
           /\ Monitored(j, m, seen).pc = w.pc /\ Monitored(j, m, seen).todo = w.todo
           /\ Monitored(j, m, seen).j = w.j /\ Monitored(j, m, seen).left = w.left
           /\ Monitored(j, m, seen).found = w.found /\ Monitored(j, m, seen).sys = w.sys
           /\ Monitored(j, m, seen).proms = w.proms \ seen /\ Monitored(j, m, seen).prom = w.prom
           /\ Monitored(j, m, seen).projects =
                 [w.projects EXCEPT ![j] = [w.projects[j] EXCEPT !.mon = m]]
           /\ w.projects[j] \in Project /\ [w.projects[j] EXCEPT !.mon = m] \in Project
<1>1. w.projects[j] \in Project  BY DEF Types, Locals, Listed
<1>2. [w.projects[j] EXCEPT !.mon = m] \in Project  BY <1>1 DEF Project
<1> DEFINE prjs == [w.projects EXCEPT ![j] = [w.projects[j] EXCEPT !.mon = m]]
<1>3. prjs \in [Projects -> Project \cup {None}]
  <2> HIDE DEF Project
  <2> QED  BY <1>2 DEF Types, Locals
<1>4. Monitored(j, m, seen) = [w EXCEPT !.projects = prjs, !.proms = @ \ seen]
  BY DEF Monitored, Types, Locals
<1> HIDE DEF prjs
<1> QED
  <2>1. Monitored(j, m, seen) \in Locals  BY <1>3, <1>4 DEF Types, Locals
  <2>2. Monitored(j, m, seen).projects = prjs  BY <1>4 DEF Types, Locals
  <2> QED  BY <1>1, <1>2, <1>4, <2>1, <2>2 DEF Types, Locals, prjs

(* The Prometheuses are taken in their order.                              *)
LEMMA FirstProm ==
    ASSUME Types, w.proms # {}
    PROVE  /\ Min(w.proms) \in w.proms /\ Min(w.proms) \in Proms
           /\ \A q \in w.proms : Min(w.proms) <= q
           /\ PromProject(Min(w.proms), w.sys) \in Projects \cup {None}
<1>1. w.proms \subseteq Proms /\ w.sys \in Projects \cup {None}  BY DEF Types, Locals
<1>2. w.proms \subseteq Nat  BY <1>1, NumbersAssumption
<1>3. Min(w.proms) \in w.proms /\ \A q \in w.proms : Min(w.proms) <= q
  BY <1>2, MinNat
<1> QED  BY <1>1, <1>3, PromsAssumption DEF PromProject

\* The Prometheus at which the loop is, and its project.
Prom    == Min(w.proms)
PromsOf == PromProject(Prom, w.sys)

(* A Prometheus without a project is dropped.                              *)
LEMMA SkipPromDoes ==
    ASSUME Types, MonitoringOK, SkipProm
    PROVE  /\ w.pc = "proms" /\ Prom \in w.proms /\ Prom \in Proms
           /\ \A j \in Projects : Listed(j) => PromsOf # j
           /\ w' \in Locals /\ w'.pc = IF w'.proms = {} THEN "done" ELSE "proms"
           /\ w'.proms = w.proms \ {Prom} /\ w'.projects = w.projects /\ w'.todo = w.todo
           /\ w'.j = w.j /\ w'.left = w.left /\ w'.found = w.found /\ w'.sys = w.sys
           /\ w'.prom = w.prom
<1>1. w.pc = "proms" /\ w.proms # {}  BY DEF SkipProm, Is, MonitoringOK
<1>2. Prom \in w.proms /\ Prom \in Proms  BY <1>1, FirstProm DEF Prom
<1>3. \A j \in Projects : Listed(j) => PromsOf # j
  BY NumbersAssumption DEF SkipProm, Known, Listed, PromsOf, Prom
<1> DEFINE w1 == [w EXCEPT !.proms = @ \ {Prom}]
<1>4. w' = NextProm(w1)  BY DEF SkipProm, Call, Prom
<1>5. /\ w1 \in Locals /\ w1.proms = w.proms \ {Prom} /\ w1.projects = w.projects
      /\ w1.todo = w.todo /\ w1.j = w.j /\ w1.left = w.left /\ w1.found = w.found
      /\ w1.sys = w.sys /\ w1.prom = w.prom
  BY DEF Types, Locals
<1> HIDE DEF w1
<1> QED  BY <1>1, <1>2, <1>3, <1>4, <1>5, NextPromDoes

\* What comes of a Prometheus with a project: its stack, the Alertmanager
\* beside it, and URLs that are its own.
Stack(urls) == [prom |-> Prom, am |-> PromNs[Prom], urls |-> urls]

(* The stack of the system project has its URLs at once, those of others    *)
(* after one more Get; without an Alertmanager the call dies.              *)
LEMMA ListAlertmanagersDoes ==
    ASSUME Types, MonitoringOK, ListAlertmanagers
    PROVE  /\ w.pc = "proms" /\ w.proms # {} /\ PromsOf \in Projects /\ Listed(PromsOf)
           /\ \/ w' = Over("died")
              \/ PromsOf = w.sys /\ w' = NextProm(Monitored(PromsOf, Stack(Prom), {Prom}))
              \/ /\ PromsOf # w.sys
                 /\ w' = [Monitored(PromsOf, Stack(None), {}) EXCEPT !.pc = "urls"]
           /\ Stack(Prom) \in Monitoring /\ Stack(None) \in Monitoring
<1>1. w.pc = "proms" /\ w.proms # {}  BY DEF ListAlertmanagers, Is, MonitoringOK
<1>2. Prom \in Proms /\ PromsOf \in Projects \cup {None}
  BY <1>1, FirstProm DEF Prom, PromsOf
<1>3. PromsOf # None /\ Listed(PromsOf)
  BY DEF ListAlertmanagers, Known, Listed, PromsOf, Prom
<1>4. Stack(Prom) \in Monitoring /\ Stack(None) \in Monitoring
  BY <1>2, PromsAssumption DEF Stack, Monitoring
<1>5. w' = IF ~ HasSibling(Prom) THEN Over("died")
           ELSE IF PromsOf = w.sys
           THEN NextProm([WithMonitoring(PromsOf, Stack(Prom)) EXCEPT !.proms = @ \ {Prom}])
           ELSE [WithMonitoring(PromsOf, Stack(None)) EXCEPT !.pc = "urls"]
  BY DEF ListAlertmanagers, Call, Prom, PromsOf, Stack
<1> HIDE DEF Prom, PromsOf, Stack
<1>6. [WithMonitoring(PromsOf, Stack(Prom)) EXCEPT !.proms = @ \ {Prom}]
        = Monitored(PromsOf, Stack(Prom), {Prom})
  BY DEF WithMonitoring, Monitored, Types, Locals
<1>7. WithMonitoring(PromsOf, Stack(None)) = Monitored(PromsOf, Stack(None), {})
  BY DEF WithMonitoring, Monitored, Types, Locals
<1> QED  BY <1>1, <1>2, <1>3, <1>4, <1>5, <1>6, <1>7

(* The Get of a chart completes the stack that is there.                   *)
LEMMA GetUrlsDoes ==
    ASSUME Types, MonitoringOK, NEW found \in BOOLEAN, GetUrls(found)
    PROVE  /\ w.pc = "urls" /\ w.proms # {} /\ PromsOf \in Projects /\ Listed(PromsOf)
           /\ PromsOf # w.sys
           /\ \E u \in {Prom, None}, m \in Monitoring :
                 /\ m.prom = Prom /\ m.am = PromNs[Prom] /\ m.urls = u
                 /\ w' = NextProm(Monitored(PromsOf, m, {Prom}))
<1>1. w.pc = "urls" /\ w.proms # {} /\ PromsOf # w.sys /\ Known(PromsOf)
      /\ w.projects[PromsOf].mon # None /\ w.projects[PromsOf].mon.prom = Prom
  BY DEF GetUrls, Is, MonitoringOK, Prom, PromsOf
<1>2. Prom \in Proms /\ PromsOf \in Projects \cup {None}
  BY <1>1, FirstProm DEF Prom, PromsOf
<1>3. PromsOf \in Projects /\ Listed(PromsOf)  BY <1>1, <1>2 DEF Known, Listed
<1>4. Selects[Prom] = PromsOf  BY <1>1 DEF PromsOf, PromProject
<1>5. w.projects[PromsOf] \in Project  BY <1>3 DEF Types, Locals, Listed
<1>6. w.projects[PromsOf].mon \in Monitoring  BY <1>1, <1>5 DEF Project
<1>7. w.projects[PromsOf].mon.am = PromNs[Prom]
  BY <1>1, <1>3 DEF MonitoringOK, MonitorOK, Looked
<1> DEFINE u == IF found THEN Prom ELSE None
           m == [w.projects[PromsOf].mon EXCEPT !.urls = u]
<1>8. w' = NextProm([w EXCEPT !.projects[PromsOf].mon.urls = u, !.proms = @ \ {Prom}])
  BY <1>4 DEF GetUrls, Call, Prom
<1>9. [w EXCEPT !.projects[PromsOf].mon.urls = u, !.proms = @ \ {Prom}]
        = Monitored(PromsOf, m, {Prom})
  <2> HIDE DEF Prom, PromsOf, u
  <2>1. [w EXCEPT !.projects[PromsOf].mon.urls = u, !.proms = @ \ {Prom}]
          = [w EXCEPT !.projects = [@ EXCEPT ![PromsOf] =
                [w.projects[PromsOf] EXCEPT !.mon = m]], !.proms = @ \ {Prom}]
    BY DEF Types, Locals
  <2> QED  BY <2>1 DEF Monitored
<1>10. m \in Monitoring /\ m.prom = Prom /\ m.am = PromNs[Prom] /\ m.urls = u
  <2>1. u \in Proms \cup {None}  BY <1>2
  <2> HIDE DEF Prom, PromsOf, u
  <2> QED  BY <1>1, <1>6, <1>7, <2>1 DEF Monitoring
<1>11. u \in {Prom, None}  OBVIOUS
<1> HIDE DEF u, m
<1> QED  BY <1>1, <1>3, <1>8, <1>9, <1>10, <1>11

\* The call goes on to stage pc with the same locals.
GoesTo(pc) ==
    /\ w' \in Locals /\ w'.pc = pc /\ w'.projects = w.projects /\ w'.todo = w.todo
    /\ w'.j = w.j /\ w'.left = w.left /\ w'.found = w.found /\ w'.sys = w.sys
    /\ w'.proms = w.proms /\ w'.prom = w.prom /\ w'.keep = w.keep /\ w'.got = w.got

(* Whether Rancher manages the cluster decides how the call goes on.       *)
LEMMA AskRancherDoes ==
    ASSUME Types, AskRancher
    PROVE  \/ w.pc = "rancher" /\ GoesTo("system")
           \/ w.pc = "rancher" /\ GoesTo("done") /\ ~ (rancher /\ ~ mistaken')
           \/ w.pc = "managed" /\ (GoesTo("seed") \/ GoesTo("get"))
<1>1. PICK yes \in BOOLEAN : w' = Answered(yes) /\ (~ yes => ~ (rancher /\ ~ mistaken'))
  <2>1. CASE Call(Answered(rancher))  BY <2>1 DEF Call, Types
  <2>2. CASE ~ Call(Answered(rancher))  BY <2>2 DEF AskRancher
  <2> QED  BY <2>1, <2>2
<1>2. w.pc = "rancher" \/ w.pc = "managed"  BY DEF AskRancher, Is
<1>3. CASE w.pc = "rancher"
  <2>1. w' = [w EXCEPT !.pc = IF yes THEN "system" ELSE "done"]
    BY <1>1, <1>3 DEF Answered, Is
  <2>2. CASE yes
    <3>1. w' = [w EXCEPT !.pc = "system"]  BY <2>1, <2>2
    <3> QED  BY <1>3, <3>1 DEF GoesTo, Types, Locals, Stages, Listing, Collected
  <2>3. CASE ~ yes
    <3>1. w' = [w EXCEPT !.pc = "done"]  BY <2>1, <2>3
    <3> QED  BY <1>1, <1>3, <2>3, <3>1 DEF GoesTo, Types, Locals, Stages, Listing, Collected
  <2> QED  BY <2>2, <2>3
<1>4. CASE w.pc = "managed"
  <2>1. w' = [w EXCEPT !.pc = IF yes THEN "seed" ELSE "get"]
    BY <1>1, <1>4 DEF Answered, Is
  <2>2. CASE yes
    <3>1. w' = [w EXCEPT !.pc = "seed"]  BY <2>1, <2>2
    <3> QED  BY <1>4, <3>1 DEF GoesTo, Types, Locals, Stages, Writing, Asked
  <2>3. CASE ~ yes
    <3>1. w' = [w EXCEPT !.pc = "get"]  BY <2>1, <2>3
    <3> QED  BY <1>4, <3>1 DEF GoesTo, Types, Locals, Stages, Writing, Asked
  <2> QED  BY <2>2, <2>3
<1> QED  BY <1>2, <1>3, <1>4

\* All that a step of the list of Prometheuses leaves as it is.
LoopOver ==
    /\ w' \in Locals /\ w'.todo = w.todo /\ w'.j = w.j /\ w'.left = w.left
    /\ w'.found = w.found /\ w'.prom = w.prom

(* The id of the system project is that of kube-system, which is always    *)
(* there.                                                                  *)
LEMMA GetSystemProjectDoes ==
    ASSUME Types, Standing, GetSystemProject
    PROVE  /\ w.pc = "system" /\ LoopOver /\ w'.pc = "listproms"
           /\ w'.projects = w.projects /\ w'.proms = w.proms
           /\ w'.sys = ns[SystemNs].project
<1>1. w' = [w EXCEPT !.pc = "listproms", !.sys = ns[SystemNs].project] /\ w.pc = "system"
  BY DEF GetSystemProject, Is, Call
<1>2. ns[SystemNs].project \in Projects \cup {None}
  BY NamesAssumption DEF Types, Standing, Exists, NsRec
<1> QED  BY <1>1, <1>2 DEF LoopOver, Types, Locals, Stages, Listing, Collected

(* The List of the Prometheuses begins the loop over them.                 *)
LEMMA ListPromsDoes ==
    ASSUME Types, ListProms
    PROVE  /\ w.pc = "listproms" /\ LoopOver /\ w'.projects = w.projects /\ w'.sys = w.sys
           /\ w'.proms = up /\ w'.pc = IF w'.proms = {} THEN "done" ELSE "proms"
<1> DEFINE w1 == [w EXCEPT !.proms = up]
<1>1. w' = NextProm(w1) /\ w.pc = "listproms"  BY DEF ListProms, Is, Call
<1>2. /\ w1 \in Locals /\ w1.proms = up /\ w1.projects = w.projects /\ w1.todo = w.todo
      /\ w1.j = w.j /\ w1.left = w.left /\ w1.found = w.found /\ w1.sys = w.sys
      /\ w1.prom = w.prom
  BY DEF Types, Locals
<1> HIDE DEF w1
<1> QED  BY <1>1, <1>2, NextPromDoes DEF LoopOver

(* How a stack is entered: in the project, and in nothing else.            *)
LEMMA StackEntered ==
    ASSUME Types, NEW j \in Projects, Listed(j), NEW m \in Monitoring, NEW seen,
           \/ w' = NextProm(Monitored(j, m, seen))
           \/ w' = [Monitored(j, m, seen) EXCEPT !.pc = "urls"]
    PROVE  /\ LoopOver /\ w'.sys = w.sys /\ w'.proms = w.proms \ seen
           /\ \A k \in Projects \ {j} : w'.projects[k] = w.projects[k]
           /\ w'.projects[j] \in Project /\ w'.projects[j].mon = m
           /\ w'.projects[j].type = w.projects[j].type
           /\ w'.projects[j].created = w.projects[j].created
           /\ w'.projects[j].namespaces = w.projects[j].namespaces
           /\ w'.projects[j].presets = w.projects[j].presets
           /\ w' = NextProm(Monitored(j, m, seen)) =>
                 w'.pc = IF w'.proms = {} THEN "done" ELSE "proms"
           /\ w' = [Monitored(j, m, seen) EXCEPT !.pc = "urls"] => w'.pc = "urls"
<1> DEFINE w1 == Monitored(j, m, seen)
<1>1. /\ w1 \in Locals /\ w1.todo = w.todo /\ w1.j = w.j /\ w1.left = w.left
      /\ w1.found = w.found /\ w1.sys = w.sys /\ w1.proms = w.proms \ seen /\ w1.prom = w.prom
      /\ w1.projects = [w.projects EXCEPT ![j] = [w.projects[j] EXCEPT !.mon = m]]
      /\ w.projects[j] \in Project /\ [w.projects[j] EXCEPT !.mon = m] \in Project
  BY MonitoredDoes
<1> HIDE DEF w1
<1>2. /\ w1.projects[j] \in Project /\ w1.projects[j].mon = m
      /\ w1.projects[j].type = w.projects[j].type
      /\ w1.projects[j].created = w.projects[j].created
      /\ w1.projects[j].namespaces = w.projects[j].namespaces
      /\ w1.projects[j].presets = w.projects[j].presets
      /\ \A k \in Projects \ {j} : w1.projects[k] = w.projects[k]
  BY <1>1 DEF Types, Locals, Project
<1>a. w' = NextProm(w1) => w'.pc = IF w'.proms = {} THEN "done" ELSE "proms"
  BY <1>1, NextPromDoes
<1>b. w' = [w1 EXCEPT !.pc = "urls"] => w'.pc = "urls"
  BY <1>1 DEF Locals
<1>3. CASE w' = NextProm(w1)
  BY <1>1, <1>2, <1>3, <1>a, <1>b, NextPromDoes DEF LoopOver, w1
<1>4. CASE w' = [w1 EXCEPT !.pc = "urls"]
  <2>1. w' \in Locals /\ w'.pc = "urls" /\ w'.todo = w1.todo /\ w'.j = w1.j
        /\ w'.left = w1.left /\ w'.found = w1.found /\ w'.sys = w1.sys
        /\ w'.proms = w1.proms /\ w'.prom = w1.prom /\ w'.projects = w1.projects
    BY <1>1, <1>4 DEF Locals, Stages, Listing, Collected
  <2> QED  BY <1>1, <1>2, <1>4, <1>a, <1>b, <2>1 DEF LoopOver, w1
<1> QED  BY <1>3, <1>4 DEF w1

(* The steps of CreateServiceMonitor.                                      *)
LEMMA WritingDoes ==
    ASSUME Types, StageOK, GetSeed \/ ListMembers \/ GetMonitor \/ WriteMonitor,
           w' # Over("failed")
    PROVE  /\ w' \in Locals /\ w'.prom = w.prom /\ w'.projects = w.projects /\ w'.sys = w.sys
           /\ \/ /\ w.pc = "seed" /\ Exists(PromNs[w.prom]) /\ w'.j = ns[PromNs[w.prom]].project
                 /\ w'.pc = IF w'.j = None THEN "get" ELSE "members"
              \/ /\ w.pc = "members" /\ w'.pc = "get" /\ w'.j = w.j /\ w'.keep = Members(w.j)
              \/ /\ w.pc = "get" /\ w'.pc = "write" /\ w'.j = w.j /\ w'.keep = w.keep
                 /\ w'.got = monitor
              \/ /\ w.pc = "write" /\ w'.pc = "created" /\ w'.j = w.j /\ w'.keep = w.keep
                 /\ w'.got = w.got /\ monitor' = Rule
<1>0. w.pc \in Writing => w.prom \in Proms  BY DEF StageOK
<1>1. CASE GetSeed
  <2> DEFINE seed == ns[PromNs[w.prom]]
  <2>1. w.pc = "seed" /\ seed # None
        /\ w' = [w EXCEPT !.j = seed.project, !.pc = IF seed.project = None THEN "get" ELSE "members"]
    BY <1>1 DEF GetSeed, Is, Fail, Call
  <2>2. seed.project \in Projects \cup {None}
    <3>1. PromNs[w.prom] \in Namespaces  BY <1>0, <2>1, PromsAssumption DEF Writing
    <3> QED  BY <2>1, <3>1 DEF Types, NsRec
  <2>3. Exists(PromNs[w.prom])  BY <2>1 DEF Exists
  <2> HIDE DEF seed
  <2>4. {"get", "members"} \subseteq Stages  BY DEF Stages, Writing, Asked
  <2>5. w' \in Locals /\ w'.prom = w.prom /\ w'.projects = w.projects /\ w'.sys = w.sys
        /\ w'.j = seed.project /\ w'.pc = IF seed.project = None THEN "get" ELSE "members"
    BY <2>1, <2>2, <2>4 DEF Types, Locals
  <2> QED  BY <2>1, <2>3, <2>5 DEF seed
<1>2. CASE ListMembers
  <2>1. w.pc = "members" /\ w' = [w EXCEPT !.keep = Members(w.j), !.pc = "get"]
    BY <1>2 DEF ListMembers, Is, Call
  <2>2. Members(w.j) \subseteq Namespaces  BY DEF Members, Existing
  <2> QED  BY <2>1, <2>2 DEF Types, Locals, Stages, Writing, Asked
<1>3. CASE GetMonitor
  <2>1. w.pc = "get" /\ w' = [w EXCEPT !.got = monitor, !.pc = "write"]
    BY <1>3 DEF GetMonitor, Is, Call
  <2> QED  BY <2>1 DEF Types, Locals, Stages, Writing, Asked
<1>4. CASE WriteMonitor
  <2>1. w.pc = "write" /\ w' = [w EXCEPT !.pc = "created"] /\ monitor' = Rule
    BY <1>4 DEF WriteMonitor, Is, Fail, Call
  <2> QED  BY <2>1 DEF Types, Locals, Stages, Writing, Asked
<1> QED  BY <1>1, <1>2, <1>3, <1>4

(* What goes is one of Rancher's own, and what comes is something.         *)
LEMMA StandingStep ==
    ASSUME Types, Ages, Standing, CallStep \/ ClusterStep
    PROVE  Standing'
<1>1. CASE CallStep
  <2>1. ns' = ns  BY <1>1, CallFrame
  <2> QED  BY <2>1 DEF Standing, Exists
<1>2. CASE ClusterStep
  <2>1. CASE ns' = ns  BY <2>1 DEF Standing, Exists
  <2>2. CASE ns' # ns
    <3>1. PICK n \in Namespaces :
             /\ \A m \in Namespaces \ {n} : NsKept(m)
             /\ ns'[n] \in NsRec \/ n \in Operated
      BY <1>2, <2>2, NsChange
    <3> QED  BY <3>1, NoneAssumption DEF Standing, Exists, NsKept
  <2> QED  BY <2>1, <2>2
<1> QED  BY <1>1, <1>2

(* A call that is over without a result has no locals.                     *)
LEMMA EndHolds ==
    ASSUME Types, Ages, Standing, CallStep, w' = Over("failed") \/ w' = Over("died")
    PROVE  IInv'
<1>1. w' \in Locals /\ w'.pc \in {"failed", "died"} /\ w'.sys = None /\ w'.j = None
  BY OverType DEF Stages
<1>2. /\ ns' = ns /\ presets' = presets /\ up' = up /\ ams' = ams /\ rancher' = rancher
      /\ touched' = touched /\ spent'.changes = spent.changes
      /\ spent' \in [changes : Nat, failures : Nat] /\ mistaken' \in BOOLEAN
      /\ monitor' \in (SUBSET Namespaces) \cup {None}
  BY CallFrame
<1>3. Types'  BY <1>1, <1>2 DEF Types
<1>4. Ages' /\ Standing'  BY <1>2 DEF Ages, Standing, Existing, Exists
<1>5. StageOK' /\ LoopOK'
  BY <1>1 DEF StageOK, LoopOK, Listing, Collected, Writing, Asked, Unread
<1>6. ProjectsOK' /\ PresetsOK' /\ MonitoringOK' /\ SeedOK' /\ KeepOK' /\ GotOK' /\ CreatedOK'
  BY <1>1 DEF ProjectsOK, PresetsOK, MonitoringOK, SeedOK, KeepOK, GotOK, CreatedOK,
     Collected, Looked, Asked
<1> QED  BY <1>3, <1>4, <1>5, <1>6 DEF IInv

\* The call goes on.
Continues == w' # Over("failed") /\ w' # Over("died")

\* A step that is about Prometheuses keeps what is known of project j.
Kept(j) ==
    /\ Listed(j)' <=> Listed(j)
    /\ Listed(j) => /\ w'.projects[j].type = w.projects[j].type
                    /\ w'.projects[j].created = w.projects[j].created
                    /\ w'.projects[j].namespaces = w.projects[j].namespaces
                    /\ w'.projects[j].presets = w.projects[j].presets

(* After the loop over projects, only the monitoring of projects changes.  *)
LEMMA LaterSteps ==
    ASSUME Types, Ages, Standing, MonitoringOK, Continues,
           AskRancher \/ GetSystemProject \/ ListProms \/ SkipProm \/ ListAlertmanagers
             \/ \E found \in BOOLEAN : GetUrls(found)
    PROVE  /\ w.pc \in {"rancher", "managed", "system", "listproms", "proms", "urls"}
           /\ LoopOver /\ \A j \in Projects : Kept(j)
           /\ w.pc # "managed" => w'.pc \in {"system", "listproms", "proms", "urls", "done"}
           /\ w.pc = "managed" => w'.pc \in {"seed", "get"} /\ w'.projects = w.projects
           /\ w.pc # "system" => w'.sys = w.sys
<1>0. ASSUME w'.projects = w.projects PROVE \A j \in Projects : Kept(j)
  BY <1>0 DEF Kept, Listed
<1>1. CASE AskRancher
  BY <1>0, <1>1, AskRancherDoes DEF GoesTo, LoopOver
<1>2. CASE GetSystemProject
  BY <1>0, <1>2, GetSystemProjectDoes
<1>3. CASE ListProms
  BY <1>0, <1>3, ListPromsDoes
<1>4. CASE SkipProm
  BY <1>0, <1>4, SkipPromDoes DEF LoopOver
<1>5. ASSUME NEW j \in Projects, Listed(j), NEW m \in Monitoring, NEW seen,
             w.pc \in {"proms", "urls"},
             \/ w' = NextProm(Monitored(j, m, seen))
             \/ w' = [Monitored(j, m, seen) EXCEPT !.pc = "urls"]
      PROVE  /\ LoopOver /\ \A k \in Projects : Kept(k)
             /\ w'.pc \in {"proms", "urls", "done"} /\ w'.sys = w.sys
  <2>1. /\ LoopOver /\ w'.sys = w.sys /\ w'.pc \in {"proms", "urls", "done"}
        /\ \A k \in Projects \ {j} : w'.projects[k] = w.projects[k]
        /\ w'.projects[j] \in Project
        /\ w'.projects[j].type = w.projects[j].type
        /\ w'.projects[j].created = w.projects[j].created
        /\ w'.projects[j].namespaces = w.projects[j].namespaces
        /\ w'.projects[j].presets = w.projects[j].presets
    BY <1>5, StackEntered
  <2>2. w'.projects[j] # None  BY <2>1, NoneAssumption
  <2> QED  BY <1>5, <2>1, <2>2 DEF Kept, Listed
<1>6. CASE ListAlertmanagers
  <2>1. /\ w.pc = "proms" /\ PromsOf \in Projects /\ Listed(PromsOf)
        /\ \/ w' = NextProm(Monitored(PromsOf, Stack(Prom), {Prom}))
           \/ w' = [Monitored(PromsOf, Stack(None), {}) EXCEPT !.pc = "urls"]
        /\ Stack(Prom) \in Monitoring /\ Stack(None) \in Monitoring
    BY <1>6, ListAlertmanagersDoes DEF Continues
  <2> QED  BY <1>5, <2>1
<1>7. CASE \E found \in BOOLEAN : GetUrls(found)
  <2>1. PICK found \in BOOLEAN : GetUrls(found)  BY <1>7
  <2>2. /\ w.pc = "urls" /\ PromsOf \in Projects /\ Listed(PromsOf)
        /\ \E m \in Monitoring : w' = NextProm(Monitored(PromsOf, m, {Prom}))
    BY <2>1, GetUrlsDoes
  <2>3. PICK m \in Monitoring : w' = NextProm(Monitored(PromsOf, m, {Prom}))  BY <2>2
  <2>4. \/ w' = NextProm(Monitored(PromsOf, m, {Prom}))
        \/ w' = [Monitored(PromsOf, m, {Prom}) EXCEPT !.pc = "urls"]
    BY <2>3
  <2>5. w.pc \in {"proms", "urls"}  BY <2>2
  <2>6. /\ LoopOver /\ \A k \in Projects : Kept(k)
        /\ w'.pc \in {"proms", "urls", "done"} /\ w'.sys = w.sys
    BY <1>5, <2>2, <2>4, <2>5
  <2> QED  BY <2>2, <2>6
<1> QED  BY <1>1, <1>2, <1>3, <1>4, <1>6, <1>7

(* The cases of a step of the call that goes on.                           *)
LEMMA CallCases ==
    ASSUME CallStep, Continues
    PROVE  \/ ListNamespaces
           \/ \E j \in Projects : Visit(j)
           \/ AskRancher \/ GetSystemProject \/ ListProms \/ SkipProm \/ ListAlertmanagers
                \/ \E found \in BOOLEAN : GetUrls(found)
           \/ GetSeed \/ ListMembers \/ GetMonitor \/ WriteMonitor
BY DEF CallStep, RequestFails, FailsTo, Continues

\* What a step of the call needs to know.
Known0 == Types /\ Ages /\ Standing /\ StageOK /\ LoopOK /\ ProjectsOK /\ MonitoringOK

(* The call's locals keep their types.                                     *)
LEMMA TypesStep ==
    ASSUME Known0, CallStep, Continues
    PROVE  Types' /\ Ages'
<1> USE DEF Known0
<1>1. /\ ns' = ns /\ presets' = presets /\ up' = up /\ ams' = ams /\ rancher' = rancher
      /\ touched' = touched /\ spent'.changes = spent.changes
      /\ spent' \in [changes : Nat, failures : Nat] /\ mistaken' \in BOOLEAN
      /\ monitor' \in (SUBSET Namespaces) \cup {None}
  BY CallFrame
<1>2. w' \in Locals
  <2>1. CASE ListNamespaces  BY <2>1, ListNamespacesDoes
  <2>2. CASE \E j \in Projects : Visit(j)  BY <2>2, VisitDoes
  <2>3. CASE AskRancher \/ GetSystemProject \/ ListProms \/ SkipProm \/ ListAlertmanagers
               \/ \E found \in BOOLEAN : GetUrls(found)
    BY <2>3, LaterSteps DEF LoopOver
  <2>4. CASE GetSeed \/ ListMembers \/ GetMonitor \/ WriteMonitor
    BY <2>4, WritingDoes DEF Continues
  <2> QED  BY <2>1, <2>2, <2>3, <2>4, CallCases
<1> QED  BY <1>1, <1>2 DEF Types, Ages, Existing, Exists

(* And they belong to its stage.                                           *)
LEMMA StageStep ==
    ASSUME Known0, CallStep, Continues
    PROVE  StageOK' /\ LoopOK'
<1> USE DEF Known0
<1>0. touched' = touched  BY CallFrame
<1>1. CASE ListNamespaces
  <2>1. \A j \in w'.todo : w'.projects[j] # None
    <3> SUFFICES ASSUME NEW j \in w'.todo PROVE w'.projects[j] # None  OBVIOUS
    <3>1. j \in Projects /\ Members(j) # {} /\ w'.projects[j] = ProjectOf(Members(j))
      BY <1>1, ListNamespacesDoes
    <3>2. ProjectOf(Members(j)) \in Project  BY <3>1, ProjectOfType DEF Members
    <3> QED  BY <3>1, <3>2, NoneAssumption
  <2> QED
    BY <1>1, <2>1, ListNamespacesDoes DEF StageOK, LoopOK, Listing, Collected, Writing, Asked, Unread
<1>2. ASSUME NEW j \in Projects, Visit(j) PROVE StageOK' /\ LoopOK'
  <2>1. StageOK'
    BY <1>2, VisitDoes DEF StageOK, Listing, Collected, Writing, Asked, Unread
  <2>2. w'.pc \in {"projects", "rancher"} /\ (w'.todo = {} <=> w'.pc = "rancher")
    BY <1>2, VisitDoes
  <2>3. \A k \in w'.todo : w'.projects[k] # None
    <3> SUFFICES ASSUME NEW k \in w'.todo PROVE w'.projects[k] # None  OBVIOUS
    <3>1. k \in w.todo /\ w'.projects[k] = w.projects[k]
      <4>1. w.todo \subseteq Projects  BY DEF Types, Locals
      <4>2. /\ \A i \in Projects \ {j} : w'.projects[i] = w.projects[i]
            /\ \/ w'.projects = w.projects /\ w'.todo = w.todo
               \/ w'.todo = w.todo \ {j}
        BY <1>2, VisitDoes
      <4> QED  BY <4>1, <4>2
    <3> QED  BY <1>2, <3>1, VisitDoes DEF LoopOK, Listing, Collected
  <2>4. w'.j = None => w'.left = {} /\ w'.found = {}
    BY <1>2, NumbersAssumption, VisitDoes
  <2>5. w'.j # None => /\ w'.pc = "projects" /\ w'.j \in w'.todo /\ w'.left # {}
                       /\ w'.left \subseteq w'.projects[w'.j].namespaces
    BY <1>2, VisitDoes
  <2> QED  BY <2>1, <2>2, <2>3, <2>4, <2>5 DEF LoopOK, Listing, Collected
<1>3. CASE AskRancher \/ GetSystemProject \/ ListProms \/ SkipProm \/ ListAlertmanagers
             \/ \E found \in BOOLEAN : GetUrls(found)
  <2>1. /\ w.pc \in {"rancher", "managed", "system", "listproms", "proms", "urls"}
        /\ LoopOver /\ \A j \in Projects : Kept(j)
        /\ w.pc # "managed" => w'.pc \in {"system", "listproms", "proms", "urls", "done"}
        /\ w.pc = "managed" => w'.pc \in {"seed", "get"} /\ w'.projects = w.projects
        /\ w.pc # "system" => w'.sys = w.sys
    BY <1>3, LaterSteps
  <2>2. CASE w.pc = "managed"
    BY <1>0, <2>1, <2>2 DEF StageOK, LoopOK, Listing, Collected, Writing, Asked, Unread, LoopOver
  <2>3. CASE w.pc # "managed"
    <3>1. w.prom = None /\ w.todo = {} /\ w.j = None /\ w.left = {} /\ w.found = {}
      BY <2>1, <2>3 DEF StageOK, LoopOK, Listing, Collected
    <3> QED
      BY <2>1, <2>3, <3>1 DEF StageOK, LoopOK, Listing, Collected, Writing, Asked, Unread, LoopOver
  <2> QED  BY <2>2, <2>3
<1>4. CASE GetSeed \/ ListMembers \/ GetMonitor \/ WriteMonitor
  <2>1. w.pc \in {"seed", "members", "get", "write"} /\ w'.pc \in Asked
        /\ (w'.pc = "members" => w'.j # None)
        /\ w'.prom = w.prom /\ w'.projects = w.projects /\ w'.sys = w.sys
    BY <1>4, WritingDoes DEF Continues, Asked
  <2> QED
    BY <1>0, <2>1 DEF StageOK, LoopOK, Listing, Collected, Writing, Asked, Unread
<1> QED  BY <1>1, <1>2, <1>3, <1>4, CallCases

---------------------------------------------------------------------------
(* Projects.                                                               *)

(* Namespaces that have not been touched are where they were.              *)
LEMMA SettledStays ==
    ASSUME Remembered, ~ Unread, NEW j
    PROVE  /\ Members(j)' \ touched'.ns = Members(j) \ touched'.ns
           /\ \A n \in Namespaces \ touched'.ns : ns'[n] = ns[n]
BY DEF Remembered, Members, Existing, Exists, NsKept

(* What is known of a project stays true while the cluster changes.        *)
LEMMA ProjectsCluster ==
    ASSUME Types, ProjectsOK, Remembered
    PROVE  ProjectsOK'
<1> SUFFICES ASSUME w'.pc \in Collected, NEW j \in Projects PROVE ProjectOK(j)'
  BY DEF ProjectsOK
<1>1. w' = w /\ touched.ns \subseteq touched'.ns  BY DEF Remembered
<1>2. ~ Unread /\ ProjectOK(j)  BY <1>1 DEF ProjectsOK, Unread, Collected
<1>3. Members(j)' \ touched'.ns = Members(j) \ touched'.ns
      /\ \A n \in Namespaces \ touched'.ns : ns'[n] = ns[n]
  BY <1>2, SettledStays
<1>4. Listed(j)' = Listed(j)  BY <1>1 DEF Listed
<1>5. Members(j) \subseteq Namespaces  BY DEF Members, Existing
<1> HIDE DEF Listed
<1>6. Members(j)' \ touched'.ns \subseteq Members(j) \ touched.ns  BY <1>1, <1>3
<1>7. ~ Listed(j)' => Members(j)' \ touched'.ns \subseteq Operated
  BY <1>2, <1>4, <1>6 DEF ProjectOK
<1>8. ASSUME Listed(j)
      PROVE  /\ w'.projects[j].namespaces \ touched'.ns = Members(j)' \ touched'.ns
             /\ w'.projects[j].namespaces # {}
             /\ j \notin w'.todo => w'.projects[j].namespaces \ Operated # {}
             /\ \A n \in Members(j)' \ touched'.ns : w'.projects[j].created <= ns'[n].born
             /\ w'.projects[j].type = "System" <=> SystemNs \in w'.projects[j].namespaces
             /\ w'.projects[j].type = "Default" => DefaultNs \in w'.projects[j].namespaces
  <2>1. w'.projects[j].namespaces \ touched'.ns = Members(j)' \ touched'.ns
    BY <1>1, <1>2, <1>3, <1>8 DEF ProjectOK
  <2>2. \A n \in Members(j)' \ touched'.ns : w'.projects[j].created <= ns'[n].born
    BY <1>1, <1>2, <1>3, <1>5, <1>6, <1>8 DEF ProjectOK
  <2> QED  BY <1>1, <1>2, <1>8, <2>1, <2>2 DEF ProjectOK
<1> QED  BY <1>4, <1>7, <1>8 DEF ProjectOK

(* The List and the loop over projects make them so.                       *)
LEMMA ProjectsCall ==
    ASSUME Known0, CallStep, Continues
    PROVE  ProjectsOK'
<1> USE DEF Known0
<1> SUFFICES ASSUME w'.pc \in Collected, NEW j \in Projects PROVE ProjectOK(j)'
  BY DEF ProjectsOK
<1>0. ns' = ns /\ touched' = touched  BY CallFrame
<1>a. Members(j)' = Members(j)  BY <1>0 DEF Members, Existing, Exists
<1>1. CASE ListNamespaces
  <2>1. w'.projects[j] = (IF Members(j) # {} THEN ProjectOf(Members(j)) ELSE None)
        /\ (j \in w'.todo <=> Members(j) # {}) /\ touched = Nothing
    BY <1>1, ListNamespacesDoes
  <2>2. CASE Members(j) = {}
    BY <1>a, <2>1, <2>2 DEF ProjectOK, Listed
  <2>3. CASE Members(j) # {}
    <3>1. ProjectOf(Members(j)) \in Project
          /\ \A n \in Members(j) : ProjectOf(Members(j)).created <= ns[n].born
      BY <2>3, ProjectOfType DEF Members
    <3>2. /\ ProjectOf(Members(j)).namespaces = Members(j)
          /\ ProjectOf(Members(j)).type = "System" <=> SystemNs \in Members(j)
          /\ ProjectOf(Members(j)).type = "Default" => DefaultNs \in Members(j)
      BY DEF ProjectOf
    <3>3. touched'.ns = {}  BY <1>0, <2>1 DEF Nothing
    <3>4. Listed(j)'  BY <2>1, <2>3, <3>1, NoneAssumption DEF Listed
    <3> HIDE DEF Listed, ProjectOf
    <3> QED  BY <1>0, <1>a, <2>1, <2>3, <3>1, <3>2, <3>3, <3>4 DEF ProjectOK
  <2> QED  BY <2>2, <2>3
<1>2. ASSUME NEW k \in Projects, Visit(k) PROVE ProjectOK(j)'
  <2>1. ProjectOK(j) /\ Listed(k) /\ w.projects[k] \in Project
    BY <1>2, VisitDoes DEF ProjectsOK, Collected
  <2>2. CASE w'.projects[j] = w.projects[j] /\ (j \in w'.todo <=> j \in w.todo)
    BY <1>0, <1>a, <2>1, <2>2 DEF ProjectOK, Listed
  <2>3. CASE /\ j = k /\ w'.todo = w.todo \ {k}
             /\ w'.projects[k] = IF HasUserNs(w.projects[k])
                                 THEN [w.projects[k] EXCEPT !.presets = Found(k)] ELSE None
    <3>1. CASE HasUserNs(w.projects[k])
      <4> DEFINE prj == [w.projects[k] EXCEPT !.presets = Found(k)]
      <4>1. /\ prj.type = w.projects[j].type /\ prj.created = w.projects[j].created
            /\ prj.namespaces = w.projects[j].namespaces
            /\ prj.namespaces \ Operated # {} /\ prj # None
        <5>1. Found(k) \subseteq Preset  BY <1>2, VisitDoes
        <5> HIDE DEF Found
        <5>2. prj \in Project  BY <2>1, <5>1 DEF Project
        <5>3. prj # None  BY <5>2, NoneAssumption
        <5> QED  BY <2>1, <2>3, <3>1, <5>3 DEF HasUserNs, Project
      <4>2. w'.projects[j] = prj  BY <2>3, <3>1
      <4> HIDE DEF prj
      <4> QED  BY <1>0, <1>a, <2>1, <2>3, <4>1, <4>2 DEF ProjectOK, Listed
    <3>2. CASE ~ HasUserNs(w.projects[k])
      <4>1. Members(j) \ touched.ns \subseteq Operated
        BY <2>1, <2>3, <3>2 DEF HasUserNs, ProjectOK
      <4> QED  BY <1>0, <1>a, <2>3, <3>2, <4>1 DEF ProjectOK, Listed
    <3> QED  BY <3>1, <3>2
  <2>4. /\ k \in w.todo /\ \A i \in Projects \ {k} : w'.projects[i] = w.projects[i]
        /\ \/ w'.projects = w.projects /\ w'.todo = w.todo
           \/ /\ w'.todo = w.todo \ {k}
              /\ w'.projects[k] = IF HasUserNs(w.projects[k])
                                  THEN [w.projects[k] EXCEPT !.presets = Found(k)] ELSE None
    BY <1>2, VisitDoes
  <2> QED  BY <2>2, <2>3, <2>4
<1>3. CASE AskRancher \/ GetSystemProject \/ ListProms \/ SkipProm \/ ListAlertmanagers
             \/ \E found \in BOOLEAN : GetUrls(found)
  <2>1. w.pc \in Collected /\ w'.todo = w.todo /\ Kept(j)
    BY <1>3, LaterSteps DEF LoopOver, Collected
  <2>2. ProjectOK(j)  BY <2>1 DEF ProjectsOK
  <2> QED  BY <1>0, <1>a, <2>1, <2>2 DEF ProjectOK, Kept
<1>4. CASE GetSeed \/ ListMembers \/ GetMonitor \/ WriteMonitor
  BY <1>4, WritingDoes DEF Continues, Collected
<1> QED  BY <1>1, <1>2, <1>3, <1>4, CallCases

---------------------------------------------------------------------------
(* Presets.                                                                *)

(* Presets that have not been touched are still the same.                  *)
LEMMA PresetsCluster ==
    ASSUME Types, PresetsOK, Remembered
    PROVE  PresetsOK'
<1> SUFFICES ASSUME w'.pc \in Collected, NEW j \in Projects, Listed(j)'
             PROVE  /\ j \notin w'.todo => Covers(w.projects[j].presets, Places(w.projects[j], {}))'
                    /\ j = w'.j => Covers(w.found, Places(w.projects[j], w.left))'
  BY DEF PresetsOK
<1>1. w' = w  BY DEF Remembered
<1>2. ~ Unread /\ Listed(j) /\ w.pc \in Collected  BY <1>1 DEF Unread, Collected, Listed
<1>3. /\ touched.presets \subseteq touched'.presets
      /\ \A x \in Preset \ touched'.presets : x \in presets' <=> x \in presets
  BY <1>2 DEF Remembered
<1>4. /\ j \notin w.todo => Covers(w.projects[j].presets, Places(w.projects[j], {}))
      /\ j = w.j => Covers(w.found, Places(w.projects[j], w.left))
  BY <1>2 DEF PresetsOK
<1>5. Places(w.projects[j], {})' = Places(w.projects[j], {})
      /\ Places(w.projects[j], w.left)' = Places(w.projects[j], w.left)
  BY <1>1 DEF Places
<1> HIDE DEF Places
<1>6. ASSUME j \notin w.todo PROVE Covers(w.projects[j].presets, Places(w.projects[j], {}))'
  BY <1>1, <1>3, <1>4, <1>5, <1>6 DEF Covers
<1>7. ASSUME j = w.j PROVE Covers(w.found, Places(w.projects[j], w.left))'
  BY <1>1, <1>3, <1>4, <1>5, <1>7 DEF Covers
<1> QED  BY <1>1, <1>6, <1>7

(* A visit finds the presets of one more namespace.                        *)
LEMMA FoundCovers ==
    ASSUME Known0, PresetsOK, NEW j \in Projects, Visit(j)
    PROVE  Covers(Found(j), Places(w.projects[j], Left(j) \ {Turn(j)}))
<1> USE DEF Known0
<1> DEFINE prj == w.projects[j]
           n == Turn(j)
           before == Places(prj, Left(j))
           after == Places(prj, Left(j) \ {n})
<1> SUFFICES Covers(Found(j), after)  OBVIOUS
<1>1. /\ w.pc = "projects" /\ w.j \in {None, j} /\ Listed(j) /\ prj \in Project
      /\ Left(j) \subseteq prj.namespaces /\ n \in Left(j)
  BY VisitDoes
<1>2. prj.namespaces \subseteq Namespaces  BY <1>1 DEF Project
<1>3. prj.type = "System" <=> SystemNs \in prj.namespaces
  BY <1>1 DEF ProjectsOK, ProjectOK, Collected
<1>4. Covers(w.found, before)
  <2>1. CASE w.j = None
    <3>1. w.found = {}  BY <1>1, <2>1 DEF LoopOK, Listing, Collected
    <3>2. before = {}  BY <1>3, <2>1 DEF Places, Left
    <3> HIDE DEF before
    <3> QED  BY <3>1, <3>2 DEF Covers
  <2>2. CASE w.j # None
    <3>1. w.j = j /\ Left(j) = w.left  BY <1>1, <2>2 DEF Left
    <3>2. Covers(w.found, Places(w.projects[j], w.left))
      BY <1>1, <3>1 DEF PresetsOK, Collected
    <3> QED  BY <3>1, <3>2
  <2> QED  BY <2>1, <2>2
<1>5. Found(j) = w.found \cup PresetsOf(prj, n)  BY DEF Found
<1>6. presets \subseteq Preset  BY DEF Types
<1>7. CASE prj.type = "System" /\ n = SystemNs
  <2>1. before = {} /\ after = {Cluster}  BY <1>1, <1>7 DEF Places
  <2>2. PresetsOf(prj, n) = {x \in presets : x[1] = Cluster}  BY <1>7 DEF PresetsOf
  <2> HIDE DEF before, after, prj, n
  <2> QED  BY <1>4, <1>5, <1>6, <2>1, <2>2 DEF Covers
<1>8. CASE prj.type = "System" /\ n # SystemNs
  <2>1. before = after  BY <1>1, <1>8 DEF Places
  <2>2. PresetsOf(prj, n) = {}  BY <1>8 DEF PresetsOf
  <2> HIDE DEF before, after, prj, n
  <2>3. Found(j) = w.found  BY <1>5, <2>2
  <2> QED  BY <1>4, <2>1, <2>3
<1>9. CASE prj.type # "System"
  <2>1. n \notin before /\ after = before \cup {n}  BY <1>1, <1>9 DEF Places
  <2>2. PresetsOf(prj, n) = {x \in presets : x[1] = n}  BY <1>9 DEF PresetsOf
  <2> HIDE DEF before, after, prj, n
  <2> QED  BY <1>4, <1>5, <1>6, <2>1, <2>2 DEF Covers
<1> QED  BY <1>7, <1>8, <1>9

(* At the end of its turn a project has the presets of all its namespaces. *)
LEMMA PresetsCall ==
    ASSUME Known0, PresetsOK, CallStep, Continues
    PROVE  PresetsOK'
<1> USE DEF Known0
<1> SUFFICES ASSUME w'.pc \in Collected, NEW j \in Projects, Listed(j)'
             PROVE  /\ j \notin w'.todo => Covers(w.projects[j].presets, Places(w.projects[j], {}))'
                    /\ j = w'.j => Covers(w.found, Places(w.projects[j], w.left))'
  BY DEF PresetsOK
<1>0. presets' = presets /\ touched' = touched  BY CallFrame
<1>1. CASE ListNamespaces
  <2>1. j \in w'.todo /\ w'.j = None
    BY <1>1, ListNamespacesDoes DEF Listed
  <2> QED  BY <2>1, NumbersAssumption
<1>2. ASSUME NEW k \in Projects, Visit(k)
      PROVE  /\ j \notin w'.todo => Covers(w.projects[j].presets, Places(w.projects[j], {}))'
             /\ j = w'.j => Covers(w.found, Places(w.projects[j], w.left))'
  <2>1. Covers(Found(k), Places(w.projects[k], Left(k) \ {Turn(k)}))
    BY <1>2, FoundCovers
  <2>2. /\ w.pc = "projects" /\ k \in w.todo /\ w.j \in {None, k} /\ Listed(k)
        /\ w.projects[k] \in Project /\ Found(k) \subseteq Preset
        /\ \A i \in Projects \ {k} : w'.projects[i] = w.projects[i]
        /\ \/ /\ w'.projects = w.projects /\ w'.todo = w.todo /\ w'.j = k
              /\ w'.left = Left(k) \ {Turn(k)} /\ w'.found = Found(k)
           \/ /\ Left(k) = {Turn(k)} /\ w'.todo = w.todo \ {k} /\ w'.j = None
              /\ w'.projects[k] = IF HasUserNs(w.projects[k])
                                  THEN [w.projects[k] EXCEPT !.presets = Found(k)] ELSE None
    BY <1>2, VisitDoes
  <2> HIDE DEF Found, Left, Turn
  <2>3. CASE j # k
    <3>1. w'.projects[j] = w.projects[j] /\ (j \in w'.todo <=> j \in w.todo) /\ j # w'.j
      BY <2>2, <2>3, NumbersAssumption
    <3>2. j \notin w.todo => Covers(w.projects[j].presets, Places(w.projects[j], {}))
      BY <2>2, <3>1 DEF PresetsOK, Collected, Listed
    <3> QED  BY <1>0, <3>1, <3>2 DEF Covers, Places
  <2>4. CASE j = k /\ w'.j = k
    <3>1. j \in w'.todo /\ w'.projects[j] = w.projects[j] /\ w'.left = Left(k) \ {Turn(k)}
          /\ w'.found = Found(k)
      BY <2>2, <2>4, NumbersAssumption
    <3> QED  BY <1>0, <2>1, <2>4, <3>1 DEF Covers, Places
  <2>5. CASE j = k /\ w'.j # k
    <3>1. /\ Left(k) = {Turn(k)} /\ w'.j = None
          /\ w'.projects[k] = IF HasUserNs(w.projects[k])
                              THEN [w.projects[k] EXCEPT !.presets = Found(k)] ELSE None
      BY <2>2, <2>5
    <3>2. HasUserNs(w.projects[k])  BY <2>5, <3>1 DEF Listed
    <3>3. /\ w'.projects[j].presets = Found(k) /\ w'.projects[j].type = w.projects[k].type
          /\ w'.projects[j].namespaces = w.projects[k].namespaces
      BY <2>2, <2>5, <3>1, <3>2 DEF Project
    <3>4. Left(k) \ {Turn(k)} = {}  BY <3>1
    <3>5. Covers(Found(k), Places(w.projects[k], {}))  BY <2>1, <3>4
    <3> QED  BY <1>0, <2>5, <3>1, <3>3, <3>5, NumbersAssumption DEF Covers, Places
  <2> QED  BY <2>3, <2>4, <2>5
<1>3. CASE AskRancher \/ GetSystemProject \/ ListProms \/ SkipProm \/ ListAlertmanagers
             \/ \E found \in BOOLEAN : GetUrls(found)
  <2>1. w.pc \in Collected /\ w.pc # "projects" /\ LoopOver /\ Kept(j)
    BY <1>3, LaterSteps DEF Collected
  <2>2. w.j = None /\ w.todo = {} /\ Listed(j)
    BY <2>1 DEF LoopOK, Listing, Collected, Kept
  <2>3. Covers(w.projects[j].presets, Places(w.projects[j], {}))
    BY <2>1, <2>2 DEF PresetsOK
  <2>4. w'.j # j  BY <2>1, <2>2, NumbersAssumption DEF LoopOver
  <2>5. /\ w'.projects[j].type = w.projects[j].type
        /\ w'.projects[j].namespaces = w.projects[j].namespaces
        /\ w'.projects[j].presets = w.projects[j].presets
    BY <2>1, <2>2 DEF Kept
  <2> QED  BY <1>0, <2>3, <2>4, <2>5 DEF Covers, Places
<1>4. CASE GetSeed \/ ListMembers \/ GetMonitor \/ WriteMonitor
  BY <1>4, WritingDoes DEF Continues, Collected
<1> QED  BY <1>1, <1>2, <1>3, <1>4, CallCases

---------------------------------------------------------------------------
(* Monitoring.                                                             *)

(* What is known of a project's monitoring stays true while the cluster    *)
(* changes.                                                                *)
LEMMA MonitoringCluster ==
    ASSUME Types, StageOK, MonitoringOK, Remembered
    PROVE  MonitoringOK'
<1>1. w' = w /\ rancher' = rancher /\ mistaken' = mistaken /\ touched.ns \subseteq touched'.ns
      /\ touched.proms \subseteq touched'.proms
  BY DEF Remembered
<1>2. ASSUME w.pc \in Looked, NEW j \in Projects, Listed(j) PROVE MonitorOK(j)'
  <2>1. ~ Unread  BY <1>2 DEF Unread, Looked
  <2>2. \A p \in Proms \ touched'.proms : p \in up' <=> p \in up  BY <2>1 DEF Remembered
  <2>3. MonitorOK(j)  BY <1>2 DEF MonitoringOK
  <2>4. Own(j)' = Own(j)  BY <1>1 DEF Own, PromProject
  <2>5. Own(j) \subseteq Proms  BY DEF Own
  <2> HIDE DEF Own
  <2> QED  BY <1>1, <2>2, <2>3, <2>4, <2>5 DEF MonitorOK
<1>3. SystemNs \notin touched'.ns /\ w'.sys # None => w'.sys = ns'[SystemNs].project
  <2> SUFFICES ASSUME SystemNs \notin touched'.ns, w.sys # None
               PROVE  w.sys = ns'[SystemNs].project
    BY <1>1
  <2>1. ~ Unread  BY DEF StageOK
  <2>2. ns'[SystemNs] = ns[SystemNs]  BY <2>1, NamesAssumption DEF Remembered, NsKept
  <2> QED  BY <1>1, <2>2 DEF MonitoringOK
<1> QED  BY <1>1, <1>2, <1>3 DEF MonitoringOK, Listed, Known

(* A stack that is entered is that of the last Prometheus of its project.   *)
LEMMA StackHolds ==
    ASSUME Types, w.proms # {}, PromsOf \in Projects,
           \A k \in Projects : Listed(k) => MonitorOK(k),
           Listed(PromsOf),
           NEW m \in Monitoring, m.prom = Prom, m.am = PromNs[Prom], m.urls \in {None, Prom},
           PromsOf = w.sys => m.urls = Prom,
           NEW seen, seen \subseteq {Prom},
           rancher' = rancher, mistaken' = mistaken, touched' = touched, up' = up,
           w'.sys = w.sys, w'.proms = w.proms \ seen, w'.projects[PromsOf].mon = m,
           \A k \in Projects \ {PromsOf} : w'.projects[k] = w.projects[k]
    PROVE  \A k \in Projects : Listed(k)' => MonitorOK(k)'
<1> DEFINE p0 == Prom
           j0 == PromsOf
<1> SUFFICES ASSUME NEW k \in Projects, Listed(k)' PROVE MonitorOK(k)'  OBVIOUS
<1>1. p0 \in w.proms /\ p0 \in Proms /\ \A q \in w.proms : p0 <= q
  BY FirstProm DEF Prom
<1>2. \A j \in Projects : Own(j)' = Own(j)  BY DEF Own, PromProject
<1>3. p0 \in Own(j0) /\ \A j \in Projects : p0 \in Own(j) => j = j0
  BY <1>1 DEF Own, PromsOf, Prom
<1>4. Own(k) \subseteq Proms /\ w.proms \subseteq Proms /\ Proms \subseteq Nat
  BY NumbersAssumption DEF Own, Types, Locals
<1>5. m # None /\ \A j \in Projects : Listed(j) => w.projects[j] \in Project
  BY NoneAssumption DEF Listed, Types, Locals
<1> HIDE DEF Own, p0, j0
<1>6. CASE k = j0
  <2>1. MonitorOK(k)  BY <1>6 DEF j0
  <2>2. /\ m.prom \in Own(k)' /\ m.am = PromNs[m.prom] /\ m.urls \in {None, m.prom}
        /\ \A q \in w'.proms : m.prom <= q
        /\ k = w'.sys => m.urls = m.prom
    BY <1>1, <1>2, <1>3, <1>6 DEF p0, j0
  <2>3. ASSUME rancher, ~ mistaken, NEW p \in Own(k) \cap (up \ touched.proms)
        PROVE  p \in w.proms \ seen \/ m.prom >= p
    <3> DEFINE old == w.projects[k].mon
    <3>1. p \in w.proms \/ (old # None /\ old.prom >= p /\ \A q \in w.proms : old.prom <= q
                              /\ old.prom \in Own(k))
      BY <2>1, <2>3 DEF MonitorOK
    <3>2. CASE p \in w.proms
      <4>1. p = p0 \/ p \in w.proms \ seen  BY <3>2 DEF p0
      <4> QED  BY <1>1, <1>4, <4>1 DEF p0
    <3>3. CASE old # None /\ old.prom >= p /\ (\A q \in w.proms : old.prom <= q)
               /\ old.prom \in Own(k)
      <4> HIDE DEF old
      <4>1. old.prom \in Nat /\ p \in Nat /\ p0 \in Nat /\ old.prom <= p0
        BY <1>1, <1>4, <2>3, <3>3
      <4>2. p0 >= p  BY <3>3, <4>1
      <4> QED  BY <4>2 DEF p0
    <3> QED  BY <3>1, <3>2, <3>3
  <2> QED  BY <1>2, <1>5, <1>6, <2>2, <2>3 DEF MonitorOK, j0
<1>7. CASE k # j0
  <2>1. w'.projects[k] = w.projects[k]  BY <1>7 DEF j0
  <2>2. MonitorOK(k)  BY <2>1 DEF Listed
  <2>3. \A p \in Own(k) : p \in w.proms => p \in w.proms \ seen
    BY <1>3, <1>7 DEF p0
  <2> QED  BY <1>2, <1>4, <2>1, <2>2, <2>3 DEF MonitorOK
<1> QED  BY <1>6, <1>7

(* No project has monitoring before the Prometheuses are listed.           *)
LEMMA UnmonitoredCall ==
    ASSUME Known0, CallStep, Continues, ListNamespaces \/ \E j \in Projects : Visit(j)
    PROVE  MonitoringOK'
<1> USE DEF Known0
<1>0. /\ ns' = ns /\ touched' = touched  BY CallFrame
<1>1. w'.sys = w.sys /\ w'.pc \in {"projects", "rancher"}
  BY ListNamespacesDoes, VisitDoes
<1>2. \A j \in Projects : Listed(j)' => w'.projects[j].mon = None
  <2> SUFFICES ASSUME NEW j \in Projects, Listed(j)' PROVE w'.projects[j].mon = None
    OBVIOUS
  <2>1. CASE ListNamespaces
    <3>1. w'.projects[j] = ProjectOf(Members(j))
      BY <2>1, ListNamespacesDoes DEF Listed
    <3> QED  BY <3>1 DEF ProjectOf
  <2>2. ASSUME NEW k \in Projects, Visit(k) PROVE w'.projects[j].mon = None
    <3>1. /\ w.pc = "projects" /\ w.projects[k] \in Project /\ Listed(k)
          /\ \A i \in Projects \ {k} : w'.projects[i] = w.projects[i]
          /\ \/ w'.projects = w.projects
             \/ w'.projects[k] = IF HasUserNs(w.projects[k])
                                 THEN [w.projects[k] EXCEPT !.presets = Found(k)] ELSE None
      BY <2>2, VisitDoes
    <3>2. \A i \in Projects : Listed(i) => w.projects[i].mon = None
      BY <3>1 DEF MonitoringOK, Collected, Looked
    <3>3. CASE w'.projects[j] = w.projects[j]  BY <3>2, <3>3 DEF Listed
    <3>4. CASE j = k /\ w'.projects[k] = IF HasUserNs(w.projects[k])
                                   THEN [w.projects[k] EXCEPT !.presets = Found(k)] ELSE None
      <4>1. w'.projects[j] = [w.projects[k] EXCEPT !.presets = Found(k)]
        BY <3>4 DEF Listed
      <4> QED  BY <3>1, <3>2, <3>4, <4>1 DEF Project
    <3> QED  BY <3>1, <3>3, <3>4
  <2> QED  BY <2>1, <2>2
<1> QED  BY <1>0, <1>1, <1>2 DEF MonitoringOK, Collected, Looked

(* The requests between the two loops.                                     *)
LEMMA BetweenCall ==
    ASSUME Known0, CallStep, AskRancher \/ GetSystemProject \/ ListProms
    PROVE  MonitoringOK'
<1> USE DEF Known0
<1>0. /\ ns' = ns /\ touched' = touched /\ rancher' = rancher /\ up' = up  BY CallFrame
<1>1. CASE AskRancher
  <2>1. /\ w.pc \in {"rancher", "managed"} /\ w'.projects = w.projects /\ w'.sys = w.sys
        /\ w'.pc \in {"system", "done", "seed", "get"}
        /\ w'.pc = "done" => ~ (rancher /\ ~ mistaken')
        /\ w.pc = "managed" => w'.pc \in {"seed", "get"}
    BY <1>1, AskRancherDoes DEF GoesTo
  <2>2. w.pc = "rancher" => \A j \in Projects : Listed(j) => w.projects[j].mon = None
    BY DEF MonitoringOK, Collected, Looked
  <2>3. w'.pc = "done" => \A j \in Projects : Listed(j)' => MonitorOK(j)'
    BY <1>0, <2>1, <2>2 DEF MonitorOK, Listed
  <2>4. SystemNs \notin touched'.ns /\ w'.sys # None => w'.sys = ns'[SystemNs].project
    BY <1>0, <2>1 DEF MonitoringOK
  <2> QED  BY <1>0, <2>1, <2>2, <2>3, <2>4 DEF MonitoringOK, Listed, Collected, Looked
<1>2. CASE GetSystemProject
  <2>1. /\ w.pc = "system" /\ w'.pc = "listproms" /\ w'.projects = w.projects
        /\ w'.sys = ns[SystemNs].project
    BY <1>2, GetSystemProjectDoes
  <2>2. \A j \in Projects : Listed(j) => w.projects[j].mon = None
    BY <2>1 DEF MonitoringOK, Collected, Looked
  <2> QED  BY <1>0, <2>1, <2>2 DEF MonitoringOK, Listed, Collected, Looked
<1>3. CASE ListProms
  <2>1. /\ w.pc = "listproms" /\ w'.projects = w.projects /\ w'.sys = w.sys
        /\ w'.proms = up /\ w'.pc = IF w'.proms = {} THEN "done" ELSE "proms"
    BY <1>3, ListPromsDoes
  <2>2. \A j \in Projects : Listed(j) => w.projects[j].mon = None
    BY <2>1 DEF MonitoringOK, Collected, Looked
  <2>3. \A j \in Projects : Listed(j)' => MonitorOK(j)'
    BY <1>0, <2>1, <2>2 DEF MonitorOK, Listed
  <2>4. SystemNs \notin touched'.ns /\ w'.sys # None => w'.sys = ns'[SystemNs].project
    BY <1>0, <2>1 DEF MonitoringOK
  <2> QED  BY <2>1, <2>3, <2>4 DEF MonitoringOK, Looked
<1> QED  BY <1>1, <1>2, <1>3

(* The loop over Prometheuses.                                             *)
LEMMA PromsCall ==
    ASSUME Known0, CallStep, Continues,
           SkipProm \/ ListAlertmanagers \/ \E found \in BOOLEAN : GetUrls(found)
    PROVE  MonitoringOK'
<1> USE DEF Known0
<1>0. /\ ns' = ns /\ touched' = touched /\ rancher' = rancher /\ up' = up
      /\ mistaken' = mistaken
  <2>1. w.pc \notin {"rancher", "managed"}
    BY DEF SkipProm, ListAlertmanagers, GetUrls, Is
  <2> QED  BY <2>1, CallFrame
<1>1. w.pc \in {"proms", "urls"} /\ w.proms # {}
      /\ \A k \in Projects : Listed(k) => MonitorOK(k)
  BY DEF SkipProm, ListAlertmanagers, GetUrls, Is, MonitoringOK, Looked
<1>2. SystemNs \notin touched.ns /\ w.sys # None => w.sys = ns[SystemNs].project
  BY DEF MonitoringOK
<1>3. CASE SkipProm
  <2>1. /\ \A j \in Projects : Listed(j) => PromsOf # j
        /\ w'.pc = IF w'.proms = {} THEN "done" ELSE "proms"
        /\ w'.proms = w.proms \ {Prom} /\ w'.projects = w.projects /\ w'.sys = w.sys
    BY <1>3, SkipPromDoes
  <2>2. ASSUME NEW j \in Projects, Listed(j)' PROVE MonitorOK(j)'
    <3>1. Listed(j) /\ MonitorOK(j)  BY <1>1, <2>1, <2>2 DEF Listed
    <3>2. Prom \notin Own(j)  BY <2>1, <3>1 DEF Own, PromsOf
    <3>3. Own(j)' = Own(j)  BY <2>1 DEF Own, PromProject
    <3> HIDE DEF Own, Prom
    <3> QED  BY <1>0, <2>1, <3>1, <3>2, <3>3 DEF MonitorOK
  <2> QED  BY <1>0, <1>2, <2>1, <2>2 DEF MonitoringOK, Looked
<1>4. ASSUME PromsOf \in Projects, Listed(PromsOf), NEW m \in Monitoring,
             m.prom = Prom, m.am = PromNs[Prom], m.urls \in {None, Prom},
             PromsOf = w.sys => m.urls = Prom,
             w' = NextProm(Monitored(PromsOf, m, {Prom}))
      PROVE  MonitoringOK'
  <2>1. /\ w'.sys = w.sys /\ w'.proms = w.proms \ {Prom} /\ w'.projects[PromsOf].mon = m
        /\ \A k \in Projects \ {PromsOf} : w'.projects[k] = w.projects[k]
        /\ w'.pc = IF w'.proms = {} THEN "done" ELSE "proms"
    BY <1>4, StackEntered
  <2>2. \A k \in Projects : Listed(k)' => MonitorOK(k)'
    <3>1. {Prom} \subseteq {Prom}  OBVIOUS
    <3> QED  BY <1>0, <1>1, <1>4, <2>1, <3>1, StackHolds
  <2> QED  BY <1>0, <1>2, <2>1, <2>2 DEF MonitoringOK, Looked
<1>5. ASSUME PromsOf \in Projects, Listed(PromsOf), PromsOf # w.sys, Stack(None) \in Monitoring,
             w' = [Monitored(PromsOf, Stack(None), {}) EXCEPT !.pc = "urls"]
      PROVE  MonitoringOK'
  <2>1. /\ w'.sys = w.sys /\ w'.proms = w.proms \ {} /\ w'.pc = "urls"
        /\ w'.projects[PromsOf].mon = Stack(None) /\ w'.projects[PromsOf] \in Project
        /\ \A k \in Projects \ {PromsOf} : w'.projects[k] = w.projects[k]
    BY <1>5, StackEntered
  <2>2. Stack(None).prom = Prom /\ Stack(None).am = PromNs[Prom] /\ Stack(None).urls = None
        /\ Stack(None) # None
    BY <1>5, NoneAssumption DEF Stack
  <2>3. \A k \in Projects : Listed(k)' => MonitorOK(k)'
    <3> DEFINE m == Stack(None)
               seen == {}
    <3>1. /\ m \in Monitoring /\ m.prom = Prom /\ m.am = PromNs[Prom] /\ m.urls \in {None, Prom}
          /\ seen \subseteq {Prom} /\ w'.proms = w.proms \ seen /\ w'.projects[PromsOf].mon = m
      BY <1>5, <2>1, <2>2
    <3> HIDE DEF m, seen
    <3> QED  BY <1>0, <1>1, <1>5, <2>1, <3>1, StackHolds
  <2>4. Prom' = Prom /\ PromsOf' = PromsOf /\ w'.proms # {}
    BY <1>1, <2>1 DEF Prom, PromsOf, PromProject
  <2>5. Known(PromsOf)' /\ PromsOf # w'.sys /\ w'.projects[PromsOf].mon # None
        /\ w'.projects[PromsOf].mon.prom = Prom
    BY <1>5, <2>1, <2>2, <2>4, NoneAssumption, NumbersAssumption DEF Known
  <2> HIDE DEF Prom, PromsOf
  <2>6. /\ Known(PromsOf)' /\ PromsOf' # w'.sys
        /\ w'.projects[PromsOf'].mon # None /\ w'.projects[PromsOf'].mon.prom = Prom'
    BY <2>4, <2>5
  <2> QED  BY <1>0, <1>2, <2>1, <2>3, <2>4, <2>6 DEF MonitoringOK, Looked, Prom, PromsOf
<1>6. CASE ListAlertmanagers
  <2>1. /\ PromsOf \in Projects /\ Listed(PromsOf)
        /\ \/ PromsOf = w.sys /\ w' = NextProm(Monitored(PromsOf, Stack(Prom), {Prom}))
           \/ /\ PromsOf # w.sys
              /\ w' = [Monitored(PromsOf, Stack(None), {}) EXCEPT !.pc = "urls"]
        /\ Stack(Prom) \in Monitoring /\ Stack(None) \in Monitoring
    BY <1>6, ListAlertmanagersDoes DEF Continues
  <2>2. Stack(Prom).prom = Prom /\ Stack(Prom).am = PromNs[Prom] /\ Stack(Prom).urls = Prom
    BY DEF Stack
  <2>3. CASE PromsOf = w.sys /\ w' = NextProm(Monitored(PromsOf, Stack(Prom), {Prom}))
    BY <1>4, <2>1, <2>2, <2>3
  <2>4. CASE PromsOf # w.sys
    BY <1>5, <2>1, <2>4
  <2> QED  BY <2>1, <2>3, <2>4
<1>7. CASE \E found \in BOOLEAN : GetUrls(found)
  <2>1. PICK found \in BOOLEAN : GetUrls(found)  BY <1>7
  <2>2. /\ PromsOf \in Projects /\ Listed(PromsOf) /\ PromsOf # w.sys
        /\ \E u \in {Prom, None}, m \in Monitoring :
              /\ m.prom = Prom /\ m.am = PromNs[Prom] /\ m.urls = u
              /\ w' = NextProm(Monitored(PromsOf, m, {Prom}))
    BY <2>1, GetUrlsDoes
  <2>3. PICK u \in {Prom, None}, m \in Monitoring :
              /\ m.prom = Prom /\ m.am = PromNs[Prom] /\ m.urls = u
              /\ w' = NextProm(Monitored(PromsOf, m, {Prom}))
    BY <2>2
  <2> QED  BY <1>4, <2>2, <2>3
<1> QED  BY <1>3, <1>6, <1>7

---------------------------------------------------------------------------
(* The ServiceMonitor.                                                     *)

MonitorRuleOK == SeedOK /\ KeepOK /\ GotOK /\ CreatedOK

(* The namespaces kept are those of the project, while the cluster changes. *)
LEMMA RuleCluster ==
    ASSUME Types, StageOK, MonitorRuleOK, Remembered
    PROVE  MonitorRuleOK'
<1>1. w' = w /\ touched.ns \subseteq touched'.ns /\ touched.monitor \subseteq touched'.monitor
      /\ w.pc # "created"
  BY DEF Remembered, Ended
<1>2. CASE w.pc \in Asked
  <2>1. ~ Unread /\ w.prom \in Proms  BY <1>2 DEF Unread, Asked, StageOK, Writing
  <2>2. \A j : Members(j)' \ touched'.ns = Members(j) \ touched'.ns
    BY <2>1, SettledStays
  <2>3. \A n \in Namespaces \ touched'.ns : ns'[n] = ns[n]  BY <2>1 DEF Remembered, NsKept
  <2>4. touched'.monitor = {} => monitor' = monitor  BY <2>1 DEF Remembered
  <2>5. PromNs[w.prom] \in Namespaces  BY <2>1, PromsAssumption
  <2>6. SeedOK'
    BY <1>1, <1>2, <2>3, <2>5 DEF MonitorRuleOK, SeedOK, Members, Existing, Exists
  <2>7. KeepOK'
    <3> SUFFICES ASSUME w.pc \in {"get", "write"}, w.j # None
                 PROVE  w.keep \ touched'.ns = Members(w.j)' \ touched'.ns
      BY <1>1 DEF KeepOK
    <3>1. w.keep \ touched.ns = Members(w.j) \ touched.ns  BY DEF MonitorRuleOK, KeepOK
    <3>2. \A n : n \in Members(w.j)' \ touched'.ns <=> n \in Members(w.j) \ touched'.ns
      BY <1>1, <2>3 DEF Members, Existing, Exists
    <3> QED  BY <1>1, <3>1, <3>2
  <2>8. GotOK' /\ CreatedOK'
    BY <1>1, <2>4 DEF MonitorRuleOK, GotOK, CreatedOK
  <2> QED  BY <2>6, <2>7, <2>8 DEF MonitorRuleOK
<1>3. CASE w.pc \notin Asked
  BY <1>1, <1>3 DEF MonitorRuleOK, SeedOK, KeepOK, GotOK, CreatedOK, Asked
<1> QED  BY <1>2, <1>3

(* The rule is put together from what is there, and sent.                  *)
LEMMA RuleCall ==
    ASSUME Known0, MonitorRuleOK, CallStep, Continues
    PROVE  MonitorRuleOK'
<1> USE DEF Known0
<1>0. ns' = ns /\ touched' = touched  BY CallFrame
<1>a. \A j : Members(j)' = Members(j)  BY <1>0 DEF Members, Existing, Exists
<1>1. CASE w'.pc \notin Asked
  BY <1>1 DEF MonitorRuleOK, SeedOK, KeepOK, GotOK, CreatedOK, Asked
<1>2. CASE AskRancher
  <2>1. CASE w.pc # "managed"
    BY <1>1, <1>2, <2>1, AskRancherDoes DEF GoesTo, Asked
  <2>2. CASE w.pc = "managed"
    <3>1. w'.j = w.j /\ w'.pc \in {"seed", "get"}
      BY <1>2, <2>2, AskRancherDoes DEF GoesTo
    <3>2. w.j = None  BY <2>2 DEF StageOK
    <3> QED  BY <3>1, <3>2 DEF MonitorRuleOK, SeedOK, KeepOK, GotOK, CreatedOK
  <2> QED  BY <2>1, <2>2
<1>3. CASE GetSeed \/ ListMembers \/ GetMonitor \/ WriteMonitor
  <2>1. w'.prom = w.prom
    BY <1>3, WritingDoes DEF Continues
  <2>2. CASE w.pc = "seed"
    <3>1. /\ Exists(PromNs[w.prom]) /\ w'.j = ns[PromNs[w.prom]].project
          /\ w'.pc = IF w'.j = None THEN "get" ELSE "members"
      BY <1>3, <2>2, WritingDoes DEF Continues
    <3>2. PromNs[w.prom] \in Namespaces
      BY <2>2, PromsAssumption DEF StageOK, Writing
    <3>3. PromNs[w.prom] \in Members(w'.j)  BY <3>1, <3>2 DEF Members, Existing
    <3>4. Members(w.j)' = Members(w'.j)  BY <1>0 DEF Members, Existing, Exists
    <3>5. SeedOK'  BY <1>0, <2>1, <3>3, <3>4 DEF SeedOK
    <3> QED  BY <3>1, <3>5 DEF MonitorRuleOK, KeepOK, GotOK, CreatedOK
  <2>3. CASE w.pc # "seed"
    <3>1. /\ w'.j = w.j
          /\ \/ w.pc = "members" /\ w'.pc = "get" /\ w'.keep = Members(w.j)
             \/ w.pc = "get" /\ w'.pc = "write" /\ w'.keep = w.keep /\ w'.got = monitor
             \/ w.pc = "write" /\ w'.pc = "created" /\ w'.keep = w.keep /\ w'.got = w.got
                  /\ monitor' = Rule
      BY <1>3, <2>3, WritingDoes DEF Continues
    <3>2. Members(w.j)' = Members(w.j)  BY <1>0, <3>1 DEF Members, Existing, Exists
    <3>3. w.pc \in Asked  BY <3>1 DEF Asked
    <3>4. SeedOK'  BY <1>0, <2>1, <3>1, <3>2, <3>3 DEF MonitorRuleOK, SeedOK
    <3>5. KeepOK'  BY <1>0, <3>1, <3>2 DEF MonitorRuleOK, KeepOK
    <3>6. GotOK'
      <4>1. w'.pc = "write" => monitor' = monitor  BY <3>1, CallFrame
      <4> QED  BY <3>1, <4>1 DEF GotOK
    <3>7. CreatedOK'  BY <1>0, <3>1 DEF MonitorRuleOK, GotOK, CreatedOK, Rule
    <3> QED  BY <3>4, <3>5, <3>6, <3>7 DEF MonitorRuleOK
  <2> QED  BY <2>2, <2>3
<1>4. CASE ListNamespaces \/ (\E j \in Projects : Visit(j)) \/ GetSystemProject \/ ListProms
             \/ SkipProm \/ ListAlertmanagers \/ \E found \in BOOLEAN : GetUrls(found)
  <2>1. w'.pc \notin Asked
    <3>1. CASE ListNamespaces  BY <3>1, ListNamespacesDoes DEF Asked
    <3>2. CASE \E j \in Projects : Visit(j)  BY <3>2, VisitDoes DEF Asked
    <3>3. CASE GetSystemProject \/ ListProms \/ SkipProm \/ ListAlertmanagers
                 \/ \E found \in BOOLEAN : GetUrls(found)
      <4>1. w.pc # "managed"
        BY <3>3 DEF GetSystemProject, ListProms, SkipProm, ListAlertmanagers, GetUrls, Is
      <4> QED  BY <3>3, <4>1, LaterSteps DEF Asked
    <3> QED  BY <1>4, <3>1, <3>2, <3>3
  <2> QED  BY <1>1, <2>1
<1> QED  BY <1>2, <1>3, <1>4, CallCases

---------------------------------------------------------------------------
(* The invariant.                                                          *)

(* Every step keeps the invariant.                                         *)
LEMMA StepHolds ==
    ASSUME IInv, Next
    PROVE  IInv'
<1> USE DEF IInv
<1>1. CASE ClusterStep
  <2>1. Types' /\ Ages' /\ Remembered  BY <1>1, ClusterType
  <2>2. Standing'  BY <1>1, StandingStep
  <2>3. StageOK' /\ LoopOK'
    BY <2>1 DEF Remembered, StageOK, LoopOK, Unread
  <2>4. ProjectsOK' /\ PresetsOK' /\ MonitoringOK'
    BY <2>1, ProjectsCluster, PresetsCluster, MonitoringCluster
  <2>5. MonitorRuleOK'  BY <2>1, RuleCluster DEF MonitorRuleOK
  <2> QED  BY <2>1, <2>2, <2>3, <2>4, <2>5 DEF MonitorRuleOK
<1>2. CASE CallStep /\ ~ Continues
  BY <1>2, EndHolds DEF Continues
<1>3. CASE CallStep /\ Continues
  <2>1. Known0  BY DEF Known0
  <2>2. Types' /\ Ages' /\ Standing' /\ StageOK' /\ LoopOK'
    BY <1>3, <2>1, TypesStep, StandingStep, StageStep
  <2>3. ProjectsOK' /\ PresetsOK'
    BY <1>3, <2>1, ProjectsCall, PresetsCall
  <2>4. MonitoringOK'
    <3>1. CASE ListNamespaces \/ \E j \in Projects : Visit(j)
      BY <1>3, <2>1, <3>1, UnmonitoredCall
    <3>2. CASE AskRancher \/ GetSystemProject \/ ListProms
      BY <1>3, <2>1, <3>2, BetweenCall
    <3>3. CASE SkipProm \/ ListAlertmanagers \/ \E found \in BOOLEAN : GetUrls(found)
      BY <1>3, <2>1, <3>3, PromsCall
    <3>4. CASE GetSeed \/ ListMembers \/ GetMonitor \/ WriteMonitor
      <4>1. w'.pc \notin Collected /\ w'.sys = w.sys /\ ns' = ns /\ touched' = touched
        BY <1>3, <2>1, <3>4, WritingDoes, CallFrame DEF Continues, Collected
      <4> QED  BY <4>1 DEF MonitoringOK, Collected, Looked
    <3> QED  BY <1>3, <3>1, <3>2, <3>3, <3>4, CallCases
  <2>5. MonitorRuleOK'  BY <1>3, <2>1, RuleCall DEF MonitorRuleOK
  <2> QED  BY <2>2, <2>3, <2>4, <2>5 DEF MonitorRuleOK
<1> QED  BY <1>1, <1>2, <1>3, Steps

(* The invariant holds in every reachable state.                           *)
LEMMA Inductive == Spec => []IInv
<1>1. Init => IInv  BY InitHolds
<1>2. IInv /\ [Next]_vars => IInv'
  <2>1. ASSUME IInv, UNCHANGED vars PROVE IInv'
    <3>1. /\ ns' = ns /\ presets' = presets /\ up' = up /\ ams' = ams /\ rancher' = rancher
          /\ monitor' = monitor /\ w' = w /\ touched' = touched /\ mistaken' = mistaken
          /\ spent' = spent
      BY <2>1 DEF vars, cluster
    <3>2. Types' /\ Ages' /\ Standing' /\ StageOK' /\ LoopOK'
      BY <2>1, <3>1 DEF IInv, Types, Ages, Standing, StageOK, LoopOK, Existing, Exists, Unread
    <3>3. ProjectsOK'
      BY <2>1, <3>1 DEF IInv, ProjectsOK, ProjectOK, Listed, Members, Existing, Exists
    <3>4. PresetsOK'
      BY <2>1, <3>1 DEF IInv, PresetsOK, Covers, Places, Listed
    <3>5. MonitoringOK'
      BY <2>1, <3>1 DEF IInv, MonitoringOK, MonitorOK, Own, PromProject, Known, Listed
    <3>6. SeedOK' /\ KeepOK' /\ GotOK' /\ CreatedOK'
      BY <2>1, <3>1 DEF IInv, SeedOK, KeepOK, GotOK, CreatedOK, Members, Existing, Exists
    <3> QED  BY <3>2, <3>3, <3>4, <3>5, <3>6 DEF IInv
  <2> QED  BY <2>1, StepHolds
<1> QED  BY <1>1, <1>2, PTL DEF Spec

---------------------------------------------------------------------------
(* The theorems.                                                           *)

(* In every reachable state the cluster and the locals of the call have     *)
(* their types, and the loop over projects is at one of those it has to do  *)
(* (main.go 694-881).                                                       *)
THEOREM TypeCorrect == Spec => []TypeOK
<1>1. IInv => TypeOK
  <2> SUFFICES ASSUME IInv PROVE TypeOK  OBVIOUS
  <2>1. Types /\ StageOK /\ LoopOK  BY DEF IInv
  <2>2. w.prom = None /\ w.j # None =>
          w.j \in w.todo /\ w.left # {} /\ w.left \subseteq w.projects[w.j].namespaces
    <3> SUFFICES ASSUME w.prom = None, w.j # None
                 PROVE  w.j \in w.todo /\ w.left # {}
                        /\ w.left \subseteq w.projects[w.j].namespaces
      OBVIOUS
    <3>1. None \notin Proms  BY NumbersAssumption
    <3>2. w.pc \notin Writing  BY <2>1, <3>1 DEF StageOK
    <3>3. w.pc \in Listing \cup {"failed", "died"}
      BY <2>1, <3>2 DEF Types, Locals, Stages
    <3>4. w.pc \in Listing  BY <2>1, <3>3 DEF StageOK
    <3> QED  BY <2>1, <3>4 DEF LoopOK
  <2> QED  BY <2>1, <2>2 DEF TypeOK, Types, Locals
<1> QED  BY <1>1, Inductive, PTL

(* Whatever changes during the call, a project is in the result if and only *)
(* if it has a namespace that is not Rancher's own, and it has the          *)
(* namespaces, the type and the age they give it (main.go 695-746).        *)
THEOREM ProjectsAreRight == Spec => []ProjectsRight
<1>1. IInv => ProjectsRight
  <2> SUFFICES ASSUME IInv, w.pc = "done", NEW j \in Projects
               PROVE  /\ (Members(j) \ touched.ns) \ Operated # {} => Listed(j)
                      /\ Listed(j) =>
                           /\ w.projects[j].namespaces \ touched.ns = Members(j) \ touched.ns
                           /\ w.projects[j].namespaces \ Operated # {}
                           /\ \A n \in Members(j) \ touched.ns :
                                 w.projects[j].created <= ns[n].born
                           /\ w.projects[j].type = "System"
                                 <=> SystemNs \in w.projects[j].namespaces
                           /\ w.projects[j].type = "Default"
                                 => DefaultNs \in w.projects[j].namespaces
    BY DEF ProjectsRight, Done, Is
  <2>1. ProjectOK(j)  BY DEF IInv, ProjectsOK, Collected
  <2>2. w.todo = {}  BY DEF IInv, LoopOK, Listing, Collected
  <2> QED  BY <2>1, <2>2 DEF ProjectOK
<1> QED  BY <1>1, Inductive, PTL

(* The presets of a project in the result are those of its namespaces, or   *)
(* the cluster's for the system project: none is missing, and none is there *)
(* of another project's namespaces (main.go 748-801).                      *)
THEOREM PresetsAreRight == Spec => []PresetsRight
<1>1. IInv => PresetsRight
  <2> SUFFICES ASSUME IInv, w.pc = "done", NEW j \in Projects, Listed(j)
               PROVE  Covers(w.projects[j].presets, Places(w.projects[j], {}))
    BY DEF PresetsRight, Done, Is, Covers, Places
  <2>1. w.todo = {}  BY DEF IInv, LoopOK, Listing, Collected
  <2> QED  BY <2>1 DEF IInv, PresetsOK, Collected
<1> QED  BY <1>1, Inductive, PTL

(* The monitoring of a project is that of one of its own Prometheuses, with *)
(* the Alertmanager beside it and no other's URLs, and of the last of those *)
(* that were there throughout, or a later one (main.go 803-881).           *)
THEOREM MonitoringIsRight == Spec => []MonitoringRight
<1>1. IInv => MonitoringRight
  <2> SUFFICES ASSUME IInv, w.pc = "done", NEW j \in Projects, Listed(j)
               PROVE  LET m   == w.projects[j].mon
                          own == {p \in Proms : PromProject(p, w.sys) = j}
                      IN /\ m # None => /\ m.prom \in own /\ m.am = PromNs[m.prom]
                                        /\ m.urls \in {None, m.prom}
                                        /\ j = w.sys => m.urls = m.prom
                         /\ rancher /\ ~ mistaken =>
                               \A p \in own \cap (up \ touched.proms) :
                                   m # None /\ m.prom >= p
                         /\ SystemNs \notin touched.ns /\ w.sys # None
                               => w.sys = ns[SystemNs].project
    BY DEF MonitoringRight, Done, Is
  <2>1. MonitorOK(j)  BY DEF IInv, MonitoringOK, Looked
  <2>2. rancher /\ ~ mistaken => w.proms = {}  BY DEF IInv, MonitoringOK
  <2>3. SystemNs \notin touched.ns /\ w.sys # None => w.sys = ns[SystemNs].project
    BY DEF IInv, MonitoringOK
  <2> QED  BY <2>1, <2>2, <2>3 DEF MonitorOK, Own
<1> QED  BY <1>1, Inductive, PTL

(* The rule of a ServiceMonitor that was written keeps the namespaces of    *)
(* its Prometheus's project and no other (panopticon/lib.go).              *)
THEOREM MetricsAreOwn == Spec => []OwnMetricsOnly
<1>1. IInv => OwnMetricsOnly
  <2> SUFFICES ASSUME IInv, w.pc = "created", w.j # None,
                      w.got = w.keep => touched.monitor = {}
               PROVE  /\ monitor \ touched.ns = Members(w.j) \ touched.ns
                      /\ PromNs[w.prom] \notin touched.ns => PromNs[w.prom] \in monitor
    BY DEF OwnMetricsOnly, Is
  <2>1. monitor = w.keep  BY DEF IInv, CreatedOK
  <2>2. w.keep \ touched.ns = Members(w.j) \ touched.ns  BY DEF IInv, KeepOK
  <2>3. PromNs[w.prom] \notin touched.ns => PromNs[w.prom] \in Members(w.j)
    BY DEF IInv, SeedOK, Asked
  <2> QED  BY <2>1, <2>2, <2>3
<1> QED  BY <1>1, Inductive, PTL

(* A project that was dropped from the map is not brought back (main.go    *)
(* 748-801).                                                               *)
THEOREM DroppedProjectsStay == Spec => DroppedStays
<1> DEFINE Stays == \A j \in Projects :
                      ~ Is("namespaces") /\ w.projects[j] = None => w'.projects[j] = None
<1>1. IInv /\ [Next]_vars => [Stays]_vars
  <2> SUFFICES ASSUME IInv, Next, NEW j \in Projects, w.pc # "namespaces",
                      w.projects[j] = None
               PROVE  w'.projects[j] = None
    BY DEF Is
  <2> USE DEF IInv
  <2>1. CASE ClusterStep
    <3>1. w' = w  BY <2>1, ClusterType DEF Remembered
    <3> QED  BY <3>1
  <2>2. CASE CallStep /\ ~ Continues
    <3>1. w'.projects = NoProjects  BY <2>2, OverType DEF Continues, Stages
    <3> QED  BY <3>1 DEF NoProjects
  <2>3. CASE CallStep /\ Continues
    <3>1. Known0  BY DEF Known0
    <3>2. CASE \E k \in Projects : Visit(k)
      BY <3>1, <3>2, VisitDoes DEF Listed
    <3>3. CASE AskRancher \/ GetSystemProject \/ ListProms \/ SkipProm \/ ListAlertmanagers
                 \/ \E found \in BOOLEAN : GetUrls(found)
      <4>1. Kept(j)  BY <2>3, <3>1, <3>3, LaterSteps
      <4> QED  BY <4>1 DEF Kept, Listed
    <3>4. CASE GetSeed \/ ListMembers \/ GetMonitor \/ WriteMonitor
      BY <2>3, <3>4, WritingDoes DEF Continues
    <3>5. ~ ListNamespaces  BY DEF ListNamespaces, Is
    <3> QED  BY <2>3, <3>2, <3>3, <3>4, <3>5, CallCases
  <2> QED  BY <2>1, <2>2, <2>3, Steps
<1> QED  BY <1>1, Inductive, PTL DEF Spec, DroppedStays

\* FirstOf, where recs are the namespaces.
EldestOf(recs, nss) ==
    LET oldest == Min({recs[n].born : n \in nss}) IN Min({n \in nss : recs[n].born = oldest})

(* The first of a set of namespaces is one of the oldest.                  *)
LEMMA FirstIsOldest ==
    ASSUME NEW recs, NEW nss, nss \subseteq Namespaces, nss # {},
           \A n \in nss : recs[n].born \in Nat
    PROVE  /\ EldestOf(recs, nss) \in nss
           /\ \A n \in nss : recs[EldestOf(recs, nss)].born <= recs[n].born
<1> DEFINE Born == {recs[n].born : n \in nss}
           Oldest == {n \in nss : recs[n].born = Min(Born)}
<1>1. Born \subseteq Nat /\ Born # {}  OBVIOUS
<1>2. Min(Born) \in Born /\ \A y \in Born : Min(Born) <= y
  <2> HIDE DEF Born
  <2> QED  BY <1>1, MinNat
<1>3. Oldest \subseteq Nat /\ Oldest # {}
  <2>1. nss \subseteq Nat  BY NumbersAssumption
  <2>2. \E n \in nss : recs[n].born = Min(Born)  BY <1>2
  <2> QED  BY <2>1, <2>2
<1>4. Min(Oldest) \in Oldest
  <2> HIDE DEF Oldest
  <2> QED  BY <1>3, MinNat
<1>5. EldestOf(recs, nss) = Min(Oldest)  BY DEF EldestOf
<1>6. \A n \in nss : Min(Born) <= recs[n].born
  <2>1. \A n \in nss : recs[n].born \in Born  OBVIOUS
  <2> HIDE DEF Born
  <2> QED  BY <1>2, <2>1
<1>7. Min(Oldest) \in nss /\ recs[Min(Oldest)].born = Min(Born)  BY <1>4
<1> HIDE DEF Born, Oldest
<1> QED  BY <1>5, <1>6, <1>7

(* The age of the first of a set stays when what comes later is not older. *)
LEMMA EldestStays ==
    ASSUME NEW recs, NEW nss, nss \subseteq Namespaces, nss # {},
           \A i \in nss : recs[i].born \in Nat,
           NEW later, NEW nss1, nss1 \subseteq Namespaces,
           \A i \in nss1 : later[i].born \in Nat,
           EldestOf(recs, nss) \in nss1,
           \A i \in nss \cap nss1 : later[i].born = recs[i].born,
           \A i \in nss1 \ nss : \A k \in nss : recs[k].born <= later[i].born
    PROVE  later[EldestOf(later, nss1)].born = later[EldestOf(recs, nss)].born
<1>1. PICK n : n = EldestOf(recs, nss)  OBVIOUS
<1>2. PICK m : m = EldestOf(later, nss1)  OBVIOUS
<1>3. n \in nss /\ \A i \in nss : recs[n].born <= recs[i].born  BY <1>1, FirstIsOldest
<1>4. n \in nss1  BY <1>1
<1>5. m \in nss1 /\ \A i \in nss1 : later[m].born <= later[i].born  BY <1>2, <1>4, FirstIsOldest
<1>6. later[m].born <= later[n].born /\ later[n].born = recs[n].born  BY <1>3, <1>4, <1>5
<1>7. recs[n].born <= later[m].born
  <2>1. CASE m \in nss  BY <1>3, <1>5, <2>1
  <2>2. CASE m \notin nss  BY <1>3, <1>5, <2>2
  <2> QED  BY <2>1, <2>2
<1>8. later[m].born \in Nat /\ later[n].born \in Nat  BY <1>4, <1>5
<1> QED  BY <1>1, <1>2, <1>6, <1>7, <1>8

(* The AppBinding of a Prometheus does not wander: the answer changes only  *)
(* to a namespace that is as old, as long as the one before is one of the   *)
(* project's. What comes later is not older (main.go 650-692).             *)
THEOREM AppBindingStays == Spec => PresetNamespaceStable
<1>1. ASSUME IInv, IInv', Next, NEW p \in Proms,
             NamespaceForPreset(p) # None, NamespaceForPreset(p) \in OperatedFor(p)'
      PROVE  ns'[NamespaceForPreset(p)'].born = ns'[NamespaceForPreset(p)].born
  <2>1. Types /\ Types' /\ Ages  BY <1>1 DEF IInv
  <2>2. PICK recs, later : recs = ns /\ later = ns'  OBVIOUS
  <2>3. PICK nss, nss1 : nss = OperatedFor(p) /\ nss1 = OperatedFor(p)'  OBVIOUS
  <2>4. /\ nss = {n \in Operated : n \in Namespaces /\ recs[n] # None /\ HelmProject[n] = Selects[p]}
        /\ nss1 = {n \in Operated : n \in Namespaces /\ later[n] # None /\ HelmProject[n] = Selects[p]}
    BY <2>2, <2>3 DEF OperatedFor, Existing, Exists
  <2>5. nss # {} /\ NamespaceForPreset(p) = EldestOf(recs, nss)
    BY <1>1, <2>2, <2>3 DEF NamespaceForPreset, FirstOf, EldestOf
  <2>6. EldestOf(recs, nss) \in nss1  BY <1>1, <2>3, <2>5
  <2>7. NamespaceForPreset(p)' = EldestOf(later, nss1)
    BY <2>2, <2>3, <2>6 DEF NamespaceForPreset, FirstOf, EldestOf
  <2>8. /\ nss \subseteq Namespaces /\ nss1 \subseteq Namespaces
        /\ \A i \in nss : recs[i].born \in Nat
        /\ \A i \in nss1 : later[i].born \in Nat
    BY <2>1, <2>2, <2>4 DEF Types, NsRec
  <2>9. /\ \A i \in nss \cap nss1 : later[i].born = recs[i].born
        /\ \A i \in nss1 \ nss : \A k \in nss : recs[k].born <= later[i].born
    <3>1. CASE ns' = ns  BY <2>2, <2>4, <3>1
    <3>2. CASE ns' # ns
      <4>1. ClusterStep  BY <1>1, <2>1, <3>2, Steps, CallFrame
      <4>2. PICK k \in Namespaces :
               /\ \A i \in Namespaces \ {k} : ns'[i] = ns[i]
               /\ \/ Exists(k) /\ ns'[k].born = ns[k].born
                  \/ ~ Exists(k) /\ ns'[k].born \in {Latest, Latest + 1}
                  \/ ns'[k] = None
        BY <2>1, <3>2, <4>1, NsChange DEF NsKept
      <4>3. \A i \in nss \cap nss1 : later[i].born = recs[i].born
        BY <2>2, <2>4, <2>8, <4>2 DEF Exists
      <4>4. Latest \in Nat /\ \A i \in nss : recs[i].born <= Latest
        BY <2>1, <2>2, <2>4, LatestIsLast DEF Existing, Exists
      <4>5. \A i \in nss1 \ nss : later[i].born \in {Latest, Latest + 1}
        BY <2>2, <2>4, <4>2 DEF Exists
      <4> HIDE DEF Latest
      <4>6. \A i \in nss1 \ nss : \A h \in nss : recs[h].born <= later[i].born
        BY <2>8, <4>4, <4>5
      <4> QED  BY <4>3, <4>6
    <3> QED  BY <3>1, <3>2
  <2>10. later[EldestOf(later, nss1)].born = later[EldestOf(recs, nss)].born
    BY <2>5, <2>6, <2>8, <2>9, EldestStays
  <2> QED  BY <2>2, <2>5, <2>7, <2>10
<1>2. IInv /\ IInv' /\ [Next]_vars => [\A p \in Proms : StaysAsOld(p)]_vars
  <2> SUFFICES ASSUME IInv, IInv', Next, NEW p \in Proms PROVE StaysAsOld(p)  OBVIOUS
  <2> QED  BY <1>1 DEF StaysAsOld
<1> QED  BY <1>2, Inductive, PTL DEF Spec, PresetNamespaceStable
=============================================================================
